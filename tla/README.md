# TLA+ models of repkgs: build daemon, compiler wrapper and relocatable programs

repkgs is a package set for Nix with its own builders and toolchain. Most of it is evaluated or
runs once, front to back. Two parts are hard to get right by testing. One is what many sandboxes
share while they build: **jigd**, a daemon that stores compiler results and hands out build slots,
**jig**, which stands in for the compiler and talks to jigd, and **jsem**, which connects ghc's
own parallelism to jigd's slots. The other is what makes packages **relocatable**: jig's link policy
and `reloc-fixup`, the start-up stub, `launch` and `dlaudit`, which have to agree with each other,
with the kernel and with ld.so. This project models both, checks the models with TLC and proves the
most important results for every size with TLAPS.

Paths below are relative to the repository (`src/`). `PROJECT.json` lists for every definition the
lines it models, and the runs, mutants, findings, hazards and theorems.

## The system

| part | source | state | what happens to it |
|---|---|---|---|
| slots | `pkgs/ji/jigd/src/slots.go`, `serve` in `main.go` | tokens out, tokens per build, queue of waiters; per connection the tokens it holds | SLOT, DONE, end of file, deferred release, daemon restart |
| slot client | `pkgs/ji/jig/src/process.cc`, `cache_client.cc` | one connection per compiler run | ask, run, return; run without a daemon; get killed |
| cache client | `cache_client.cc`, `serve` in `main.go` | two bounded sockets, buffers on both sides | pipelined GET, HAS, PUT, IDS; hang-ups |
| broker | `pkgs/js/jsem/src` | lock file, slots held, an order in flight, the POSIX semaphore it feeds | `Tick` every 10 ms while ghc takes and posts tokens |
| pack store | `pkgs/ji/jigd/src/store.go` | pack and hint files in tiers, index, totals, demoter, its channel | Put, rotate, demote, evict, Close, crash, OpenStore |
| compile cache | `pkgs/ji/jig/src/cc_mode.cc`, `manifest.cc`, `store.cc`, `keys.h` | the build tree, manifests and results in the store | look up, validate, replay; else compile, hash, put |
| rustc, go, directory caches | `pkgs/ji/jig/src/{rustc,gocache,dir}_mode.cc` | entries in the store, files in a build | restore or make, then store |
| identities | `pkgs/ji/jigd/src/identity.go` | memo of file hashes by stamp | ask, while paths are collected and built again |
| link policy and fixup | `pkgs/ji/jig/src/{driver,fixup_mode,elf_fixup}.cc` | an ELF file: RUNPATH, NEEDED, PT_INTERP | link, install, fix up, publish, copy, load |
| start | `pkgs/la/launch`, `pkgs/cr/crt-interp`, `pkgs/dl/dlaudit` | a process: its program, arguments, environment, memory | exec, map ld.so, load libraries, exit |
| the rest | nix-store client, uptrack, builders, Nix set, bootstrap | none that is shared | sequential; see PROJECT.json |

How they meet: a jig holds a connection to jigd while its compiler runs and so holds a slot; a
broker holds slots on behalf of ghc, and ghc in turn calls compilers through jig; the caches store
into the pack store, which may forget anything at any time; the stub opens the interpreter at the
place `reloc-fixup` wrote, and a launcher starts programs and other launchers.

What makes it hard: clients that hang up while blocked, a daemon that restarts under its clients,
`Tick` not being atomic against ghc, crashes between any two file operations, a demoter that
copies without the lock, files that change around a compile, results that move from one build to
another, and binaries that are linked in one place, installed in a second and run in a third.

## Modules

| module | models | role |
|---|---|---|
| `Slots` | slots.go, `serve`, class `Slot` | detailed |
| `Semaphore` | what Slots promises | abstract |
| `SlotsProofs` | theorems about Slots | proofs |
| `Broker` | jsem, ghc and cabal around it, the daemon as a counter | detailed |
| `Admission` | brokers and jigs on one set of slots | composition |
| `BrokerProofs` | theorems about Broker and Admission | proofs |
| `Sums` | sums over finite sets, for Broker and PackStore | shared vocabulary |
| `PackStore` | store.go | detailed |
| `LossyMap` | what the store promises | abstract |
| `PackStoreSteps` | the inductive invariant of PackStore, and that each step keeps it | proofs |
| `PackStoreProofs` | theorems about PackStore | proofs |
| `Toolchain` | builds, files, a deterministic compiler | shared vocabulary |
| `PlainCompiler` | what jig promises: the compiler | abstract |
| `CompileCache` | cc_mode.cc and manifest.cc over a cache that forgets | detailed |
| `Wire` | CacheClient against `serve`, unit by unit | detailed |
| `WireProofs` | theorems about Wire | proofs |
| `ArtifactStore` | jigd as the three caches below see it: a map that forgets, connections that break | shared |
| `DirCache`, `GoCache`, `RustCache` | dir_mode.cc, gocache_mode.cc, rustc_mode.cc | detailed |
| `Identities` | identity.go | detailed |
| `Artifacts` | the three caches and the identities on one daemon | composition |
| `ArtifactsProofs` | theorems about DirCache and Identities | proofs |
| `ToolCachesProofs` | theorems about GoCache, RustCache and Artifacts | proofs |
| `StorePaths` | paths, store paths, relative paths | shared vocabulary |
| `JigProofs` | theorems about CompileCache and StorePaths | proofs |
| `Driver`, `ElfFixup` | driver.cc; fixup_mode.cc and elf_fixup.cc, as functions | detailed |
| `Relocation` | the life of a binary | composition |
| `Launch`, `CrtInterp`, `DlAudit` | launch.cc, crt_interp.c, dlaudit.cc, as functions | detailed |
| `Start` | one start of a command | composition |
| `Programs` | a life of a binary or a start of a command | composition |
| `MCSlots`, `MCBroker`, `MCAdmission`, `MCPackStore`, `MCCompileCache`, `MCWire`, `MCArtifacts`, `MCPrograms` | | values of the constants for TLC |

A definition named "Mutant of X" is X with a plausible slip of the programmer; no specification
uses it. Putting it in X's place has to break the property it belongs to.

### Slots, Semaphore

A connection has a goroutine (`serve`), a client and at most one unread request line. `Acquire` and
the test in it are one step, because they run under `Slots.mu`; `Release` is several (take back the
token, grant in a loop, unlock), with `mu` telling who is inside, because the order of grants
matters to `FewestHeldFirst`. A client may be killed at any point, also while its goroutine is
blocked and cannot see it. A restart empties the daemon and leaves the compilers running, which
from then on run `"alone"`. Connections are used again, so runs have no bound on their length.

### Broker

Every `sem_trywait` and `sem_post` of `Tick` and of `~Broker` is a step, and ghc's threads take,
post and wait in between. `held_` is kept as two counters, connections the daemon knows and
connections from before it stopped. ghc and cabal are external: cabal creates the semaphore, ghc's
threads take and return tokens, and cabal removes the semaphore when none is in use. The daemon is the counter that
`Semaphore` describes; a returned slot is free at once (the delay is in `Slots`). When the daemon
stops, an OK that it has written can still be read (`"late"`); it counts as a slot from before.
A broker is forked when cabal executes a ghc, so after a kill there may never be another.

`pkgs/js/jsem/broker.qnt` is the repository's own Quint model of the broker; it has one step per
Tick, so it cannot see what ghc does inside one.

### Admission

Adds the compilers jig runs itself, those of a plain make and those a ghc calls and waits for.

### PackStore, LossyMap

`Put`, `Get` and the demoter's switch run under `Store.mu` and are one step each; copying, the
hint, the unlink, loading and closing are steps of their own. While OpenStore loads a pack, opening
it (or the Stat), truncating its torn tail and sealing it may fail (`LoadFails`). OpenStore logs
such a pack as skipped, but in the last two cases it is in the index already, without Tier.total
in the case of the truncation; in all three its id may be given again. `skipped` remembers that, and
the promises of the store end there. What an id that is used twice leads to is followed with one failure
at a time. A hint that is there and cannot be opened, and a truncation that fails after a
failed Put, are left out. A record is a key and the position of
its Put in a log, so that "newest" can be stated. A crash keeps all files as they are, with a torn
record at the end of the active pack if a Put was under way. A power loss may also cut the tail of
a pack; that renames are not undone and a pack is synced before its hint is named is assumed of the
file system as the code assumes it. The recency that `victim` goes by is left open: any pack may be
picked that the code could pick for some history of reads.

### Toolchain, CompileCache, PlainCompiler

A file is its content, or `NoFile`. A store path is named as jig's keys name it, without the hash;
which store object is behind the name depends on the build, and in content mode that is what lets a
rebuilt dependency hit. The compiler is any function of the files it reads and the paths it looks
up in vain (`CompilerAssumption`). Hashes are modelled by what is hashed: a request key is the tool,
the source and the arguments' store paths and `$out`, masked as `ComputeRequestKey` masks them; a
result key is the request key and the manifest. An object is its text, the `$out` and the dependency
paths it carries. Manifest and results are put one by one, and other jigs and evictions come in
between; each answer of a lookup can be missing. Looking at a manifest is one step, as nothing the
model has changes under it unless `Racing`. A probe link (`link_one`) is taken for a compile or a
link.

`PlainCompiler` says that a call returns what the compiler makes of the files at one instant of the
call. Standard error is not part of that promise: the code replays an empty one when the stored
one is lost.

### Wire

A client makes its plan of operations on one connection. A request, an answer line and each piece
of a value are units in bounded queues: the socket in each direction, jigd's read buffer, the
client's `pending_`. Values may be corrupt, too large for `kMaxObjectSize` or cut short by a daemon
that dies at any point. `answers` is what the daemon really said, so that "the answer to this very
question" can be stated. A value of 4 GiB and more, whose length would wrap in the 32-bit header of
the compressed form, is left out; the code reads it as a miss.

### ArtifactStore, DirCache, GoCache, RustCache, Identities, Artifacts

The caches use keys with prefixes of their own, so one sees of the others only evictions. A
behaviour of `Artifacts` chooses its processes, of any of the caches (`acting`, one of `Casts`), and
has `Evict` at any time; TLC looks at pairs, the theorems are for any cast. `ArtifactStore` counts
faults (evictions, broken connections, failed calls) up to `MaxFaults`. Each cache also has a specification of its own (`DirSpec`, `GoSpec`, `RustSpec`), in which its steps are interleaved with
anything the daemon may do for others: it takes entries away and uses other keys (`Elsewhere`,
`GoElsewhere`, `RustElsewhere`). The theorems about a cache are about that specification, and
`Artifacts` is proved to implement all of them.

- *DirCache*: put-dir walks the tree in batches of `kBatch`, get-dir restores it. A text has the
  names of store paths in it, which are masked when stored and resolved to the restoring build's
  roots; a name that is no root there stays masked. If `racing`, files change between being hashed
  and being read again. Return codes 1 and 2 are both `"cold"`. get-dir ignores a `create_symlink`,
  `chmod` or `remove` that fails and may still answer 0; `ignored` has the paths where that happened,
  which the properties except. A link with a blank in its target is a line of four words, which
  `ParseListing` drops: a warm tree lacks it. Tabs and newlines in names are left out.
- *GoCache*: go writes a request in one atomic write, a body in several; of the body a kill leaves
  any beginning. A failed write of the output file is ignored by the code, so the path of an answer
  may not exist. Base64 is modelled as the code's accumulator of bits; the reference is RFC 4648, the
  bytes as one number in digits of 64.
- *RustCache*: cargo's options in one token or in two, the fields of the request key, manifest,
  packed outputs with `@` for the unit's own `extra-filename`. Lines for environment variables in
  dep-info are not tracked by the code (rustc_mode.cc:350) and not modelled; a lost standard error is
  replayed as an empty one, as in the compile cache.
- *Identities*: open, stat, lookup, read, store as steps of goroutines that share the memo. Nix
  gives a path to a new inode or, once nobody has the old one open, to the same; a file grows while
  it is built. Contents and times are any. Nix sets every time to 1, so a rebuilt file of the same size
  on a reused inode has the stamp of the old one, and the memo cannot tell them apart;
  `IdentityIsContent` says that this is the only way to get another content than that of the file:
  the identity is of a content the path has had with this very stamp (`past`).

### StorePaths, Driver, ElfFixup, Relocation

A path is a sequence of components, each with its length (`Chars`), because `reloc-fixup` writes
into the bytes of the RUNPATH the linker left. `BuildDriverArgs` is a function from the user's command
line to the compiler's; the linker, external, takes the first directory with a library. `FixElf` is
the whole of reloc-fixup on one file. `Load` is ld.so with `$ORIGIN`, external. The build installs
under `$NIX_BUILD_TOP/prefix`, fixes up with `--dest`, and the prefix then moves to the store.

The instances have libraries of one name in several directories, and `LoadsWhatWasLinked` says
exactly when another than the linked one is loaded: RUNPATH has the directories of rpaths and of
libraries given by path before those of `-L`, and reloc-fixup adds the package's own directories last.
Each of these three exceptions is needed. With the last, `-lown -L build/src` beside a `-L` of a
dependency that has an `own` too links the package's library and loads the dependency's. That is
more than `docs/design.md:136` says ("RUNPATH for exactly the dirs that satisfied a `-l`"): the driver
adds every store `-L` directory that has *some* `-l` library.

Other observations, none of which a property contradicts: `-lc++ ... -nostdlib`, in this
order, makes reloc-fixup fail, loudly (`RuntimeForgotten`); links with `-nostartfiles` get no policy.

### Launch, CrtInterp, DlAudit, Start, Programs

`Launch` has the file system as symbolic links, files and records, and the four placeholders. A
command is found in PATH as `access(X_OK)` finds it, through links and only if it is executable
(`Runnable`); a directory of that name, which `access` accepts too, is left out. Its
Windows half is a command line taken apart by the rules of `CommandLineToArgvW`. `CrtInterp` has
memory byte by byte, with protections, and segments at offsets that do or do not meet page
boundaries; the reference is what the kernel's ELF loader makes of the same headers (`KernelByte`).
Without `/proc` the stub goes by AT_EXECFN, which misses the interpreter when a link leads to the
program; the code calls that "good enough as the fallback", and `InterpreterFound` excepts just that.
`DlAudit` has one pending name; ld.so, external, opens an object, fails, or finds the object mapped
under another name. The last is a dlopen that succeeds, and dlaudit names it all the same, although
`dlaudit.cc:1` says that it "names a dlopen that found nothing"; `AuditNamesFailures` allows it. A line
that cannot be written is lost; that a short write would join it to the next is left out.

## Runs

| run | configuration | result |
|---|---|---|
| `slots` | 3 connections of one build against 1 of another, 2 slots | token count, no idle slot, fewest first, refines `Semaphore`; everybody is served, tokens of the dead come back |
| `broker` | 1 semaphore, 2 jsems, 2 slots, 2 faults | no over-admission, slots accounted; slots come back, ghc is served while broker and daemon stay, the broker leaves |
| `admission` | 1 broker, 2 jigs, 2 slots, 1 fault | bound on the host, compilers are served |
| `admission_spare` | the same on 1 slot | **violated**: a compiler waits for ever |
| `packstore` | 2 tiers, 2 keys of size 1 and 2, 4 Puts or 3 and an error, also at load, 1 crash | index, totals, channel, clean restart, refines `LossyMap`; a tier over budget gets below it |
| `packstore_reuse` | a hint that cannot be written at load, 1 tier | **violated**: an overwritten value is back after a clean restart |
| `compilecache` | content mode, 2 builds with a rebuilt dependency | entries right, refines `PlainCompiler` |
| `compilecache_grown` | the rebuilt dependency has a file more | **violated**: a wrong entry |
| `compilecache_embedded` | a `-D` with the path of a rebuilt dependency | **violated**: a wrong entry |
| `wire` | 12 plans of one to three operations, 2 keys, sockets of 2 and 3 units | answers go to their questions, the stream is clean or given up; the client returns |
| `artifacts` | 2 processes of each cache or 1 each of two, up to 2 faults, 1 edit | directories restored whole or not at all and from one build, go's hits, rustc's units and variants, identities |
| `programs` | 8,738 command lines, about 2,900 commands and layouts | libraries and libc found anywhere, no refusal, strings in place; program, environment, interpreter, memory, report |

`BudgetKept` of `packstore` starts when the active pack has a record, and after a crash only when the
first tier is over its budget. The code does not look at budgets when it opens a store, and `Put` looks
at the first tier only (store.go:324): a store that a crash between a Put and the demotion, or between
a demotion and the eviction after it, left over budget stays so until a Put finds the first tier over.

`WaiterServed` of `broker` has premises: the daemon stays up, and the broker stays or there never is
one. A broker that is killed in a Tick takes the tokens it has drained with it; the last ghc of a
cabal may then wait for ever, as nothing starts another broker.

`Returns` of `wire` has a premise: questions or answers fit into a socket's buffer. Without it both
sides can block in a write. The batches of 256 in dir_mode.cc keep GET, HAS and PUT within it; a list
of some thousand identities, one per input of a manifest, is where it would be exceeded.

Types are proved (`TypeCorrect`, or as a part of the inductive invariant) and are not a property of
the runs.

Each violated property is what a comment, message, test or document of the repository says; the
findings in PROJECT.json quote it.

### Bounds

- Slots: two slots for four connections is the least at which a build can hold one, wait for
  another and compete with a build that does the same. Nothing else is bounded.
- Broker: `Caps` 2 and `Limit` 2 let ghc take the spare and wait, with a slot left to order or none.
  `AliveEvery` is 2 instead of 50: the loop counter only matters modulo it. `MaxFaults` 2 is a kill
  and a daemon stop in either order.
- PackStore: `PackLimit` 2 with sizes 1 and 2 makes a Put fit, rotate, or rotate after a failed
  rotation. `MaxPuts` bounds Puts and failing calls together: four Puts fill two tiers, are cut short
  by a crash and go on after it; with a failing call there are three. `MaxId` 4 or 5 leaves ids for
  restarts, two tiers demote and evict. One crash, one failing call: anywhere.
- CompileCache: one translation unit whose header is found in the tree or in a dependency, in
  either order; two contents, one of which does not compile. One edit and one eviction. Two jigs; the
  theorems cover any number, and path mode (`ByContent = FALSE`) as well.
- Wire: values below, at and above `kMaxObjectSize`; one and two questions before another operation on
  the same connection, three in one. Sockets of 2 and 3 units block both sides in some plans and
  not in others.
- Artifacts: two processes are enough to meet in the cache, in cargo's out-dir and in go's directory.
  `kBatch` 2 with four files gives a full batch, a last one and a link between. go's outputs are the
  empty one and one of three bytes, ids of one and two bytes have each kind of base64 padding. The
  eight pairs of rustc units are the same crate in another build or toolchain, two variants in one
  build, binaries, a probe and an incremental unit. A pair of two different caches is looked at with one
  fault or none. Identities: one path, two inodes, two versions of it that differ in the inode, the
  size, the time or the content alone; the theorem covers any number. The symmetry is that of the two
  GOCACHEPROGs, which share a directory and get the same requests.
- Programs: three arguments are the least for an option that moves what another refers to
  (`-L`, `-l`, `-rpath`); libraries under long and short store names make the new strings fit or
  not. Two fixups. Two places of installation, two roots. Launchers one and two deep; all pairs of
  six arguments with quotes, blanks and backslashes for the Windows line; layouts of ld.so with all
  combinations of first address, sizes and gaps around pages of 2 and 4 bytes; four lookups under
  dlaudit.

Deadlock is checked for `slots`, `wire` and `programs`. The other systems may stop: cabal is done,
the bounds are used up.

### Fairness

- Slots: strong fairness for each goroutine, which competes for a Go mutex that hands itself to
  the oldest waiter after a millisecond; weak fairness for "the compiler ends".
- Broker, Admission: processes keep running, modules compile in finite time; no broker has to start. A
  thread in `sem_wait` gets a token that is there again and again, since the spare stays posted for
  the 10 ms the broker sleeps. The daemon answers if it has a slot again and again, which is
  `WaiterServed` of run `slots`.
- PackStore: the demoter is a goroutine of its own and start-up waits for nobody.
- Wire: the client's thread and the connection's goroutine each take a step that stays possible.

No fairness is assumed of kills, crashes, restarts, Puts or edits.

## Proofs

All theorems are for arbitrary constants: any number of processes, keys, files, sizes, budgets and
faults. The named assumptions of the modules say:

- `SlotsAssumption`, `BrokerAssumption`, `AdmissionAssumption`: finitely many connections, brokers and
  jobs, counts are naturals, at least one slot.
- `PackStoreAssumption`: finitely many keys, a record has a size, at least one tier, budgets are naturals.
- `ToolchainAssumption`, `CompilerAssumption`: tree and store are disjoint; what the compiler makes
  depends on the files it reads and the paths it misses, and on nothing else.
- `WireAssumption`: values have a header, buffers hold at least one unit, and a socket holds less than
  an object that is too large (some hundred KiB against 2 GiB). The last is needed: a client that gives
  up on such an object has filled its buffer at most once, so all it has is bytes of that object.
- `DirCacheAssumption`: a directory is walked in a fixed order that has no path twice.
- `GoAssumption`: outputs have ids of their own (a hash), and on the ids and outputs there are the
  code's base64 is RFC 4648 and is read back. This is a fact about two recursive functions, which TLC
  evaluates; for all sequences of bytes it would take induction over data.
- `CargoAssumption`: cargo gives the units of a build stems of their own, and its arguments tell the
  features of a unit.
- `IdentAssumption`: contents are sequences. Nothing is assumed of stamps.
- `ArtifactsAssumption`: the processes are those of the three caches.

A theorem `Spec => []Inv` comes from an inductive invariant. What each adds, and why:

**Slots** (`TypeCorrect`, `TokensAreAccounted`, `AdmissionLimit`, `WorkConserving`, `QueueIsSound`,
`FairGrant`, `Refinement`). The inductive invariant is `SlotsInv`. The count of tokens alone is not
inductive: that a DONE takes back a token the connection owns, and that one who is granted owns
none, is in `Conversation`; that a grant wakes a goroutine that is really blocked, once, is in
`QueueSound`; `NoIdleSlot` needs `out <= Limit`. The refinement maps the holders of the semaphore to
the connections that own a token.

**Broker** (`TypeCorrect`, `LockAdmitsOne`, `TickIsSound`, `AdmissionBacked`, `SlotsAreAccounted`).
`NoOverAdmission` says of every instant that the tokens in the semaphore and with ghc are cabal's or
backed by slots. It is inductive only with what a half-done Tick has in hand: `TickSound` bounds the
rest by the slots that Tick has decided to keep, so that the token it posts at the end is backed.
`OneBroker` keeps two brokers from draining each other, `UnlinkedUnused` makes ~Broker's draining
complete. `SlotsAccounted` equates the daemon's counter with a sum over the brokers; sums are counted
(`Sums`), so that they can be reasoned about with the theorems on finite sets.

**Admission** (`HostIsBounded`). Everything that runs on the host under a slot or a token is bounded
by the slots and cabals' tokens. `AdmissionInv` is `BrokerInv` with the jigs' slots in the daemon's
counter. A step of Admission is one of Broker but for that counter, and what `BrokerInv` says does
not depend on it (`CounterFree`).

**CompileCache** (`Soundness`, `JigIsCompiler`). `EntriesSound` speaks of every jig and every tree that
could come by an entry, not only of those that do. The theorem: it holds if `Discipline` does. The
argument: who has the request key has the same source and compiler; who finds the manifest valid has
the same files where the run read some and none where it missed some (`SameInputs`); so by determinism
the compiler would give the same (`EntryFits`). The invariant `IInv` carries from the compile to the
last Put that key, observation and manifest are those of the jig's present files. From it follows that
jig implements `PlainCompiler`: `FetchInv` adds that a jig that fetches has found its manifest valid,
so what it replays is what the compiler would make at that instant. `Discipline` has four parts, and
each is needed: `compilecache_grown` and `compilecache_embedded` drop one each and get a wrong entry;
for the other two, set `Racing = TRUE` or `KindOf <- Links` in `MCCompileCache.cfg`.

**PackStore** (`StoreIsSound`, `IndexIsSound`, `CountersAreRight`, `NeverSendsOnClosed`,
`RestartIsClean`, `StoreIsLossyMap`). All but the channel hold until OpenStore skips a pack (`skipped`);
`packstore_reuse` shows that they are false afterwards. Failing calls otherwise, a crash between any
two steps and a power loss are covered. `StoreInv` has these parts:

- `DiskInv` is about files alone and holds also after a crash: only the last record of a pack is
  torn, copies of a pack agree, a hint says nothing false about any copy, and the highest id in use is
  that of a pack, so that it is not given again.
- `LoadInv` is about a half-loaded store: the index has of the packs loaded so far what their hints say.
- `ServeInv` is about a store that serves: the active pack is the newest, every sealed pack has a hint
  that has what the index finds in it, and a second copy of a pack is one the demoter is making.
- `CloseInv` follows what was there at the last Close (`atClose`) through the files until the
  index has it again. `CleanRestart` needs it.

`CountersAreRight` adds that `live` and `total` are sums over the index and over the packs (`CountInv`).
`StoreIsLossyMap` maps the store to the values the index leads to; that the demoter's steps do
not change a value rests on `OnePlace` and `CopiesAgree`.

**Wire** (`WireIsInOrder`, `AnswersAlwaysMatch`, `StreamStaysClean`). That results are the answers to
their questions is not inductive: the answers are spread over a queue, a buffer and what the daemon
has in hand. `WireInv` says of all of these at once that they are, in order, the answers not read
yet (`Carried`), that the questions on their way are the next ones of the operation (`InOrder`), and
that a client that gave up its stream has only bytes of one value left (`LostInv`).

**DirCache** (`DirIsSound`, `TreesAreWholeOrAbsent`, `WarmTreesAreOneBuilds`). `DirInv` says of a
restore that what it has written is what the listing says and everything else is absent, so that
wiping `written` leaves nothing, except at the paths in `ignored`; of a walk that it lists every path
at most once. That a restored tree is that of one build, but for what `AsStored` and `Kept` except,
holds if nobody writes to a tree while put-dir reads it (`racing` is false);
`CleanInv` carries this from the walk over the blobs to the restore, and `RoundTrip` says that masking and
resolving change a file as `Localized` does.

**GoCache** (`GoIsSound`, `HitsAreGiven`). That a hit was given for its action needs that every action
in the store leads to an output given for it (`EntriesInv`), whoever put it there. That needs that a
process that puts the action has read the body to its end: `HandlingInv` follows what is left on
stdin, where a killed go may leave any beginning of a body. `FilesInv` is the same for the files that
answers point to.

**RustCache** (`RustIsSound`, `UnitsAreBuilt`, `VariantsStayApart`). An object in the store is what some
unit makes of some tree, under the key and the manifest of that tree (`ObjectsInv`). A unit that
comes by it has the same key, and finds the manifest valid; `SameMade` concludes that it would make
the same files. `UnitInv` carries key and manifest from the lookup to the last put.

**Artifacts** (`CachesStayApart`, `ToolCachesAreSound`). On one daemon, with any processes of all of them
acting in turns, every cache behaves as its own
specification says: an entry that one of them puts is under a key that no other asks for
(`DirPuts`, `GoPuts`, `RustPuts`), so its steps are `Elsewhere` to the others. So what is proved of
each cache holds of all of them together.

**Identities** (`IdentitiesSound`, `MemoIsSound`). That an answer is a content the path has had with the
stamp of the file opened is not inductive: an answer may come from the memo, which another goroutine
wrote. `IdentInv` adds that every memo entry is such a content for its stamp (`MemoSound`), that an
open file is a version of the path
asked for even when the path is gone (`Held`), and that a file that grew after the stat still begins
with what was stamped (`Stamped`), which is why reading exactly `size` bytes is right.

**StorePaths** (`RelativeLeadsThere`, `RelativeMovesAlong`). The path `RelativeTo` computes leads from
the directory to the target, and still does when both are copied from one root to another; for all
paths. The argument is that the shared beginning is the longest common prefix and that moving
exchanges a part of it.

**Only model-checked**:

- liveness, which like everything under fairness is not within reach of the prover: that waiters are
  served, tokens and slots come back, the broker leaves, `BudgetKept` and `Returns`;
- `Programs`: libraries and interpreters found, launchers, memory, dlaudit. `Launch` and `Start` are
  built from recursive operators, which the prover cannot take; what `CrtInterp` does is a question of
  loops over bytes; of `Relocation` only the lemmas on relative paths are proved;
- what recursive functions compute on data of any size (base64, placeholders, command lines): this
  would need induction over data, which is out of reach too.

## What the findings say

1. Spares of the brokers can be all slots there are (`admission_spare`).
2. A pack whose hint cannot be written at load is half loaded, and ids are no longer given in the
   order of time (`packstore_reuse`).
3. Absent store paths are not recorded although a masked name may be filled by another build
   (`compilecache_grown`).
4. Paths of dependencies in a `-D` are masked in the key and not in the object
   (`compilecache_embedded`).

## Not modelled

- `jig nix-store`: one request at a time to the Nix daemon, no retry, any failure exits with 1. What
  could be wrong there is in byte formats (SHA-256, Nix32, ATerm, the worker protocol).
- Mach-O (`macho_fixup.cc`) and the driver's COFF and Mach-O policies; `--deny` and `--sdk`; the
  parsing of jig's configuration and of response files and depfiles.
- Bytes of a value that is too large, which the client may take for a line before it gives up the stream
  (cache_client.cc:149): the model takes them for no answer, which they are unless the value itself has
  lines of that form in it.
- An output of rustc that cannot be read when it is packed: rustc_mode.cc:87 leaves it out and stores the rest.
- launch: malformed records, which end in an error message, and the job object and wait on Windows.
- The search for store paths in a text byte by byte (`store.cc`), and byte formats (ELF, NAR, zstd).
- uptrack, the evaluation in Nix and the phases of the builders: sequential programs that end at the
  first error and share no state.

What would add most next: theorems about `Relocation` (a fixed-up binary finds its libraries wherever
it is copied), for which the lemmas on relative paths are the beginning, and the Mach-O fixups as a
second instance of it.
