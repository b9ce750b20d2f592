# A verification of ACVM

ACVM is a macOS application that runs ARM virtual machines with QEMU. The
repository holds two kinds of program:

- the application itself, a window written in Swift (`src/ACVM/*.swift`) that
  starts `qemu-system-aarch64`, follows it and stops it;
- the sources of QEMU firmware that ship in its bundle: the s390-ccw boot
  firmware in C (`src/ACVM/pc-bios/s390-ccw/`) and x86 option ROMs in assembler
  and C (`src/ACVM/pc-bios/optionrom/`).

Everything else in `pc-bios/` is data or prebuilt binaries. There are no tests.
This directory models the parts with behaviour of their own in TLA+, checks them
with TLC and proves theorems about each of them with TLAPS. `PROJECT.json`
names, for each definition, the lines it stands for; for each run, what it
checks; for each property, a mutation of the code that breaks it; and the
hazards the properties are aimed at.

## Inventory

| part | state | operations | what is hard | module |
|---|---|---|---|---|
| launcher window (`ViewController`, `FileDropView`) | image and CD, tracked `Process`, `UserDefaults`, files of the image | drop, Start/Stop, termination notice, quit and restart | processes and notices run beside the window; settings survive it; files vanish | `Launcher` |
| virtio ring (`virtio.c`, `virtio-blkdev.c`, `virtio-scsi.c`) | descriptor table, rings, 16-bit indices | `vring_send_buf`, `vr_poll`, `vring_wait_reply`, `drain_irqs` | the host works on the same memory at any time; late answers | `Vring`, `VirtioQueue`, `BlockRead` |
| vapic (`kvmvapic.S`) | a 32-bit word per virtual CPU, shared with the hypervisor | get and set the TPR, poll, enable the record | hypervisor between any two instructions, nested interrupts | `KvmVapic` |
| channel I/O (`cio.c`) | a subchannel, its status and interrupts | `do_cio` with retries and sense | foreign interrupts, unsolicited status | `Cio` |
| boot device search and set-up (`main.c`, `virtio*.c`, `bootmap.c`) | the globals `blk_schid`, `vdev`, `is_cdrom`, ... | find, probe, set up, guess the disk, choose a boot scheme | one set of globals serves device after device | `BootDevice` |
| ISO 9660 boot (`bootmap.c`) | one scratch buffer, a stack of directories | descriptors, catalog, directory walk, load | unsigned counters, reuse of the buffer, depth limit | `ElTorito` |
| boot menu (`menu.c`, `sclp.c`) | timeout, line buffer, interrupt masks | set-up, prompt, parse, retry | timer, keys and service calls share one wait | `Menu` |
| console and conversions (`sclp.c`, `libc.c`) | event mask, service signal, buffers | service calls, `sclp_read`, `atoui`; `write`, `uitoa` | one signal for calls and keys; an int that wraps | `Menu`, `Libc`; `write` and `uitoa` not modelled |
| zIPL boot maps (`bootmap.c`, `bootmap.h`) | the buffers `sec`, `_bprs`, `_s2`, `tmp_sec`, the load address | layouts, table, script, segment chains, menu search in stage 2 | buffers read over one another, ends of chains and of blocks | `BootMap` |
| jump to the system (`jump2ipl.c`) | the word at address 0, `save_psw`, `ipl_continue` | replace, reset, restore, enter | the memory belongs to the system that was loaded | `JumpToIpl` |
| DASD IPL (`dasd-ipl.c`) | channel programs in low memory, the prefix page | fix up, cut, run, continue | programs that read their own continuation; interrupts store into what was read | `DasdIpl`, `ChannelProgram` |
| network boot (`netmain.c`, `virtio-net.c`) | the device, `fn_ip`, the lease, memory from 0 up to the loader | search, DHCP, boot file, .INS, pxelinux, release | fallbacks after half an attempt; room below the loader | `NetBoot`; the frames of `virtio-net.c` not modelled |
| linuxboot, multiboot, pvh option ROMs | boot parameters read from fw_cfg | straight-line loads | DMA completion | not modelled |
| keymaps, device trees, ROM images, project files | - | - | data | no |

How they interact: `main` of the firmware finds a device through channel I/O,
sets it up (`BootDevice`), reads from it through the ring (`VirtioQueue`), finds
what to load (`ElTorito`, `BootMap`), may ask the user (`Menu`), and
jumps (`JumpToIpl`). A DASD that is passed through is booted by `DasdIpl`
instead, a network device by a loader of its own, `NetBoot`; both end in
`JumpToIpl`, which they instantiate. `BootDevice` takes channel programs and reads as steps that succeed or
fail; what makes that sound is what `Cio` and `VirtioQueue` show of one program
and one read. The window and the vapic stand alone.

What makes each correct, in a sentence:

- *Window*: it always shows its state; a VM is tracked, or was told to stop; a
  late notice never makes it forget a later VM; what it shows is what is saved.
- *Ring*: it is a synchronous read, whatever the host does meanwhile.
- *vapic*: an interrupt that the TPR lets through is not forgotten; the words
  the hypervisor owns are not overwritten.
- *Channel I/O*: success means that this very program has ended; it recovers
  from what it retries; every call ends.
- *Search*: what is booted is the device that was sensed and reported; nothing
  learnt from an earlier device is used for it, except that its transfers may be as
  short as an earlier one asked for.
- *ISO walk*: counters never lose step; a size that is found is right.
- *Menu*: what is booted is what was typed, where an int holds it; interrupts are not confused; a
  timeout ends the prompt.
- *Boot maps*: what is started is what zipl wrote for that entry, all of it and
  nothing else; every disk zipl writes boots.
- *Jump*: the system finds its own word at address 0 and is entered as it asks.
- *DASD IPL*: the program run in pieces does what it does in one; the guest
  finds what the channel read, but for the words that IPL1, interrupts and printing
  use.
- *Network boot*: the loader is not written over; a system is started whole,
  but for the words it patches and prints over, whatever was tried before it; the
  lease is not taken along.

## Modules

| module | role |
|---|---|
| `Launcher`, `MCLauncher`, `Launcher_proofs` | the window and the processes, files and notices around it |
| `Vring` | the ring as a value and the operations of `virtio.c` on it |
| `VirtioQueue`, `MCVirtioQueue`, `VirtioQueue_proofs` | a request over the ring, with the host; composes `Vring` |
| `BlockRead` | the abstract specification: a synchronous read |
| `KvmVapic`, `MCKvmVapic`, `KvmVapic_proofs` | virtual CPUs, their code and the hypervisor |
| `Cio`, `MCCio`, `ChannelIo_proofs` | `do_cio`, a subchannel, its device, other devices |
| `BootDevice`, `MCBootDevice`, `DiskBoot_proofs` | from `main` to a boot program |
| `ElTorito`, `MCElTorito`, `ElTorito_proofs` | from the volume descriptors to a loaded image |
| `Libc` | `atoui`, `isdigit`, the wrapping int |
| `Menu`, `MCMenu`, `Menu_proofs` | the menu; composes `Libc` |
| `BootMap`, `MCBootMap`, `DiskBoot_proofs` | from block 0 of a disk to the PSW of the system |
| `JumpToIpl` | the borrowed word, the reset and the entry |
| `ChannelProgram` | the abstract specification: an IPL by a channel that fetches each CCW when its turn comes |
| `DasdIpl`, `MCDasdIpl`, `ChannelIo_proofs` | the IPL by a channel that prefetches; composes `JumpToIpl` |
| `NetBoot`, `MCNetBoot`, `NetBoot_proofs` | the network loader; composes `JumpToIpl` |

Each module has its state as variables named as in the code, one action per
handler or per step between which something else can happen, and operators next
to a definition called a *fault*: what the code would be with a plausible
mistake in it. Faults take no part in a specification. They are there to show
that the property named with them in `PROJECT.json` depends on the code.

### State and actions

**Launcher.** A handler of `ViewController` runs on the main thread to its end,
so it is one action, with the `updateStates` call at its end. A `Process` object
is fresh, unlaunched (when `run()` threw), started, booted or exited. QEMU opens
its drives some time after it is started; a termination waits in `pending` until
the main thread delivers it. `qemu-img` runs beside both. The text of fields
that only make command-line words is left out; the NIC field is kept, because
it is persisted.

**VirtioQueue.** One action per `vring_send_buf`, per turn of the polling loop,
and for `drain_irqs` with the return. The host (external) looks at the available
ring at any time, takes chains, moves data, writes the status and then the used
index. The status byte starts as a member of `Fresh`: 0 or 1, as any
uninitialised slot, or 255 after `prepare_request`. `DataPos` and `StopOnError` tell `virtio_blk_read_many` from
`virtio_run`. `MayTimeout` adds the end of
a wait after 30 seconds, which callers do not look at. `Num` and `IdxMod` are
the ring's size and the range of its indices, 65536 in the code.

**KvmVapic.** `up`, chosen at the start, says which of the two families of entry
points the guest was given. A virtual CPU has a stack of contexts: `up_` code leaves interrupts
on, so a handler can run inside `set_tpr` and set the TPR itself. One action per
memory access. The hypervisor (external, from the record's comments and the use
the code makes of it) requests, injects and ends interrupts, and looks at the
word only on its visits. `dirty` is the time between the request of a vector and
the visit it causes.

**Cio.** The start, the wait, the collection of status and the judgement are
steps; the program runs at the subchannel in between, and status of the device's
own or of other devices can come at any time. The report of a failure is left
out, except that it is appended to an uninitialised buffer: after a failure the
firmware may be "wild", anywhere.

**BootDevice.** What a subchannel holds is chosen when it is looked at. `vdev`
is one record, kept from one candidate to the next, with exactly the fields that
are used for the next one. `virtio_guessed_disk_nature` and the functions that
assume a geometry are transcribed with their numbers, so that block sizes and
factors come out right. A failing channel program or SCSI command is the action
`Fails`; what a disk holds is whether a boot scheme returns, boots or panics. A SCSI
device has blocks of any of `BlockLengths`, which need not be one a DASD can have.

**ElTorito.** An image is a record of descriptors, catalog, and for each sector
of a directory its records, by the offsets they begin at. Lengths are small units,
`SECTOR` of them to a sector, and `dir_rem` and the rounding of a size wrap at
`WORD`. `temp` and `sec` name what the scratch buffer holds. The walk trusts the
first two records of a directory; one that is all zeros it would skip for ever,
which is the premise of `Ends`.

**Libc.** `CInt` is the value of a C int after wrapping; the firmware is built with
`-fwrapv` (Makefile:34).

**Menu.** `pc` and `then` are the firmware's place, a service call being two
steps: the call, which raises the service signal, and the wait, which takes one
interrupt, the timer's first. Keys can be pressed, and the timer fall due,
between any two steps. A key's value is chosen when it is read, which is the
first time the program can tell. An entry of a zipl menu that the array of valid
entries has no place for is stored outside it; the firmware is then "wild".

**BootMap.** A disk is a function from block numbers to blocks, a block what
the loader looks at of it. `buf` names which block each of the scratch buffers
holds: the table and the script are both read into `sec` on a DASD, and on a
SCSI disk the pointers are read over the table, the script being on the stack.
Addresses and pointers count blocks; memory is counted from above the low core,
where zipl puts its components and nothing is printed over. A block number is read by
`Sector`, in 64 bits or the 32 of READ(10), and by `LoadBlock`, where
`virtio_load_direct` has an int for it. `room` is how many entries of a script fit
what was read; the walk past it is `RunPastScript`. `eckd_block_num` is transcribed with its
geometry. A slot that a short block does not cover is the filler, which is what
ends a continued chain. The magic numbers that are asserted are the `kind` of a
block; an assertion that fails is the panic. What a pointer is and what follows
from it (`Slot`, `ContinuesAt`, `Loadable`, ...) are operators on a disk, a scheme and
a block, so that the same ones say what zipl writes on a disk, which is knowledge
the loader does not have: for each entry the PSW and the `components`, each with
its address, its `blocks` in order, and for each block of pointers how many of them
come `before` each slot; the blocks of `stage2` and which of them has the `banner`.
`DiskAssumption` says of every disk, the damaged ones too, that the slots which can
be loaded lead to the blocks whose turn it is, and that a chain which ends has
loaded all of them. Nothing is asked of a pointer the loader refuses. TLC
evaluates the assumption for every disk of the run.

**DasdIpl.** Memory is a function from words of eight bytes to what they are: a
CCW, a PSW, data. The channel (external) executes the chain as it was *fetched*
when the subchannel was started, and knows which record comes next only inside
a chain: after a start without a search a READ may get any record. An interrupt
needs the wait that `consume_io_int` begins, takes its new PSW from the low core
and stores its information and the old PSW there (`StoreLow`); the low core is the
prefix page while there is one. Printing takes an external interrupt, which stores over
`ConsoleWords`. `loaded` is history: what the channel has stored. Retries are in `Cio`.
`UncutAt` is the refinement mapping: the CCW of the uncut program that is next,
which between two pieces is where the second begins. `Straight` is the shape of
program the search for a cut is made for; `SoundDisksSupported` says that on every
sound disk each piece has it when its turn comes, and that the low core is left
to the firmware before there is a prefix.

**JumpToIpl.** Two variables of the module that instantiates it, `mem` and
`jump`: what is at address 0, what is saved, and the PSW the system is entered
with. `sclp_print` is what a printed line leaves in the low core: the parameter of the
service interrupt, its old PSW and the new one `consume_sclp_int` puts there. The reset
is external.

**NetBoot.** Memory counts coarse words in the order of the real addresses: the
PSW, the subchannel, the load address of the boot file, kernel image, magic,
parameters, command line, and the loader from `KERNEL_MAX_SIZE` on. libnet's
functions are external and may give any answer; a transfer that fails may have
stored any part of the file, one that is too long for its room up to the room.
`program` (what the attempt has loaded where) and `old` (whether an earlier one
has stored anything) are history.

## Runs

| run | question | instance | shows |
|---|---|---|---|
| `launcher` | is the window right, whatever order things come in? | two images, two VMs, a CD, a NIC text | stop is reachable, no lost VM, forgetting |
| `queue` | is the ring a synchronous read? | ring of 4, indices mod 8, no timeout | whole chains, idle host, return, refinement of `BlockRead` |
| `scsi_run` | does a prepared status make up for a timeout? | ring of 8, timeouts | `virtio_run` delivers although waits may end early |
| `reply_timeout` | is an answer the answer to this request? | ring of 16, timeouts | **violated**, see Findings |
| `vapic` | is an unmasked interrupt ever forgotten? | UP and MP, vectors of two classes | nothing forgotten, read-only fields, TPR in force, liveness |
| `cio` | what does a return value of `do_cio` say? | 3 calls, 3 unsolicited, 2 foreign | success and recovery (`ResultIsRight`), no second run, end |
| `boot_device` | is what is booted what was found? | two subchannels a set, five geometries, three block lengths | nothing but the transfer limit of one device is used for the next (`OnlyLimitInherited`), guesses are whole |
| `el_torito` | is the image found and loaded whole? | 649 images, six load parameters | accounting, the right image, end |
| `menu` | is what is typed what is booted? | 4 keys, buffer of 2, two entries | no spurious read, choice, timer |
| `boot_map` | does every disk boot what zipl wrote on it? | six layouts, chains of six shapes, blocks of 2 and 3 pointers, 12 kinds of damage, both devices, blocks below and past the largest int | whole programs, whole menu, sound disks boot |
| `dasd_ipl` | is an IPL in pieces an IPL? | programs of one to three pieces, reads over the low core, damaged programs | refinement of `ChannelProgram`, guest memory, sound disks stay in the heuristic's domain (`SoundDisksSupported`) and start |
| `net_boot` | what is in memory when a kernel starts? | 15 boot files, six pxelinux entries, every partial transfer | loader kept, whole systems, entry, release |

### Bounds and why they are enough

- *Launcher*: two images are needed for a stale setting, two `Process` objects
  for a notice of the wrong one, two `qemu-img` runs for a race with one another.
  Images and processes are interchangeable and reduced by symmetry.
- *Queue*: a request takes three descriptors, so a ring of 4 leaves one that is
  not used; indices mod 8 wrap after eight requests, and at different times from
  the ring. The proofs hold for every size.
- *vapic*: classes of two vectors; one vector in each of two classes; a TPR that
  masks nothing and one that masks the lower class. One virtual CPU: no step reads
  another's record, which is what lemma `OtherKeeps` proves for any number.
- *Cio*: `MaxNoise` and `MaxForeign` exceed what one call can take before its
  retries are used up together with ordinary mishaps; three calls let status of
  one be left to the next and found by the one after.
- *BootDevice*: two subchannels in each set and four sets give every ordered
  pair of devices. Limits of 0 (none), 1 and one above `MAX_SECTORS`; block lengths a
  DASD and a CD-ROM have, and one that nothing has.
- *ElTorito*: every directory of up to two records among three directories that
  may contain each other and cycle, and hand-made images for padding, a full
  sector, a record across its end, a missing sector and a directory too deep.
  `MAX_DEPTH` is 3 instead of 8.
- *Menu*: the buffer holds 2 characters and an int has 32 values, in the
  proportion of 10 characters and 2^32: the longest texts wrap. Four keys are
  enough to type, erase and enter, to overfill the buffer, and to err and answer
  again.
- *BootMap*: with two or three pointers to a block, the shapes give chains that
  end in the middle, at the end and one past the end of a block, on both
  schemes; components are written from the last blocks of an area to the first,
  so that a wrong order shows. Stage 2 has 0 to 3 blocks of at most 3, the
  banner in each of them or in none. Tracks of three sectors and two heads make
  every block number a different address. `WORD` is 128 instead of 2^32, with disks of 64
  blocks, whose numbers an int holds, and of more, with a component it does not hold.
- *DasdIpl*: 32 words hold IPL1, the low-core fields (subchannel, I/O old and new PSW,
  two words that printing stores over), two places for the program to go on and two to
  load to, one of them the interrupt's own words.
- *NetBoot*: 14 words, with every patched word, one that is printed over, a page of four
  and the loader in order; the files end before, at and after each of these. Two attempts at
  DHCP give a failure and a retry.

`CHECK_DEADLOCK FALSE` stands where the program stops: after the boot or panic
(`boot_device`, `el_torito`, `boot_map`, `dasd_ipl`, `net_boot`), after the last
call (`cio`), where a caller panics (`scsi_run`), and where the prompt without a
timeout waits for a user who never comes (`menu`).

### Fairness

- *Launcher*: no liveness is stated; the user, the file system and QEMU's own
  exits are not fair.
- *VirtioQueue*: the firmware is one thread and runs on; a notified host works
  off the ring and completes what it has taken. No caller has to call.
- *KvmVapic*: a kicked CPU exits to the hypervisor; an armed injection, which
  needs the guest's interrupts on, and the end of a handler happen if possible
  again and again; code inside `set_tpr` runs on.
- *Cio*: the firmware runs on; a started program ends.
- *ElTorito*, *BootMap*, *NetBoot*: single-threaded code that always has a next
  step (`WF_vars(Next)`); the calls it makes into libnet all have a timeout, and
  the menu of `BootMap` always answers (`Menu` says when).
  `BootDevice` states no liveness.
- *DasdIpl*: the firmware runs on, and a started program is carried out; a device
  need not break.
- *Menu*: the firmware runs when it does not wait; the clock goes on. Keys are
  not fair.

## Proofs

All theorems hold for every value of the constants allowed by the module's
assumption. Each module follows the same argument: an invariant `IInv` that is
implied by `Init`, kept by every action (one lemma an action or group of
actions), and implies the property.

**Launcher_proofs.** `TypeCorrect`, `WindowTellsTheTruth`, `NeverLosesAVM`,
`SettingsAreSaved`, `ForgetsOnlyWhenAllowed`. They are not inductive: that a stopped VM was signalled needs that only launched processes are tracked,
and that a late notice is harmless needs that a pending notice belongs to a
process that has exited. `IInv` adds these facts.

**VirtioQueue_proofs.** `TypeCorrect`, `ChainsAreWhole`, `NothingOutstanding`, and
`Refinement`: the queue implements `BlockRead`, all while no wait times out
(`~MayTimeout`): `reply_timeout` shows what becomes of them otherwise. `IInv`
says for each phase of a call where the five counters of the ring stand: between
calls they agree, a published request is one ahead on the driver's side, a
completed one is one ahead on the host's. The refinement is the identity on
calls and buffers; a completed job is `Deliver`, the drain is `Return`.
`ReadsDeliver` holds then, too, and with timeouts and late answers for callers that make
the status byte invalid first and stop at a failure, as `virtio_scsi` does. The counters
are of no use there, since used.idx may lag behind for ever; `LateInv` follows the one
request that is outstanding (`Late`): published, taken or worked off, the status is 0
only in the last of these, and a caller that goes on has seen a 0, so there is never a
second one.

**KvmVapic_proofs.** `TypeCorrect`, `NothingForgotten`, `RecordReadOnly`,
`SetTprTakesEffect`. `IInv` relates the word to the hypervisor's sets at every
point outside a request, and says what a context in the middle of `set_tpr`
knows: that after its exchange an interrupt it unmasked is either on its way to
a poll in some context of the stack, or armed. That the ROM compares bytes while
the APIC compares classes is lemma `ClassOrder`.

**NetBoot_proofs.** `LoaderUntouched`, `TypeCorrect`. That a file is not stored
over the loader follows from the room it is given, but the room below the loader
is only right if the address is: `IInv` says that a kernel that is about to get an
initrd has a size of at most `KERNEL_MAX_SIZE`, that the file moved down is no
longer than what was loaded, that the word the jump will put back is not the
loader's, and that the lines of a configuration not yet carried out have an
address. The assumption on the constants is that the words the loader patches
lie below it and are words of their own, that a kernel is not entered at 0, and
that files have a length.

`StartedWhole` and `EnteredRight` are about memory as a whole: each word of what
is started is that of the file loaded over it last, but for those that are patched or
printed over, and the way in is the one the program's own words ask for. `IInv` is strengthened with what memory holds at
each step of an attempt relative to `program`, whatever `old` attempts left, and
with the one word that is not the program's for a while: the jump borrows word 0
and gives it back before the entry. That the entry is decided by the program's
own words needs that what an earlier attempt left is told apart from it; where
the code does not tell them apart (the program has no word where the magic goes, and an
attempt before it left one), `EnteredRight` says nothing: see *Behaviour worth knowing*.

**DiskBoot_proofs.** The search: `TypeCorrect`, `VdevIsFresh`, `GuessWhole`. `vdev` is not
cleared between candidates, so the invariant says, for each place in the search
(`Place`), which of its fields are about the candidate at hand (`Described`,
`DeviceSensed`), which a set-up has written since (`Known`), and what the guess
has settled (`Guessed`). The devices may be any, at any subchannel, with any of
the geometries and block lengths; that a guessed geometry is a whole one rests on arithmetic about
`virtio_eckd_sectors_for_block_size`.

`VdevIsFresh` leaves one thing to an earlier device, as the code does: the transfer limit
of a device that reports none.

The boot map: `MapTypeCorrect`, `ProgramLoadedWhole`, `MenuIsWhole`, from
`DiskAssumption` and the geometry's. `MapIInv` has four parts. `Numbers`: the slot
and the argument stay in their arrays, and components are loaded from entries in the
script's buffer; that the slot after the last is
never reached is the branch that takes the last one for the continuation.
`Layout`: at each step which scheme the disk has, where its table was found, and
that the buffer the script is in holds the script of the entry
(`ScriptHeld = TheScript`), although other blocks were read over it before and
pointers are read beside it. `Memory`: nothing but blocks of the program is in
memory (`NothingElse`), what the script has passed is in its place, whole
(`Passed`), and the component that is loaded is in place up to the slot that is
looked at (`Loading`). That a chunk disturbs none of this is `ChunkKeepsPlaces`:
components agree where they overlap. That the block of a pointer is the one loaded, after
its number went through an int, is where `LoadedWhole` needs `InReach`. `Scan`: the block before the seek argument is
the one stage 2 has there. A chain is of any length, so it is not unrolled: `before`
says at each slot how far a component has come, and the walk keeps in step with it
(`AtList`, `AtSlot`). At the jump every component was passed and nothing else was
stored, which makes memory the program's image (`WholeImage`).

**Menu_proofs.** `TypeCorrect`, `OnlyKeysRead`, `BootedAsTyped`. For the second,
the invariant says which interrupt each wait can be ended by, a pending signal
being either a call's or a key's. The third relates the buffer, with what erasing
leaves in it, to the history of keys: the line a line editor makes of them is the
text up to the first NUL, and what `atoui` computes of it digit by digit, wrapping
each time, is the wrapped value of the number, hence the number if an int holds it. Both sides are recursive
functions; that each exists (`RecursionExists`), that two of them agree, and what
they compute is proved by induction over a set of numbers (`Induction`), which
the well-foundedness of the natural numbers gives without an operator for a
parameter.

**ElTorito_proofs.** `TypeCorrect` holds for every image. `CountersKeepStep` and
`LoadsWhatWasAsked` are about images that are `Sound` as far as ISO 9660 asks for
it; they may be cyclic, and of any depth and size. The invariant (`WalkInv`) is
a trail: a directory for each level, of those at that depth, in which the walk
stands at a record or past a sector's last one (`StandsAt`), with all that is
before it passed except for the record of the directory below (`Walked`). That a
directory which has been left holds no record of the file's, at any depth, would be
a recursion over the tree; it is the greatest set of directories closed under
what that means instead (`Clean`), to which a directory is added when it is left
(`CleanGrows`), and which holds the root when the file was not found
(`CleanImage`). The counters agree with the sector arithmetic because the
remaining length is a whole number of sectors wherever a sector begins
(`RoomLeft`). The load parameter is counted by the cardinality of the entries
passed (`EntryInv`).

**ChannelIo_proofs.** `do_cio`: `CioTypeCorrect` (with it: at most four starts of a program in a
call), `ResultIsTheTruth`, `NeverRunTwice`. That a result of 0 is true needs to
know whose status waits at the subchannel: `CioIInv` says that before the start
nothing of this call has ended or is on its way, that while it is waited for either
its program runs or the pending status is its own (`Waiting`), and that what is
judged is the status of this call's program and not of a sense (`Judging`). That
an error is deserved and the starts are bounded needs the retries tied to the
mishaps (`Tried`) and the starts to the retries (`Started`). The assumption is
that the bounds of the model are natural numbers, of any size. No fairness and
nothing about the order of foreign interrupts is used.

The DASD IPL: `TypeCorrect`, `GuestMemory` and `Refinement`, for any disk and any
program on it. `IInv` says that memory, what was read and what was prefetched are
words (`Shape`), when a program runs and when there is a prefix (`Place`), and that
outside the words the firmware and interrupts use, memory is what was read, up to
a chain bit (`Kept`).

- `GuestMemory` is `Spec /\ []LowCoreRespected => []GuestMemoryKept`. The premise is
  what the code takes for granted: IPL1 begins with a PSW, and nothing is read over
  the I/O interrupt's PSWs before there is a prefix. What may differ (`Scratch`) are IPL1's
  CCWs, the interrupt information, which the prefix is there to bring back, and what
  printing stores over. `GInv` follows the PSWs and the
  word at 0 through the prefix, the interrupt and the jump: with the prefix on, an
  interrupt stores into its page; when it goes off, the one word the firmware
  brings over is the interrupt information.
- `Refinement` is `Spec /\ []PiecesStraight => ImplementsUncut`: the IPL in pieces
  implements `ChannelProgram`. `RInv` says what a piece that runs may still do
  (`PieceRuns`): the CCWs that are to come were fetched as memory still has them, up
  to the bit the firmware cleared to cut, and a READ gets the record it would have
  got uncut, because a search has come before it or it follows one read after
  another (`Passing`). `Heard` is why no piece ends elsewhere: while there is a
  prefix, nothing that is read reaches the new PSW the firmware waits with. A CCW
  that is carried out is a step of the uncut program; a cut, a start and an
  interrupt are none.

Both premises are checked to hold on every sound disk of the run
(`SoundDisksSupported`). A disk on which they fail is one the heuristic is not made
for: breaking a chain "may alter the semantics or even the validity of a channel
program", says the code (`dasd-ipl.c:59-64`), which counts on the programs zipl
generates.

Only model-checked: liveness and fairness (`CallsReturn`, `InterruptsGetIn`,
`CallsEnd`, `TimedPromptEnds`, `Ends`, `SoundDisksBoot`, `SoundDisksStart`,
`EndsReleased`), which are out of the prover's reach; and `SoundDisksSupported`: which
disks are called sound is a choice of the instance, so there is nothing more
general to prove. Every other property of a passing run is a theorem.
`UiConsistent`, `SettingsSaved`, `TableNotOverrun` and the type invariants of
`Launcher`, `VirtioQueue`, `KvmVapic`, `NetBoot` and `DasdIpl` are proved and have no
run of their own.

## Findings

One run shows the code doing something other than its comments say.

1. `virtio.c:195`: `vring_wait_reply` is said to return 0 on success. After a
   request timed out, its late answer ends the wait for the next one, and 0 is
   returned although the host has not answered it (`reply_timeout`).

### Behaviour worth knowing

The models contain the following as the code does it. They have no run of their
own: nothing in the repository says otherwise, or the case is one line to see.

- `kvmvapic.S:151`: `mp_get_tpr_edi` calls itself instead of the common part and
  does not return.
- `ViewController.swift:210`: when `run()` throws, the window stays at "Stop" for a VM that
  never ran, and stopping it raises an exception.
- `ViewController.swift:149`: nobody waits for qemu-img. QEMU may find the nvram file short,
  and a second start before the file exists runs a second qemu-img, which truncates it
  under the VM when it comes late.
- `virtio-scsi.c:422`: the transfer limit of a device that reports none is combined with
  the one the device set up before has left.
- `virtio-blkdev.c:67`: the number of a program's block on a SCSI disk goes through an int:
  at 2^31 blocks and beyond, a virtio-blk disk does not boot, or other blocks are loaded. READ(10) has 32 bits for every block
  number (virtio-scsi.c:155).
- `bootmap.c:515`: signature entries of a script are skipped without the bound that holds
  after loads; the walk may go past the block read and past `tmp_sec`.
- `menu.c:221`: a zipl menu's entry is marked valid without a look at its number: one past
  the array is a store outside it.
- `libc.c:30`: `atoui` is said to handle numbers up to UINT64_MAX (libc.c:23-24). It
  computes in an int: at the menu a number of ten digits that no entry has can boot
  another entry. `BootsWhatWasTyped` is about the numbers an int holds.
- A key pressed during a service call can wait until the next key, and after its
  first prompt the menu has no timeout.
- `dasd-ipl.c:235`: the mask is 64 bits and the field 32: `PSW_MASK_EAMODE` is
  lost, so the PSW is forced into 31-bit mode and not into 64-bit mode.
- `dasd-ipl.c:85`, `netmain.c:539`, `jump2ipl.c:60`: lines are printed after a system was
  read over the low core and without a prefix. Each takes an external interrupt, whose
  parameter, old and new PSW (0x80, 0x130, 0x1b0) then stand there, whatever the system
  had.
- `bootmap.c:212-219`: when the banner of the menu is in the last block of a
  stage 2 with fewer than 24 blocks, the argument after it is zero, which is
  block -1 and not 0: the read fails and the boot panics.
- `bootmap.c:581`: an empty entry of a SCSI program table is block 0. Its MBR
  has the magic of a header and its next byte is 0, a header's type for an IPL:
  what fails is the script.
- `netmain.c:184`: every negative result of `dhcp` returns here, so the messages
  for -2 to -4 further down are never reached, and the lease that these
  results come with is not given back.
- `jump2ipl.c:81`: the magic of a kernel that an earlier attempt of a network boot
  has left in memory is taken for the program's own. So is the one that is left
  behind where a kernel was moved from (netmain.c:436-440).
- `bootmap.c:629-642`: a directory whose first sector is all zeros never ends: the
  size is 0 after its first two records are skipped, which is how a directory is
  told that is yet to be entered.
- `bootmap.c:695`: the size is rounded up in 32 bits: a file within a sector of
  4 GiB is loaded as no blocks.
- `netmain.c:501`: without an IPL parameter block the subchannel sets 0 to 2 are
  searched, and not 3, as in `main.c:268`.

## Not modelled

Formatting, logging and layout, `write` and `uitoa` among them; the contents of command lines and of menus; the
EBCDIC table; names, dates and extensions of ISO records; the IPL parameter
block that is handed on to the system. DHCP and TFTP are SLOF's and not in this
repository; the frames `virtio-net.c` moves for them and its receive ring are left
out. The option ROMs for Linux, multiboot and PVH are straight lines of real-mode
code between two transfers from fw_cfg and keep no state. The binaries are other
projects'.

## Plan

The runs are as many as there are questions; a new one would take the place of one
that asks less.

1. *SCSI reads*: `virtio_scsi_read_many`, the split of a read by the transfer
   limit, as the detail between `VirtioQueue` and what `BootMap` and `ElTorito` take
   for one read.
2. *Network*: the receive ring of `virtio-net.c` against the host, on `Vring`, and
   the transmit ring it shares `vring_wait_reply` with.
3. *fw_cfg*: the DMA loop of the Linux option ROM.
