# cpmish in TLA+

cpmish is a CP/M 2.2 distribution for seven Z80 and HD64180 machines. The BDOS,
the CCP and most programs come from elsewhere (`third_party/`). What cpmish adds
are the BIOSes in `arch/`, each with its drivers, some shared code in
`arch/common`, a handful of tools in `cpmtools/`, and a host-side CP/M emulator
in `utils/emu` that the build uses. The models here are about that added code.

## 1. Inventory

| Part | State it keeps | Operations | What is hard about it |
|---|---|---|---|
| Sector deblocker, `common/utils/deblocker.lib`; callers `nc200/supervisor/io.inc`, `brother/wp2450/upd765.z80` | one native sector, its address, a dirty flag | `DB_GET`, `DB_FLUSH`, `DB_CAP`; callbacks to read and write a native sector | either callback may fail after part of the state has changed; power loss; three deblock modes |
| WP-1 and LW-30 disk drivers, `brother/wp1/floppy.z80`, `brother/lw30/floppy.z80` | a 256-byte block, `current_block`, `dirty` | `READE`, `WRITEE` | two hand-made copies of one idea with different error paths |
| PowerNote drivers, `brother/pn8800/floppy.z80`, `brother/pn8510/floppy.z80` | a whole track in a RAM bank, `current_track`, `track_dirty` | `READE`, `WRITEE`, `SELDSKE` (which forgets the cache) | a failure now loses a track of data, not a sector |
| NC200 keyboard, `nc200/supervisor/interrupts.inc`, `keyboard.inc` | bitmap of the last scan, modifiers, ring of 8 | a 10ms interrupt; `CONST`, `CONIN` | interrupt against main line; keys moving during a scan |
| PowerNote keyboards, `brother/pn*/keyboard.z80` | the same, ring of 16 | polled from `CONST` | store before test for room |
| NC200 BIOS gate, `nc200/bios.z80`, `supervisor/syscalls.inc`, `startup.inc`, `boot/sirq.z80` | four bank registers, two stacks, `saved_stack`, IFF1 | system call in and out, interrupt in either space, warm boot | every step unmaps something the next instruction or an interrupt may need |
| NC200 port 0x30, `floppy.inc`, `pcmcia.inc`, `printer.inc` | the port, its shadow `PBAUD`, the motor's timer | motor on and off, card select, printer strobe | a read-modify-write shared by an interrupt and three drivers |
| Floppy controller drivers (`floppy.inc`, `upd765.lib`, `hd63266.z80`, PN-8510) | result bytes | judge a transfer by ST0 and ST1 | bit arithmetic with the result in a flag |
| WP2450DS keyboard, tty | probe counters, cursor | `CONST`, `CONIN`, `CONOUT` | a zero that means two things |
| Terminals, `common/utils/tty.lib`, `*/tty.*` | cursor, escape parser state | `CONOUT` | parser state between calls |
| WP-1 and LW-30 ROM gates, `*/bios.z80` | memory windows | `SYSIN`, `SYSOUT`, `DMAMEM` | flags lost on the way back |
| Kaypro II and nano-z80 BIOS | little; no cache of their own | pass through to a ROM or an SD card | - |
| Emulator, `utils/emu` | LRU list of 16 open host files, a directory search, FCBs in the machine's memory; breakpoints and watchpoints | BDOS calls on host files; debugger commands, SIGUSR1 | names deleted or renamed under an open entry; two blocks on one file; stopping neither too late nor twice |
| `qe`, `cpmtools/qe.c` | gap buffer, `current_line`, dirty flag, the file and `QETEMP.$$$` | keys in seven modes, `:` commands, save by delete and rename | off-by-one at the gap's ends; any BDOS call of a save failing, or being the last |
| SUBMIT, COPY, STAT, ASM, `cpmtools/` | a line and its escapes; a buffer and a table of files; the I/O byte and a table of extents; symbols, two stacks, an output record | one command line each | the call in the middle that fails; two files onto one name; two passes that must agree |
| NANOTERM, `nano-z80/tools/nanoterm.c` | XMODEM block number, retry count | send, receive | lost answers, a slow partner, an answer sent twice |
| MKFS, RAWDISK, DUMP, build system, fonts, boot loaders | none that lives on | one pass each | - |

How they interact: a program calls the BDOS, the BDOS calls a BIOS vector. On
the NC200 that vector goes through the gate into the supervisor, whose handlers
call the deblocker, which calls back into the floppy or ATA driver; the floppy
driver shares port 0x30 with the card, the printer and the interrupt. On the
Brother machines the BIOS calls its disk and keyboard code directly, or a ROM.
The tools are programs that the command processor starts one at a time; all they share is
the file system they leave behind. The emulator stands in for BIOS and disk on the build
host.

For each modelled part, what makes it correct:

* the three disk caches: what a read returns is what was last written; a write
  that is acknowledged is lost only by a power cycle; in mode 1 (directory
  updates) not even so; an error never corrupts another record;
* keyboards: each press at most one character, characters in the order of the
  presses, a key dropped only when the ring is full, a waiting reader served;
* the gate: wherever an interrupt may strike there are a handler and a stack,
  the next instruction is mapped, and both a call and an interrupt give back the
  machine as they found it;
* port 0x30: no user of the port undoes another one's bit; the motor turns
  during a transfer and stops in the end;
* status decoding: a failed transfer is never taken for a success;
* the emulator's files: the open list stays one list, its descriptors are owned once, and a
  call does to the host's file what it reports; its debugger is entered in time;
* the editor: keys change what they are for; what is not dirty is saved; a save leaves one
  whole text wherever it stops;
* the tools: a script is run whole or not at all; a copy touches its destinations only; an
  attribute, a sum, an assignment is the one asked for; a byte is where the program expects
  it; a received block is a block that was sent, in its place.

## 2. Modules

`RecordStore` and `KeyQueue` are the abstract specifications, the others are
translated from the code: `Deblocker`, `GetBlock`, `TrackCache`, `KeyRing`, `KeyScan`,
`Supervisor`, `BaudPort` and `FdcStatus` from assembly, `EmuFiles`, `EmuBdos`, `QeBuffer`,
`QeEditor`, `Submit`, `Copy`, `Stat`, `Asm`, `AsmExpr`, `XModem` and `Debugger` from C.
`Drivers` and `Programs` put parts together.

**RecordStore** says what the BDOS needs of a disk BIOS: `store` is what reads
return, `durable` what a power cycle leaves. Requests are answered by `ReadOk`,
`WriteOk` or `Fail`; the cache may `Sync` a sector at any time. Three clauses are
looser than one might write at first, since every cache here needs them: a mode
2 write may leave the rest of its new block with anything (`Scratch`), a
write-through that fails may have been applied (`FailWritten`), and a call that fails to read
its sector leaves that sector, and no other, in `doubt` until the cache moves on
(`FailSpoiled`, `Settle`): all of these caches label the buffer before the read.

**Deblocker** has one action for each point where `db_get` can leave: `Get`
(arithmetic, bounds, is it the same sector?), `WriteBackOk`/`WriteBackFails`
(the old sector), `SwitchUnread`/`SwitchRead`/`SwitchReadFails` (new label,
then the read), and the callers' copy, `TransferRead`, `TransferWrite`,
`TransferWriteThrough`. The order in `dbs_i_change_block` (dirty flag after the
write, label before the read) is kept. `Offset` keeps the source's `and 3`. Since that
constant can point behind the buffer, `buf` has a `Window` larger than a
sector. `spoiled` is a history variable: the read of the current sector
failed. The 16-bit sector number after the shift is never near its limit, so
numbers are plain naturals.

**GetBlock** models both copies of that driver, told apart by `machine`:
the WP-1's `read_syscall` jumps to `DMAMEM`, which clears the carry the ROM's
error is in (`FillFailsUnseen`); the LW-30 returns it (`FillFails`). `env`, chosen
once, says what a behaviour may contain: failing reads, failing writes, deblock mode 2.
It is there because each of the three breaks a different promise (section 3). The history
variable `kept` is what acknowledged writes made of each block, as long as no failed read
and no misplaced mode 2 record has touched it.

**TrackCache** likewise: only the PN-8800 has a `ret nz` after the flush in
`change_track`. `spoiled` is as in `Deblocker`. `Login` is `SELDSKE` calling `flush_cache`.

**KeyRing** is the ring alone, at the level of single instructions where the
interrupt may come, with `iff` as IFF1. `polled`, chosen once, selects the PowerNotes.
`KeyQueue` is the bounded FIFO it implements; in the mapping the `Get` takes
place at the step of the read pointer (`TakeAdvance`), not at the fetch after it.

**KeyScan** is what comes before the ring: ten bytes compared with the bitmap one after the
other, the changes of a byte decoded from bit 7 down, and shift, control and
caps lock. The key codes are the code's. A character is a key and the modifiers
it was typed with; the two character tables are not modelled, so every other key
is one that has a character in both.

**Supervisor** has one action for each instruction that touches SP, a bank
register or IFF1, and one action for all the work of a handler. `ei` is joined
with the instruction after it, because the Z80 takes no interrupt in between.
`cpu.index` stands for IX and IY still being the caller's. The `before` and `caller`
history variables record the machine at the interrupt and SP at the call.

**BaudPort** has the three bits of port 0x30 that are shared, the shadow, and
a clock: `Elapse` says how many ticks the main line may take. A `halt` ends
with a tick, a seek ends within `SeekTime` of them, and all other code is
faster than 10ms.

**FdcStatus** computes the three ways of judging ST0 and ST1 and the PN-8510's
mask as the instructions do, with 8-bit shifts.

**Drivers** puts `Supervisor`, `KeyScan`, `BaudPort`, `TrackCache` and `FdcStatus` side by
side. They share no state, so an interleaving of all five shows nothing that each alone
does not; `subject`, chosen in `Init`, is the part whose steps are taken. One run then
checks them all, and the proofs of section 4 say why nothing is lost (`PartsAlone`).
Where parts do meet in the code they are in one module: the interrupt, the motor, the card
and the printer in `BaudPort`; system calls, both interrupt routines and the warm boot in
`Supervisor`.

**EmuFiles** holds operators on one record, `fs`: the host's directory and inodes,
descriptors, and `files[]` as the doubly linked list it is, with `bump`, the opening and
reopening of entries, creation, renaming and deletion. **EmuBdos** is the program in the
machine: every file call of `biosbdos.c` is an action on one of its blocks, and the block's
extent, record and count are what the code writes there. `program`, chosen once, says which
calls it makes on which block. The list has 16 entries in the code and `NumFiles` here.

**QeBuffer** is the gap buffer: `b.mem` keeps what the gap held, since a move copies bytes
into it. A command that takes a count is its one step (`LineDown`, `WordRight`, ...) repeated. **QeEditor** has one action per key and per colon command, with the repeat count,
and takes `save_file` one BDOS call at a time; `save.fault` says which call of the save goes
wrong, and `Over` is the reset. `current_line` is kept as the code keeps it, also where it is
left behind: after `b`, after a newline typed with the "down" key and after `:r` (`bent`).

**Submit** reads a script a byte at a time, with `$` and `^` as the code takes them, and
writes `$$$.SUB`. **Copy** has both paths of `copy.c`, the
buffer and the user number that must be set before each call. **Stat** has device
assignments, which are two bits each of the I/O byte, the gathering of extents in a table,
and attributes. **Asm** runs two passes over a program of statements: labels, `EQU`, `SET`, `ORG`,
`DS`, `IF`, and the output's records; **AsmExpr** is `read_expression` with its value stack
and operator stack, against the meaning an expression has by its form; a word has `AxWidth`
bits, a division by zero and a shift by the width or more give `AxAny`, which no
property relies on. **XModem** is both
ends of a transfer with bytes under way in both directions; the complement, the
checksum and the block number are computed as the code does, on small bytes. **Debugger**
is the loop of `emulator.c` with its commands and the signal; a Z80 step is external.
`Programs` starts one of them.

`MCDeblocker`, `MCGetBlock`, `MCEmuBdos`, `MCQeEditor` and `MCPrograms` hold the sets the
configurations name. The modules that end in `Proofs` hold the theorems. Definitions
introduced by a comment that begins "Mutant:" are not part of any specification. They are
plausible mistakes, each of which makes one property fail; they show that the
property depends on the code being as it is.

Several properties are conjunctions: what a reader asks of a component as one question
(`AcknowledgedDataKept`, `EmCallsHonest`, `CpCopiesOnly`, ...), with its parts
defined, and commented, one by one above it.

The composition has a limit: the disk caches see the BDOS as arbitrary calls and the floppy
driver as success or failure, and `KeyScan` and `KeyRing` meet at `queue_key`, so that what
is shown of a whole path (key to program, record to medium) is shown of its parts.

## 3. Runs

| Run | Distinct states | What it shows |
|---|---|---|
| `deblocker` | 29,114 | any transfer may fail, any power cycle: the deblocker is a record store; a clean buffer equals its sector; no acknowledged record is dropped |
| `getblock` | 1,441,368 | both machines; when all works a record store; whatever fails, an acknowledged record stays where a read finds it, in every block that no failed read and no misplaced record has touched; mode 1 is durable when writes work, and without mode 2 the label is right |
| `keyring` | 681,632 | interrupts and polling: FIFO of 7; a waiting reader is served, and while it waits it lets interrupts in |
| `drivers` | 548,064 | the gate: bank and stack safety, calls and interrupts go unnoticed; the scan: no repeated character, no stuck modifier; port 0x30: the motor turns during transfers and stops afterwards, port and shadow agree; the track caches are record stores; three status decoders are right for every class of status |
| `emu` | 210,431 | the open list stays sound over every sequence of calls; reads, writes and closes do what they report; an entry is stale only if its name was changed under it; a search misses nothing |
| `editor` | 1,055,028 | gap and line start keep their meaning; moves change nothing (but `b`, and a `^` or `k` that runs away), `dd` one line; not dirty means saved; a save whose temporary file is made, written and closed leaves a whole text wherever it stops |
| `programs` | 690,874 | each of the seven programs against what it is for; an undisturbed XMODEM transfer ends, and a sender that gives up is noticed |

The remaining runs each show one statement of a comment, a message or a document that the
code does not keep:

| Run | The code |
|---|---|
| `deblocker_stale_buffer` | labels the buffer before reading; after a read error the retry succeeds with old data |
| `getblock_fresh` | skips relabelling together with the read in mode 2, so a new block is written over another one |
| `fdcstatus_wp2450` | tests a zero flag that `rla` does not set |
| `baudport_strobe` | takes the printer's strobe low with every motor or card operation, because the shadow never has that bit |
| `editor_tempfail` | compares a `bool` with 0xff (`qe.c:460`), so a save whose temporary file could not be made goes on to delete the old file |

More deviations are in the models as the code has them, and bound what the passing
runs may claim:

* the WP-1 cannot see a read error at all, and the LW-30 overwrites the buffer in
  a failed read but keeps the old label (`lw30/floppy.z80:133-141`). Here even a sector
  that was not asked for is spoiled, which is why `ImplementsRecordStore`
  of `GetBlock` is limited to `Sound` environments;
* both report success for a directory write whose flush failed
  (`wp1/floppy.z80:98`), hence the premise in `WriteThroughIsDurable`;
* the PN-8510 goes on to the new track when writing the old one failed
  (`pn8510/floppy.z80:165`), hence `WritesFail = {"pn8800"}`;
* the deblocker masks with 3 also for 256-byte sectors, which its comment
  permits and no machine uses: records 2 and 3 would lie behind the buffer. The run and
  the refinement have 512-byte sectors, and no property is about the others;
* a login (`SELDSKE`) drops a dirty track of the PowerNotes; it is mapped to the record
  store's power cycle;
* `SREAD` with an unknown disk leaves a return address on the stack
  (`syscalls.inc:101`), hence `Disk = {0, 1}`;
* the emulator keeps entries of names that were deleted, renamed or replaced (`loose`), and
  does not look at the NULL of a file that is missing (`EmCrashNeedsMissingFile` says that
  nothing but a missing file of the call's own block brings it down); a make of a file
  whose entry is open does nothing and reports success, even if the file was deleted
  meanwhile, because `reopen` knows `O_RDWR` but not `O_RDWR | O_CREAT`
  (`fileio.c:206`, `:270`); a close through a block that does not know the file's length
  cuts or lengthens the file (`fresh`);
* the editor resets the dirty flag before the file is closed and takes a full disk for a
  good write; `r`, `b`, `O` and `o` with ESC leave the flag as it was. `QeCleanIsSaved`
  excepts these as `saved = "excused"`. A temporary file whose write or close fails does
  not stop the save, which then deletes the file (the `editor_tempfail` line
  again); `QeSaveKeepsAText` is about the saves whose temporary is good. A `^` or `k` with
  `current_line` behind the cursor copies over all of the memory (`Runaway`, mode `"lost"`),
  and `QeLineKnown` says after which commands that can be;
* SUBMIT does not notice a full disk (`sbFull`); COPY searches specifications under the user
  of the first (`OneUser`), and looks for a `?` everywhere but in a name's first character
  (`copy.c:162`), so that `/F` with a destination of `?B.TXT` deletes every match
  (`Targets`); in ASM a unary operator after one that binds as
  tightly (`5 - NOT 3`, `- - 1`) takes the wrong operand (`AxClean`), and a value that a
  label gets only in pass 2 may differ from the one used (`asFirst`);
* NANOTERM's receiver takes a lost byte for the one before it (`LossShows`) and misses a
  spoilt packet's block and a full disk (excepted in `DoneMeansComplete`). The data of a
  packet that it refuses, such as one sent twice because an answer was, it reads as headers: an
  EOT among them is "Transmission done" with a part of the file. `InStep` says when that
  cannot be: when the receiver never gives up waiting while something is under way, or when no
  byte of data and no checksum is SOH, EOT or CAN.

### Bounds

* Disk caches: two or three sectors or tracks are enough for "the old one", "the
  new one" and "a third, not involved"; two records of a sector tell the one
  written from its neighbour; two data values tell new from old. The addresses of
  `MCDeblocker` include a sector and a track that are out of bounds. Those of
  `MCGetBlock` straddle the boundary between two tracks, where
  an error in `track * 12 + sector / 2` would make blocks collide; its environments
  are no failures, all failures, and all failures with mode 2.
* Keyboard ring: two keys, eight slots, so that the pointers wrap round; the proof covers 16.
* `KeyScan`: both shifts, control, caps lock and one letter. Control shares a
  port byte with no other one of them, the shifts share one. Presses not yet typed are counted up
  to `MaxOwed` = 2: one being decoded and one made meanwhile.
* `Supervisor`: program stacks in all four banks; `BDISK` 0 and 1.
* `BaudPort`: the code's 500 and 100 ticks become 9 and 2, in the relation
  `TimeAssumption` states; the timer and the counter are bounded by themselves. The theorem
  is about any numbers in that relation.
* `FdcStatus`: all four interrupt codes with the low bits all clear, mixed and
  (but for SE, which only seeks set) all set; EN set and clear.
* `emu`: three entries and four names, so that entries are given up; five blocks, two of them
  on one file; extents of two records, so that a block moves on to the next; `MaxCalls` = 6
  calls of a program, enough to give up an entry, delete its file and come back to it.
* `editor`: a buffer of three bytes with words, a blank and newlines: the gap at both ends,
  empty and full, and one line, two lines and a line break at the end. `MaxCount` caps the
  repeat count.
* `programs`: SUBMIT's scripts of up to five bytes with lines of three; COPY's files of three
  records through a buffer of two, and names of one character, of which `?` is one; three directory entries of three files, one with 129
  records, and three devices' assignments; ASM programs of up to three statements, or of four
  around an `IF`, `ELSE` and `ENDIF`, with records of two
  bytes; expressions of up to six tokens with stacks of three, words of two bits (`AxWidth`); XMODEM files
  of up to three blocks of two bytes, one with an EOT and one with a SOH in its data, bytes of
  16 values, the control bytes those of the code modulo 16, so that the first block's number
  is SOH as it is there, one fault (`MaxFaults`), two bytes in the sender's UART; two breakpoints and two watchpoints, addresses that wrap.

### Fairness

`KeyRing!FairSpec` has `WF_vars(Console)`:
interrupts come every 10ms and return to where they struck, so the CPU
executes the rest of a console call. No fairness is put on key presses: the
property `WaitingReaderGetsTheKey` starts with a key in the ring, or says that the
interrupt which would bring one is let in. `BaudPort!PortSpec`
has `WF_portVars(Continue)` for the same reason, and `SF_portVars(Tick)`, since the key
scan interrupt is latched: it stays pending while interrupts are
disabled and is taken once they are enabled, however often the main line
disables them again. `Drivers` keeps both where the port is the subject. `XModem!XmFair` has
weak fairness of each side's steps, since both are programs that run on, and strong fairness
of the receiver's look at the line (`RxHeader`): a byte under way arrives in the end,
however often a wait has ended before. Key presses, noise and timeouts have none. The
other specifications have no fairness, and nothing is claimed of them but safety.

The runs check for deadlock; no configuration turns that off. Where a program ends, its
specification says so with a step that changes nothing (`Ended`, `Over`).

## 4. Proofs

TLAPS checks the following for all values of the constants (sets of keys, data
and addresses of any size; any geometry).

**DeblockerProofs.** The invariant `TypeOK` is inductive because it includes
facts that tie the program counter to the label and the two flags: at `writeback` the old
label is a real sector, at `switch` the buffer is clean, at `transfer` the label
is the sector asked for. `CleanBufferMatchesDisk` is inductive together with it; `spoiled` is what
keeps it so when reads fail. The theorems:

* `TypeCorrect`.
* `AddressingInjective`: different CP/M sectors are kept at different places.
* `NoDirtyDataDropped` and `WriteThroughDurable` (that a mode 1 write which succeeds is on
  the medium; the run has this within the refinement of `RecordStore`).
* `Coherent` and `Refinement`: the deblocker implements
  `RecordStore`, whatever fails, when a sector has four records or more (with exactly
  four, as on every machine here, `AddressingInjective` says that a slot of the
  store is one CP/M sector). The proof maps each action to a step or a stutter,
  with lemmas for the store before and after; `store` is the disk overlaid with the
  buffer. Outside the sector in doubt a clean store is the disk, so a change of sector alters
  nothing there.

**KeyRingProofs.** `TypeCorrect` and `KeysInOrder` (the refinement of
`KeyQueue`), with interrupts at every instruction. The invariant adds
`TakenKeyIsSafe`: between the step of the read pointer and the fetch interrupts
are disabled, or nobody scans, so that the slot just freed is not yet reused.
(TLC finds that the queue would be in order even without that `di`: the one slot that is
always free comes first. The proof follows the code and uses the `di`.) Lemmas
about the ring (what a step of either pointer does to the sequence of waiting
keys) are proved by cases on the sizes 8 and 16 of `SizeAssumption`; the
arithmetic is `and 7` and `and 15`.

**GetBlockProofs.** `BlockInv` adds to the types that, without mode 2, the label is the
block asked for at every transfer and a dirty buffer has a label (`Labelled`), and that in
`Sound` environments a clean buffer is a copy of its block. `Promised` adds what `kept` needs:
the store holds the kept records, and a clean buffer with a kept label is its block. From
them follow `BlockTypes`, `BlockHeld` and `AcknowledgedKept`, whatever fails, and
`BlockStore`: in the environments without failures and mode 2 each step is one of
`RecordStore`. A lemma about the arithmetic says that no request gives the number that
stands for "no block".

**DriversProofs** has a section for each part of `Drivers`.

* The gate. `GateInv` gives, for each place of the main line, which banks are
  mapped, where SP points, whether interrupts may come and what the stack holds; and for each
  place of an interrupt routine how the CPU differs from `before`, of which the same holds. It
  is inductive, one step of the proof for each instruction. `GateSafe` (an interrupt always
  finds a handler and a stack), `GateMapped`, `GateUnnoticed` and `GateTypeCorrect` follow, for
  any banks in which programs keep their stacks, if `SREAD` and `SWRITE` see a disk
  they know (`Disk \subseteq 0..1`).
* The key scan. The invariant keeps an account for each key: a press is owed while the
  key is down, while the bitmap says so, and while its release waits in H to be decoded, once
  more if it has been pressed again meanwhile. `CharactersPressed` and `ModifiersReleased`
  follow for any set of the 80 keys, and `ScanTypeCorrect`.
* Port 0x30. `MotorOutlastsTransfer` is an argument about time: the invariant bounds
  the timer from below at each place between `fd765_motor_on` and the end of the transfer by
  the ticks that may still fall, two for each turn of the wait, the seek, and one at each place
  in between. `TimeAssumption` is what makes the sum come out, with the code's own numbers as
  one instance. `ShadowKept` says that port and shadow agree wherever interrupts are enabled.
  No fairness is used.
* The track caches. `TrackCacheIsAStore`: both implement `RecordStore`, for
  any transfers that fail, if writes of the PN-8510 do not (`"pn8510" \notin WritesFail`; the
  deviation above is the counterexample otherwise). The invariant ties a clean,
  unspoiled cache to its track, and the place in the code to the two flags.
* The status. `VerdictsRight`, for all pairs of status bytes whose "normal" ones are
  those `NormalAssumption` describes. The shifts are doublings modulo 256 (`Doubled`), and a bit
  is tested in a byte of which nothing else is known.
* The composition. `PartsAlone`: a behaviour of `Drivers!Spec` is a behaviour of each part.
  `DriversSafe` then gathers what the run `drivers` checks, all but `MotorStops`.

**AsmExprProofs** is about `read_expression`. What an expression is worth is a table over its
stretches of tokens (`AxTable`), filled in by the stretches' lengths; `AxTableIs` is the
recursion that TLA+ leaves to be proved. What the code computes goes from left to
right instead, and the invariant `AxLine` says how the two meet:

* A finished stretch (`AxSeg`) keeps the depth of brackets it begins at, has the value `v`, and
  no operator outside its brackets binds looser than `b`.
* Each operator on the stack stands at a place of the text (`AxFrames`), with its left
  operand, a finished stretch, on the value stack, and each binds looser than the one above it
  unless that is in a bracket of its own.
* After a value, the top of the value stack is the finished stretch since the last operator on
  the stack (`AxTop`); applying an operator joins the stretches at its two sides
  into one. That is where the code's order of comparisons must be right: `<` for `<=` would
  group from the right.
* If the reader stops early, the text read is one that no ending makes an expression
  (`AxFormed`: a value is followed by an operator or a closing bracket, brackets match).

`AxClean` is needed: when the NOT of `5 - NOT 3` is read, the code applies the minus at once,
to an operand that is not there yet.

The library's induction theorems take an operator as a parameter, which these provers
cannot instantiate; so where a proof needs induction it is about sets. `NatMin`
(a nonempty set of numbers has a least one) is proved from the library's theorems on
well-founded orders, `UpTo` is induction to a bound for a set of numbers, and `PrimRec` is the
existence of a function defined by recursion on them. AsmExprProofs, QeProofs and EmuProofs,
which extend different specifications, each begin with the ones they use.

**ProgramsProofs** has an invariant and a section for each of the seven programs, and one
theorem each about `Programs!Spec`, where the program that runs is chosen at the start.

* `ScriptOrNothing`. `SbInv` says at each byte that the reading done so far is the meaning of
  what was typed so far (`SbScan`, recursive in the bytes; the induction is over the steps of the
  program, not over the data), and while the file is written, that what is left and what is in
  it make up the script.
* `CopyCopiesOnly`. `CpInv` says for each place in `copy.c` which records of the
  destination are there and which are in the buffer, that sources are as they were unless they
  are destinations too, and under which user the next call is made. What may change are the
  names the destination means (`Targets`), more than one only for a name that begins with `?`.
* `StatDoesAsTold`. The I/O byte is four digits to the base 4 (`StFieldsOf`); the table
  adds up over the entries seen so far, each file in it once; the entries already set
  are as wished.
* `AssemblesRight`. `AsInv` ties the record being filled and the records written to the bytes
  placed, and the two passes to each other: a label with a value after pass 1 that
  does not clash in pass 2 has the same value again, so that each reference made through it is
  the label's value at the end.
* `ExpressionsEvaluated`: `AxEvaluates`, from `ExpressionEvaluated` of `AsmExprProofs`.
* `TransferRight`: `BlocksRight` for transfers over a line that may lose answers, to a disk that
  may be full, with keys pressed, whatever the data are. `XmLine` says what is under way: the receiver asks for the block
  the sender has read last (`XmAsking`), the packet is on the line and its first bytes have been
  taken (`XmUnderWay`), or the block is stored and the receiver says so (`XmAnswering`); at most
  one answer or packet at a time. A lost answer leads back to the same place, since the
  receiver repeats its last answer and waits only while the line is empty. The block numbers do
  not wrap because a file has fewer blocks than a byte has values, and the checksum is tied to the
  bytes taken so far (`XmSums`). That SOH, EOT and CAN differ, and ACK from NAK, is an assumption.
* `DebuggerEnters`, from an invariant about the loop's flags and what is `due`.
* `ProgramsTyped`: the types of all seven; among them, that
  neither stack of `read_expression` passes its end, and that the debugger's tables, SUBMIT's
  line and the receiver's block stay in their arrays.

**QeProofs** begins with the operators of `QeBuffer`, for a buffer of any size. `RightIs` and
`LeftIs`: copying bytes across the gap keeps the text, whatever the gap holds; `Keeps` gathers
what motions leave alone, `Sound` what every other change does, and `RepeatKeeps` carries both over a
repeat count. `Lined` is what `current_line` means: no newline between it and the cursor, and
one before it. The editor's invariant `QeInv` is `QeCore` (types, `Lined`
unless the text is bent, `QeCleanIsSaved`) and `SaveInv`, which says for each call of
`save_file` what the file and the temporary hold: the new text is somewhere from the first good
close on, and the old one until it is deleted. `EditorInvariant` is that it is one;
`EditorBufferSound`, `EditorCleanIsSaved`, `EditorEditsExact` and `EditorSavesSafely` are the
properties of the run `editor`.

**EmuProofs** is about `EmuFiles` and `EmuBdos`, for any number of entries, names, blocks,
records and calls. Its invariant `EmInv` has four parts.

* `Sound` speaks of the store `fs` alone. The host is whole: names and descriptors lead to
  inodes that are there, and no two names to one. The list is one chain (there is an order
  `p` in which each entry's `prev` and `next` are its neighbours, from `first` on). No two
  entries have a name in common, each descriptor has one entry, and only files of the
  mapped drive have one.
* `AllCurrent`: an entry with a descriptor is open on the file the directory has under its
  name, for every name outside `loose`.
* `SearchSound`: what a search that is `calm` has yet to return is what it has yet to read
  that matches and is in the directory, and nothing is left once it is over.
* `Knows`, for the blocks of `fresh`: a file shorter than an extent is as long as the block's
  count says, and whatever is open under its name is that file, or one without a name that a
  close would not cut.

The lemmas follow the code's layers. First the host (`HostOpenIs`, and a descriptor number is
never larger than the number of entries, which is where "an entry is given up before the next
file is opened" is needed). Then the list: `BumpIs` builds the order after a `bump`, moving the
entry's place to the front, and `ChainWhole` and `OrderIs` say that such an order is the one the
property's `Order` walks. Then one lemma for each operator on entries (`ReopenIs`, `FindFileIs`,
...), stated with `Steps`: the store stays sound, no name comes to mean another file, entries
follow their names. `Steps` composes, so that each call of the program is a chain of such
lemmas with one for its data at the end. The theorems are `EmInvariant`, `EmListStaysSound`,
`EmStaleIsLoose`, `EmSearchIsComplete` and `EmCallsAreHonest`.

Three facts about the model came out of the attempt. Two hosts' names for one inode (a hard
link) would make a write through one of them change the other, so `EmBdosAssumption` excludes
them. A block that takes its length from a loose entry does not know the length of the file
now under that name, so it leaves `fresh`. The reset of the disks selects drive 1, which
`EmFileAssumption` says there is.

Each theorem needs the named assumptions of its module (`KeyAssumption`, `TimeAssumption`,
`GeometryAssumption`, ...), which TLC evaluates in the runs.

**Model-checked only.** Liveness, as TLAPS does not treat fairness and ENABLED
here: `WaitingReaderGetsTheKey`, `MotorStops` and `BothEnd`. Every invariant
that a passing run checks is stated by a theorem, one of them with a condition:
`BlocksRight` over a line that garbles or delays (`"noise"`, `"slow"`), for one fault, noise
that is not itself a header, and files that satisfy `NoHeaderInside`. No module uses a
RECURSIVE operator.

## 5. Not modelled, and why

* What a driver sends to a controller byte by byte, display output, fonts and
  boot loaders: straight-line I/O with no state that a later step depends on. The terminals'
  escape parsers belong here too: nothing but the screen depends on their state.
* The other BIOSes: the Kaypro's calls a ROM; the nano-z80's moves one 128-byte sector at a
  time and keeps nothing; the WP-1's and LW-30's gates and motor depend on
  a ROM of which there is no source.
* The WP2450DS keyboard: `kbd_scan` returns 0 both for "no event" and for key-down
  at probe 0, sense 0 (`wp2450/keyboard.z80:60`); whether a key is there is not
  in the source. The PowerNotes' decoding is the NC200's with the other polarity.
* `db_cap` (`deblocker.lib:260`): a computation without state, whose 16-bit results are
  wrong below one allocation block, which no disk is.
* `kbd_get_next_key` adds 0 for the carry to the buffer's address
  (`nc200/supervisor/keyboard.inc:160`): right or wrong by where the linker puts the
  buffer.
* Boot: `pcmcia_init`'s card scan and `fd765_recalibrate`, which goes on
  after a drive was not ready (`nc200/supervisor/floppy.inc:126`) and then depends on what
  the controller does without a drive.
* The depth of the NC200's 64-byte supervisor stack. That needs a count of pushes in every
  handler rather than a model of states.
* STAT's listings and its drive capacities (`stat.c:248`), ASM's lexer and listing, `qe`'s
  drawing of the screen: formatting. One result of drawing is modelled, the place
  `draw_line` returns to `insert_newline` (`DrawLine`), for lines that fit on the screen. ASM's counter does not wrap at 16 bits in the model.
* MKFS, RAWDISK and DUMP: one loop over sectors each. The character tables of the keyboards.
* The third-party programs, the CPU emulator and the build system.

## 6. What could follow

* A composition along one path: `Deblocker` over the floppy driver's motor, seek and status,
  and `KeyScan` feeding `KeyRing`, with the guarantees of each used as the other's
  environment.
* The ATA command sequence, when a description of the cards' behaviour is at hand.
