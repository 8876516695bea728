# 8809-OS in TLA+

A model of the 8809-OS kernel: 32-bit x86, one CPU, one program at a time in
user mode, no scheduler. What runs concurrently is the current program (or the
kernel working for it, interrupts enabled) and the interrupt handlers.

This file says what the system consists of, which module models which part,
what TLC checks on small instances, what TLAPS proves for all, and what is left.
All paths are relative to `src/`.

## 1. Inventory

| Component | State | Operations | Talks to |
|---|---|---|---|
| Keyboard decoder (`keyboard_driver.c` 13-165) | `shift_pressed`, `caps_lock`, `ctrl_pressed`, `extended` | `keyboard_callback`, `map_scancode_to_char` | reads port 0x60, puts keys into the ring |
| Keyboard ring (`keyboard_driver.c` 46-72, 168-175) | `key_buffer`, `buffer_head`, `buffer_tail` | `buffer_put` (interrupt), `buffer_get`, `keyboard_getchar` (system call) | shared between handler and reader, no lock |
| Interrupt delivery (`idt.c`, `boot.asm` 180-232) | `irq_routines`, the 8259's request and service registers | IRQ stubs, `irq_handler`, `irq_install_handler` | calls the routine, ends the interrupt |
| Physical memory (`pmm.c`) | `frame_bitmap`, `used_frames` | `pmm_init`, `pmm_alloc_frame`, `pmm_free_frame` | called by boot, `vmm.c`, the loader |
| Paging (`vmm.c`) | page directory and tables | `vmm_init`, `vmm_map_page`, `page_fault_handler` | takes table frames from the pool |
| ELF loader (`elf32/elf32.c`) | none of its own | `load_elf` (`unload_elf` has no caller) | FatFs, pool, page tables |
| Boot (`kernel.c`) | none | `kernel_main` and its mapping functions | all of the above, in a fixed order |
| Kernel heap (`heap.c`) | the block list | `heap_init`, `kmalloc`, `kfree` | one caller: the font loader |
| System calls (`syscall.c`) | `cwd` | 20 calls behind `int 0x80`, each run to its end | all of the others |
| Graphical terminal (`drivers/video`, `kernel/console.c`) | cursor, rows and columns, font, frame buffer | putchar, clear, scroll, move, clear line, change font | frame buffer, heap, FatFs |
| Themes (`ui/`) | `ui.theme` | `load_theme` | FatFs, terminal |
| Disk (`fatfs/ata.c`, `fatfs/diskio.c`) | none | read, write a sector by polling | the drive's registers |
| FatFs (`fatfs/ff.c`, third-party) | the window and its flag, `last_clst`, `free_clst`, `fsi_flag`, `volbase` of `fat_fs`; `FIL` and `DIR` objects on the stack | `f_mount`, `f_open`, `f_read`, `f_write`, `f_lseek`, `f_close`, `f_opendir`, `f_readdir` | disk layer |
| init (`user_programs/init.c`) | none | reads `/shellrc`, runs the shell | system calls |
| Shell (`user_programs/shell.c`) | `cwd` | `cd`, `mkfile`, `clear`, `echo`, running a program | system calls, `readline` |
| Editor (`user_programs/xedit.c`) | buffer, cursor, scroll position, what was drawn last | insert, delete, move, redraw, save, load | system calls |
| Other programs (`ls.c`, `cat.c`, ...), `user_programs/syscall.h` | none | list, print; `readline` with its echo | system calls |
| VGA text (`vga_driver.c`), GDT/TSS (`gdt.c`, `tss.c`, `task.c`), PIT (`drivers/timer`) | boot console; constant tables; not compiled | | |

What is hard, and what correctness means, component by component:

* **Decoder.** State is carried from one interrupt to the next in four flags, so
  an error shows keys later. Correct: what reaches the ring is what was typed,
  and nothing stays stuck.
* **Ring.** One producer in interrupt context, one consumer that can be
  interrupted between any two statements and that sleeps with `hlt`. Correct: a
  bounded FIFO queue; no wake-up lost for good.
* **Interrupt delivery.** Edge-triggered lines: a byte that is acknowledged but
  not read, or read too late, silences the keyboard. Correct: every byte has
  its interrupt on the way and is read.
* **Memory.** Frames are handed out at boot, by the loader and inside
  `vmm_map_page` itself; results are ignored everywhere; programs are loaded
  over programs. Correct: one owner per frame, mappings that do not move, the
  counter in step with the bitmap, and a program that runs only when all it
  needs is mapped and filled.
* **Heap.** A list whose sizes, links and marks are rewritten by splits and
  merges. Correct: the blocks tile the heap, memory handed out is apart, a
  refusal only for want of room, free neighbours always merged.
* **Disk.** The driver polls a status register that the drive changes at any
  time, gives up or not, and answers RES_OK whatever happened. Correct: whole
  sectors, the right ones, and calls that end.
* **Files.** One window over the disk holds a table sector, a directory sector or
  FSInfo in turn; counts and hints are kept beside the tables; there is no
  shutdown, and a save takes many sectors. Correct: a store of named files; no
  cluster in two chains, none lost, nothing left in memory only; a power cut hurts
  the file being saved and no other (while a directory grows the code does not keep
  to that: section 3).
* **Session.** Two working directories, in the kernel and in the shell, handed over
  by EXEC and RECOVERCWD; EXIT jumps to what the loader returned. Correct: a
  directory found once is found again, and there is always a shell to return to.
* **Terminal.** Pixels are all there is: scrolling moves lines of pixels, the
  cursor is painted over a cell, fonts change height. Correct: the pixels are a
  page of characters, the cursor is on the screen, and the line being typed is
  what is seen before the cursor.
* **Text files of settings** (themes, shellrc). Scanned by hand-written loops over
  buffers. Correct: a file means what it says, line by line.
* **Editor.** A partial redraw, a flag for unsaved text, a limit on the buffer.
  Correct: text changes at the cursor only, what is drawn down to the cursor is
  the text, and unmarked text is what the file holds.

`PROJECT.json` lists under `hazards` each place of the code where one of these
can go wrong, with the properties that would show it.

## 2. Modules

```
KeyDecoder ----+--- Keystrokes --------- MCKeystrokes
               |        +--------------- KeystrokesProofs
               |
               +--- KeyboardDriver ----- MCKeyboardDriver
KeyQueue ......:        |
  (abstract)            +--------------- KeyboardDriverProofs

PhysMemory ---- KernelMemory ----------- MCKernelMemory   (MemoryLayouts)
                   |    +--------------- KernelMemoryProofs

Heap ---------- MCHeap
  : ....... Allocator (abstract)
  +------------ HeapProofs

Ata ----------- MCAta
  : ....... SectorDisk (abstract)
  +------------ AtaProofs

ShortNames --- FatVolume --- FatDirectory --- FatFile --- FatShape --- Files --- MCFiles
                                                            FileStore .. : |
                                                           (abstract)      +-- FilesProofs
Theme -------- Terminal ------ MCTerminal
                 | : ....... CharScreen (abstract)
                 + ----------- TerminalProofs
ShellRc -------- +

Editor ------- MCEditor
  : ....... TextBuffer (abstract)
  +------------ EditorProofs
```
Lines are EXTENDS, dots are INSTANCE ... WITH under a refinement mapping.

### KeyDecoder
The flags and one action per branch of `keyboard_callback`; `Emitted(byte)` is
the key, if any, that the byte makes the callback pass to `buffer_put`. Bytes
are real scancodes. Characters are abstracted to `<<table, position>>`: which
table was used and where, with the set of letter positions and of positions that
hold 0 read off the tables. Both Ctrl branches are one action: they set the same
flag and leave `extended` clear.

### Keystrokes
A person at the keyboard: physical keys go down, repeat and come up, each as the
bytes a PS/2 keyboard sends for it (external), and `typed` records what the
press meant, from the keys physically held. `EmittedIsTyped` compares that with
what the decoder produced. This closes the decoder with inputs a keyboard can
really produce, instead of arbitrary bytes. `Unambiguous(keyboard)` says which
keyboards the four flags can follow: no two keys that share a flag, and no letter
beside both Shift and Caps Lock.

### KeyboardDriver
Keyboard, 8042, 8259, CPU, handler and reader. `port60` is the controller's
output buffer, `requested` and `in_service` the 8259's registers, `irq`/`irq_pc`
where the CPU is in `irq_handler`, `pc` where the task is. `keyboard_getchar`
and `buffer_get` are split at every point where the handler can come in with an
effect: test, `hlt`, sleep, load of the slot, move of the tail. The callback is
one step, since it runs with interrupts disabled. `Init` is the state right
after `sti` in `kernel_main`. `event` is a history variable: the last key offered
or taken, so that losing or duplicating one is a visible step of KeyQueue.

### PhysMemory, KernelMemory
`frame_bitmap` is the set of frames whose bit is 1. Addresses are counted in
units, PAGE to a frame, so that rounding in `pmm_init` and in the loader is
the code's. `at` is the position in `kernel_main`, in `load_elf` or in user
mode; each loop round is one action, and each action contains the whole call:
`pmm_alloc_frame`, `vmm_map_page` with its checks, the page table it may
allocate, and what the caller does with the result, which is nothing. Hanging
states: `panic` (pool exhausted), `fault` (page fault), `clobber` (a new page
table is cleared through an address that maps something else). `contents` records
the program from which each virtual page was last filled. `KernelEnds` are the
words that may lie in memory at `__kernel_end`: `pmm_init` reads them, they are
beyond the image, so any value is possible.

One page-table entry per page and one directory entry per ENTRIES pages stand
for the two levels. Access bits are left out: nothing changes them.

### Heap, Allocator
`block` maps the address of each header on the list to its fields. One action
is one round of a loop. `kfree` is called on live memory only, `kfree(NULL)`
changes nothing and is left out. `Allocator` is the promise: `live` memory with
its size, requests granted apart from it, refused only when no run of free bytes
holds the header and the request.

### Ata, SectorDisk
`status`, `command`, `address`, `cache` and `pos` are the drive (external): it is
busy from a command, or from the last word it is given, until `DriveDone` or
`DriveFails`, and takes no command while it is busy or wants data. `pc` is the
place in `ata_read_sector` or `ata_write_sector`, and the drive may move between
any two accesses to its ports. A poll that sees nothing new is no step; a bounded
poll (`ata_wait`'s second loop) counts its rounds. `absent`: without a drive the
status reads as zeros. `stored` and `failed` record, for SectorDisk, whether the
sector has reached the medium and whether the drive has failed. SectorDisk promises
sectors that are read and written as a whole, one after the other.

### ShortNames, FatVolume, FatDirectory, FatFile
FatFs as the kernel uses it, bottom up: path segments as 8.3 names; the window,
the allocation table and mounting; directory entries and paths; files. A volume is
a record with the disk (a function from sector numbers to contents) and the fields
of `FATFS` that change; a function of `ff.c` is an operator from a volume to a
volume with a result. `log` lists the sectors that a call has written, in their
order. Sectors hold what they are for: table entries, directory entries, FSInfo or
bytes. A loop is a function from the number of passes to its variables, and one pass
(`WalkRound`, `WriteRound`, ...) an operator of its own; the bound on the passes is
named beside it (a chain has at most N_FATENT clusters, a directory at most MAX_DIR
entries, a pass of `f_write` takes at least a byte).

One FAT32 volume with two tables and one sector per cluster, like the repository's
image; `ffconf.h`'s configuration (no long names, no relative paths, one drive).
No branch for a disk error: `diskio.c` reports none (run `ata_error`).

### FatShape
What is meant by a sound volume, said of every link and every entry alone: which
links may be there (`LinksSound`), the place of each cluster in its chain
(`ChainsSound`), which chain each entry owns, of the right length (`EntriesSound`),
and the same of a disk from which the machine boots (`Proper`). `IntactImage` is
what `Files` assumes of the disks the machine is first switched on with
(`FilesAssumption`): that they are sound, that the second table and FSInfo agree with
the first table, and that what is in use can be reached: every chain but the root's
has an owner (`Untended`), and the directories are a tree in which nothing stands behind
the end of one (`Tidy`). TLC evaluates it for the images of the run.
The module models no code; its definitions are used by that assumption and the proofs.

### Files, FileStore
The system calls for files and the programs that make them: the shell (`cd`,
`mkfile`, running a program), `ls`, and programs that read and save. `task` says
who runs: the shell, a program, or nobody (`dead`: the jump to address 0 after a
shell that could not be loaded). One program runs at a time and the kernel never
takes the processor from a call, so a call is one step. `Reboot` switches the
machine off between two calls, `PowerCut` between two of the sectors that a save
writes; both mount again and run init. `PowerCut` leaves out the cuts while a
directory's new cluster is linked and not yet cleared. A program header in `Notes`
is one that is not `PT_LOAD`, for which nothing is loaded. `files` is derived: what an
independent reading of the disk finds. FileStore maps names to contents, with the
reply of each call.

### Theme, Terminal, CharScreen
`screen[line][column]` is the part of a glyph that eight pixels of a line show:
scrolling copies lines, glyphs are drawn over what is there (`draw_char_psf` sets
bits and clears none), the cursor is a filled cell. `rows` is a definition, since
the code computes it once. A call is one step per byte written; `readline` is one
step per byte typed, with its echo. Theme folds `load_theme` over a file byte by
byte. CharScreen is a page of characters with a place in it.

### ShellRc
`shell_load_rc` and `trim`, against what the lines of a file mean. The state of the
loop is the buffer, the cursor and the calls made so far: init cuts the file up where
it was read to, by writing NULs over the end of the line (`CutLine`), over the "="
(`Setting`) and behind what is left of a key or value (`Trim`), and looks for the ends
of later lines and strings in the same buffer. The file may hold NULs of its own. It
is put together from `Pieces`, so that a few steps make two settings.

### Editor, TextBuffer
A key is one step: the change of the buffer, the scrolling, and the redraw of the
rows the code draws again; `shown` is what the rows show. Ctrl-Q leaves the editor,
which is then run on the file again. Saving may fail as FileStore allows. TextBuffer
has the text before and after the cursor, no lines but those in it, and the file,
which only saving changes, to the text or a beginning of it, and which opening reads.

## 3. Runs

| Run | Shows |
|---|---|
| `keystrokes` | on three keyboards (letters, digits, Shift, Ctrl, arrows, grey keys; Caps Lock and Ctrl; all modifiers and PrintScreen) what is typed arrives as typed, and no flag outlives its keys |
| `keyboard_driver` | the ring is a bounded FIFO, no byte is without its interrupt, every waiting reader returns |
| `memory_programs` | boot, then any EXECs and EXITs of programs linked at one address or elsewhere (late page tables), one with an unaligned segment, files that do not open, up to exhaustion |
| `heap` | tiling, coalescing, refinement of Allocator, calls return |
| `ata` | a drive that moves between any two port accesses, fails or is missing: refinement of SectorDisk, the drive is at rest between sectors, reads always end, writes end if there is a drive |
| `files` | no cluster shared or lost, nothing waiting in memory, saves refused only when something is full, no end without a shell, a cut hurts the saved file only (no cut while a directory's new cluster is linked and not cleared), refinement of FileStore |
| `terminal` | cursor on the screen, nothing below the last whole row, echo is line, themes, refinement of CharScreen |
| `shellrc` | init makes the calls the settings file means, in their order, with two settings to a file and NULs in it |
| `editor` | the cursor's line is visible, rows down to it are up to date, unmarked text is saved, refinement of TextBuffer |

Runs that end in a counterexample, each a place where the code and what is
written about it disagree (`findings` in `PROJECT.json`):

| Run | Disagreement |
|---|---|
| `keyboard_early_typing` | a key pressed during boot silences the keyboard for good |
| `memory_kernel_image` | `_start` and `__kernel_end` are read as words, so the image is not reserved and the heap receives its frames |
| `ata_error` | a transfer the drive has refused is answered with RES_OK, "Successful" |

What the runs leave out because a property is known to fail there:

* Shift with Caps Lock gives upper case, where the comment of
  `map_scancode_to_char` says that Caps Lock "should be XOR with shift": the case is
  corrected only when the table gave a lower-case letter. `EmittedIsTyped` fails on a
  keyboard with a letter, Shift and Caps Lock.
* Letting go of one of two held Ctrl keys turns Ctrl off (one flag; the letters'
  keyboard has one Ctrl key for that reason).
* With "headers" in `DiskErrors` a load that fails at its second segment returns to a
  caller whose pages are overwritten already; with "data", a segment that cannot be
  read runs with the previous program's bytes. `UserModeReady` fails with either.
  The other theorems about memory allow both.

What the newer models describe without a property against it, because nothing in
the sources promises otherwise:

* After a power cut inside a save the count in FSInfo may be too low; it is believed
  at the next mount, and a save may be refused while clusters are free. Clusters
  may stay allocated to nobody.
* `mkfile` of an existing file empties it.
* Saving a file that did not fit the editor's buffer truncates it, without a mark.
* After lines are joined or split, the rows below the cursor show the old text
  until the screen scrolls.
* Clearing a line from a column right of the cursor leaves the cursor's block on
  the screen.
* A settings file longer than init's buffer is cut, and the beginning of its last
  line taken for the line.
* The drive may be busy when `ata_write_sector` gives the flush command, and then
  takes no notice of it; the sector itself is waited for.

The three keyboards of `keystrokes` keep apart what the decoder confuses: letters
are not typed with both Shift keys, both Ctrl keys, PrintScreen (its fake Shift
sets `shift_pressed`) or Shift together with Caps Lock.

### Bounds
* Keystrokes: four bytes on the wire hold a whole PrintScreen (the longest
  stroke), or two prefixed strokes, unread behind each other; two typed keys
  show loss, duplication and reordering. The flags are the only memory of the
  decoder, so longer histories repeat these states.
* KeyboardDriver: three slots (two keys) give empty, half full, full and every
  wrap-around. The keyboard holds two bytes, so a prefix and its code can be
  separated by a tick, by another stroke or by the reader.
* KernelMemory (`MemoryLayouts`): about 30 frames of two units and 144 pages keep
  the order of the real machine: low memory, a hole, RAM whose beginning is the
  kernel image, frames above the identity-mapped window, five heap pages, two
  stack pages, a framebuffer above RAM. The pool is small enough to run out
  during a load.
* Heap: 14 bytes with headers of two hold up to seven blocks; requests 0, 1, 2
  and 5 leave remainders of no byte, of less than a header, of exactly one and
  of more.
* Ata: two sectors of two words, which are all that the address can tell apart;
  calls of one and two sectors; patience for two polls. A first and a last word
  are enough for an index that is off by one, the second sector of a call for what
  the first has left behind.
* Files: twelve clusters, a table in two sectors, two entries in a directory
  sector, four bytes in a data sector, names of three and one characters. Two
  clusters are free, both below the hint in FSInfo, so every search wraps; the root
  directory has no entry to spare; there are a deleted entry, pieces of a long name
  and a volume label to skip. The volume is the whole disk or the second entry of a
  partition table. Contents of one byte and of six (a new program, over two
  sectors), a shell of two segments stored backwards, a buffer of six. Two saves
  fill the disk, overwrite the shell, or make a file twice; one restart, or one
  power cut between two sectors of any of them (but for the growing directory, see
  below). One of the programs has a header that is not `PT_LOAD` before one that is.
* Terminal: two rows of two columns and one line of pixels below them; fonts of two
  lines and of one; lines of up to three bytes, longer than a row and, at the last
  row, than the screen. One change of height: more only repeat it, since `rows`
  stays.
* ShellRc: files of up to five pieces out of a blank, both line ends, a NUL, "=", the
  texts, the beginning of a setting ("set", key, "="), and the same behind a line end.
  Two pieces are a file of two settings, which leaves three for values, padding, NULs
  and lines that set nothing. The buffer of 13 is shorter than the longest files, so
  settings are also cut off at its end.
* Editor: a buffer for four bytes, three rows and the status. Files are empty, full
  with two lines, or too long; four newlines make more lines than rows.

CHECK_DEADLOCK is FALSE where the real system stops: panic and page fault
(memory), a jump to address 0 (`files`), a write without a drive (`ata`); and for
`shellrc`, whose files do not grow for ever.

### What the models take for granted
* Files: the drive does not fail, and a sector is written as a whole or not at
  all; sectors reach the medium in the order of the calls. No power cut between the
  write that links a new cluster to a directory (`fatfs/ff.c` 1686) and the one that
  clears it (1702): old bytes would be read as entries, whose chains may be anything.
  `NoSharing`, with its theorem, and `OldEmptyOrNew` are about the other cuts only;
  nothing in the sources promises that a disk survives any. Names do not begin with a dot and have no
  characters outside ASCII. Programs have at least one program header.
* Terminal: the font that `ui_init` loads is there (the code would divide by zero),
  and no font is higher than it (`SizesAssumption`; true of the image).
* Editor: lines are shorter than the screen is wide, and the screen has more rows
  than `SCREEN_HEIGHT`.
* A drive that is present follows the ATA protocol: BSY is set as soon as the
  command register is written, and DRQ, ERR or neither comes with its end.

### Fairness
`KeyboardDriver!Fairness` (every keyboard run with liveness): hardware that can act does, and
handlers finish; the timer is never masked and ticks for ever (the BIOS's rate,
`pit.c` is not compiled). A tick is served in far less than the 55 ms to the
next, so ticks do not starve the keyboard interrupt or the task: strong
fairness for those two. Nothing makes anybody type or read. In `Heap` the loops
of a call go on, nothing more. In `Ata` the processor goes on and a busy drive
becomes ready or reports an error, with weak fairness for each: neither waits for
anything but the other, and nothing forces the drive to succeed. The other new
modules have no liveness: a call, a key or a byte is one step.

## 4. Proofs

Every theorem is over all values of the constants that satisfy the named
assumptions of the modules (ring of at least two slots; heap larger than a
header; framebuffer above RAM and heap, stack and programs inside the address
space).

* **KeyboardDriverProofs.** `TypeCorrect`. `NoEdgeIsLost` (assuming nobody types
  during boot) strengthens `NoLostEdge` with what holds while the routine is
  missing and inside the handler. `ReaderIsServed` is inductive with the type
  invariant: the callback moves the head only, never onto the tail, and writes
  only the slot at the head, which is outside the window the reader reads.
  `RingIsQueue`: each step maps to `Offer`, `Take` or a stutter; the lemmas
  compute the window after the head or the tail has moved.
* **KernelMemoryProofs.** The inductive invariant is
  `TypeOK /\ FramesOwnedOnce /\ TablesCover /\ NothingMappedYet`. `TablesCover`
  (a mapped page has a table) is needed because a page whose table appears must
  have been unmapped, or a new mapping could share a frame unseen;
  `NothingMappedYet` lets `vmm_init` write the identity map. All callers of
  `vmm_map_page` go through one lemma, `MapResult`, which says what a call may
  have done. From it follow `OneOwner`, `NothingMoves` and
  `CounterFollowsBitmap` (with its own invariant about finite bitmaps).
  `UserModeIsReady` follows the loops of boot and of the loader: `RangesReady` says
  how much of each range is mapped at each round, `ProgramsReady` which segments
  hold the new program and that the caller of EXEC is whole until the first page
  is overwritten, `ZeroTaken` that no page gets frame 0, which `vmm_map_page`
  refuses. Its hypothesis is that loads fail at opening the file only; with other
  errors the property is false (section 3).
* **HeapProofs.** `TypeOK /\ Tiling /\ Coalesced /\ Scanned`, where `Scanned` says
  that the blocks that a request has passed were too small or in use. Tiling is
  what makes `next` and address order agree; `Scanned` is what makes a refusal
  justified: at the end of the list every free block is too small, and because
  free neighbours have been merged a run of free bytes is never longer than a
  block. `HeapIsAllocator` maps each step to one of Allocator's or a stutter.

* **AtaProofs.** The invariant says at each place of the driver what the drive is
  doing for it: after the command it serves this sector or has failed; while words
  are moved, both count alike and the words moved so far agree; at the flush either
  the sector is still on its way, unchanged, or it is stored or has failed. From it
  follow `DriveAtRest`, on which the next command relies, and `LayerIsSectorDisk`.
* **KeystrokesProofs.** The bytes on the wire are still to be decoded while the
  keys they stand for have moved already, so the invariant speaks about the
  decoder as it will be: `After` runs the flags over a byte, `Leads(d, w, e)` says
  that the wire `w` takes the decoder from `d` to `e`, and the invariant is that
  the wire takes the decoder of now to one that agrees with the keys held
  (`Agrees`: no flag is set without its key) and, on an unambiguous keyboard,
  knows them (`Knows`). A press or a release moves the far end of the wire on by
  one key, reading a byte moves the near end and leaves the far end where it is.
  `NoModifierStuck` holds for any keyboard. `EmittedIsWhatWasTyped` needs
  `Unambiguous`, the hypothesis that `MCKeystrokes` assumes of its three
  keyboards: without it the code disagrees with its comment (section 3).
* **TerminalProofs.** `TypeOK /\ SameFont /\ NothingBelow /\ Room`: until a font of
  another height is loaded the grid is the one the rows were computed for, and
  `Room` says that a line of input is never longer than its buffer.
  `EchoMatchesLine` follows the bytes of the line back from the cursor, across the
  wrap at the right edge and the scroll at the last row, with what is left on the
  screen of a line longer than it. `TerminalImplementsCharScreen`: each call maps
  to a step on the page of characters or to a stutter.
* **TerminalProofs, the settings.** What the parsers of theme files and of `/shellrc`
  compute for every file. Both are written as a function from the number of rounds to the
  variables of the loop; the lemma `Induct` (a set that holds 0 and is closed under
  successor, from the well-foundedness of the naturals) is used once to show that
  such a function exists and once to carry an invariant along it. For `load_theme`
  (`LoadIsMeant`): after i bytes, `line` is what is kept of the line begun and each
  colour is that of the last of its lines that has ended. For `shell_load_rc` there
  are two steps. A loop that takes each line as a sequence of its own makes the calls of
  the settings whose lines end before the cursor (`RoundKeeps`); `TrimStrips` and
  `KeyIsTrimmed` say that trimming takes away the padding and nothing else,
  `CallIsMeant` that a line leads to a call exactly if it is a setting. The loop of the
  code follows that one (`RoundFollows`): the NULs that a line leaves behind lie before
  the next cursor (`ReadOut`), so from the cursor on the buffer is the file as it was read
  (`Follows`), and both sides of a setting are trimmed in the buffer to what they
  are trimmed to on their own (`SettingIs`). Assumed (`RcAssumption`): the buffer has
  room for two NULs, keys are neither blanks nor "=", and "=", NUL and "set " are
  told apart from what they are compared with.
* **EditorProofs.** `TypeOK /\ CursorVisible /\ UnmodifiedIsSaved` and that the file
  is text. The lemmas are about the number of newlines before a place: how it
  changes when the cursor moves to another line, and that it stays within what one
  scroll can follow. `ScreenIsFresh` adds that what the rows down to the cursor
  show is what they would show if drawn now: an edit changes no row above it, and
  a scroll draws all. `EditorImplementsTextBuffer` maps each key to a change of the
  text before or after the cursor, Ctrl-S to a save that leaves the text alone, and Ctrl-Q
  to opening the file.

* **FilesProofs.** `NothingUnsavedAlways`, `NoSharingAlways`, `CopiesAgreeAlways` and
  `NothingLostAlways`, for volumes of every size and layout, every path and every
  content, with any number of saves, restarts and power cuts (of those in `PowerCut`).
  The argument:
  - *Shapes.* `IsShape(q)` is a record of what the volume says when the window is taken
    for the sector it shows: links, contents, the clusters of directories, the place
    of each cluster in its chain, and the disk as the call began; `Sound` of FatShape
    holds of it. Saying the place of each cluster (`first`, `nth`) is what makes the
    shape inductive: "no two chains meet and every chain ends" alone does not survive
    the freeing of a chain cluster by cluster, when half a chain belongs to nobody.
  - *Changes.* There are few: a free cluster is marked, linked or freed
    (`MarkSound`, `LinkSound`, `FreeSound`), a directory grows by a cleared
    cluster (`GrowSound`), an entry is replaced by one that fits (`EntrySet`), a
    cluster of a file gets other bytes (`DataSound`). Each is shown to keep a shape
    sound once, and each function of `ff.c` is shown to be made of them: `SearchRound`
    to `ChainExtended` for `create_chain`, `ChainRemoved` for `remove_chain`, `Walked`
    for the searches in a directory, `Registered`, `Truncated`, `Written` and `Closed`
    for a save.
  - *Power cuts.* `Safe(disk, b, log)` says that the disk after any number of the
    writes in the log is proper again, and is carried along every write
    (`SafeWritten`). This is where the order of the writes matters: the entry
    before the chain is freed, the chain before the entry is set. The three writes by
    which a directory grows are kept together (`SafeCleared`), since a cut between
    them is left out of the model (section 3).
  - *Between calls.* `IInv` says that the volume is at rest (`Resting`): its shape is
    what is on the disk, the window is clean and shows its sector, no count waits.
    Calls that read keep it with the same shape (`Calm`), `f_mount` establishes it
    from any proper disk (`VolumeMounted`), one lemma per action.
  - *Copies and counts.* `Tallied` says, as long as no call was cut (`q.base.whole`),
    that the second table is the copy of the first, that FSInfo tells the number in
    memory unless it is marked to be written, and that this number is that of the free
    links less `q.due`, what `create_chain` has taken or `remove_chain` has freed and
    not counted yet. Each change of a link says what it does to the number of free links
    (`OneLinkCounted`), each count makes `due` zero again (`CountsChanged`), and
    between two calls it is. The bounds in the code (`free_clst < n_fatent - 2`) are
    thereby shown never to bind.
  - *Nothing in use is out of reach.* `q.lost` are the chains without an owner: none
    between two calls, and during a call the chain that `create_chain` has begun and
    no entry names yet, or the one that `remove_chain` is freeing and no entry names any more.
    `Tidy` says three things more that the code must keep for a chain with an
    owner to be found from the root: behind the end of a directory stands no entry
    (`Filled`; `dir_alloc` takes the first free place, and the walk up to it has passed
    no end: `Earlier`, `Passed`), every directory is one level below that of
    its owner (`Rooted`), and no file is named like "." (`Listable`; `create_name` makes
    no such name). After a power cut none of this is claimed: a cut does lose clusters.
  - *What is read.* `Chain`, `EntriesOf` and `ObjectsOn`, by which the properties read
    the disk, read the chains and entries of the shape and nothing else (`ChainIs`,
    `EntriesAre`, `ObjectsAlone`) and, as long as no call was cut, all of them
    (`ChainHas`, `EntriesHave`, and `ObjectsAll` level by level of the tree). A
    chain is never longer than the number of clusters by a pigeonhole argument
    (`ChainsAreShort`).
  Assumed: `FatAssumption` (there are clusters, and sectors with room for entries),
  and `FilesAssumption` (images are intact, paths have no NUL in them, buffers have
  room for one).

Only model-checked: the rest of `Files` (`RefusedOnlyWhenFull`, `DeadOnlyWithoutShell`,
`OldEmptyOrNew` and the refinement of FileStore relate contents and names, which
recursive functions put together, to the paths of `Named`), and all liveness
(`BlockingRead`, `CallsReturn`, `TransfersReturn`), since liveness under fairness is
out of the prover's reach.

## 5. Not modelled, and the plan

Not modelled:

* Descriptor table encodings, `context_switch`, `return_to_usermode`,
  `vmm_create_user_directory`, `unload_elf` and the PIT driver: constants, no caller,
  or not compiled. (`unload_elf` looks pages up in a directory of its own, since
  `vmm.h` defines `page_directory` as `static`, and would unmap none.) The VGA text console: boot messages.
* Of FatFs, what the kernel does not call (deleting, renaming, seeking while
  writing, appending, formatting, volume information) and what `ffconf.h` compiles
  out (long names, exFAT, locking, relative paths): more than half of `ff.c`. Also
  FAT12 and FAT16, code pages, and the replacement of a leading 0xE5 in a name.
* Single pixels, images, numbers and colours on the terminal (`console_changetheme`
  makes both pen and paper white before it clears; the theme's colours are read by
  the programs). The bytes of a font.
* `echo` and `clear` of the shell, `sfetch`, the picture viewer: they print.
  `cat` ends its buffer at the index that the read returned, -1 included.
* A write-back cache in the drive, and interrupts of the drive (masked).

Next, in this order:

1. `RefusedOnlyWhenFull` along the same shapes: when `create_chain` or `dir_alloc`
   refuses, its walk has seen every cluster, or every entry of the directory.
2. Clusters of several sectors, and the power cut inside a growing directory with
   what it leaves as entries.
