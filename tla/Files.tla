-------------------------------- MODULE Files --------------------------------
(***************************************************************************)
(* Programs and their files: the system calls for files (syscall.c), the   *)
(* file traffic of the loader (elf32/elf32.c), and the programs that use   *)
(* them - the shell (user_programs/shell.c), ls, cat, the editor.  One     *)
(* program runs at a time, and the kernel never takes the processor from a *)
(* call, so a call is one step; but the power can fail between any two     *)
(* sectors that a call writes.                                             *)
(***************************************************************************)
EXTENDS FatShape, Integers, Sequences, FiniteSets, TLC

CONSTANTS
  Images,         \* the disks the machine may be switched on with
  CdPaths,        \* what is typed after "cd "
  MkNames,        \* what is typed after "mkfile "
  RunNames,       \* what is typed as the name of a program
  OpenPaths,      \* paths that programs save to and read
  Texts,          \* what is saved
  BufSizes,       \* sizes of the programs' buffers
  ShellPath,      \* "bin/shell.elf"
  EHDR, PHDR,     \* bytes of the ELF header and of a program header
  Notes,          \* program headers that are not of type PT_LOAD
  Value,          \* the numbers that bytes of a program stand for; 0 for the others
  Named, NoName,  \* what a path is the name of: for the properties only
  Dirs,           \* the names of the directories
  MAX_SAVES,      \* bound: files saved or made in a behaviour
  MAX_CUTS        \* bound: power cuts in a behaviour

VARIABLES
  vol,            \* fat_fs (kernel.c) and the disk under it
  files,          \* what is on that disk: from names to contents (FilesOn(vol))
  kcwd,           \* cwd (syscall.c)
  cwd,            \* cwd (shell.c), of the shell that runs or ran last
  task,           \* "shell", "program", or "dead": a jump to address 0
  reply,          \* <<call, path, succeeded, data>>: what the last call answered
  torn,           \* has the power been cut inside a call
  saves, cuts     \* counters for the bounds

(* Every image is an intact volume, no path holds the character that ends one,
   a buffer has room for the NUL at least.                                   *)
ASSUME FilesAssumption ==
    /\ \A disk \in Images : IntactImage(disk)
    /\ \A p \in CdPaths \cup MkNames \cup RunNames \cup OpenPaths \cup {ShellPath} : Plain(p)
    /\ \A t \in Texts : t \in Seq(Chars(t))
    /\ BufSizes \subseteq Nat \ {0}
    /\ EHDR \in Nat /\ PHDR \in Nat /\ \A b \in DOMAIN Value : Value[b] \in Nat

vars == <<vol, files, kcwd, cwd, task, reply, torn, saves, cuts>>

-----------------------------------------------------------------------------
(* The system calls; the volume they leave, and what they return.           *)

\* SYSCALL_WRITEFILE
WriteFileCall(v, path, data) ==
    LET Written(w) == [v   |-> FClose(w.v, w.fp),
                       eax |-> IF w.res # "OK" \/ w.bw # Len(data) THEN 1 ELSE 0]
        Opened(o) == IF o.res = "OK" THEN Written(FWrite(o.v, o.fp, data))
                     ELSE [v |-> o.v, eax |-> 1]
    IN  Opened(FOpen(v, path, {"W", "CREATE"}))

\* Mutant: the whole buffer is read into, and the NUL put behind it.
ReadFileFull(v, path, bufsize) ==
    LET Read(r)   == [v |-> FClose(r.v, r.fp), ok |-> r.res = "OK",
                      data |-> IF r.res = "OK" THEN r.data ELSE <<>>]
        Opened(o) == IF o.res = "OK" THEN Read(FRead(o.v, o.fp, bufsize))
                     ELSE [v |-> o.v, ok |-> FALSE, data |-> <<>>]
    IN  Opened(FOpen(v, path, {"R"}))

\* syscall_read_file: one byte of the buffer is for the NUL
ReadFileCall(v, path, bufsize) ==
    LET Read(r)   == [v |-> FClose(r.v, r.fp), ok |-> r.res = "OK",
                      data |-> IF r.res = "OK" THEN r.data ELSE <<>>]
        Opened(o) == IF o.res = "OK" THEN Read(FRead(o.v, o.fp, bufsize - 1))
                     ELSE [v |-> o.v, ok |-> FALSE, data |-> <<>>]
    IN  Opened(FOpen(v, path, {"R"}))

\* SYSCALL_CHECKDIR
CheckDirCall(v, path) ==
    LET Opened(o) == [v |-> o.v, eax |-> IF o.res = "OK" THEN 1 ELSE 0]
    IN  Opened(FOpenDir(v, path))

\* f_readdir, unless it has failed or there are no more entries.
Ended(r)      == r.res # "OK" \/ r.fno.fname = <<>>
ReadAgain(r)  == IF Ended(r) THEN r ELSE FReadDir(r.v, r.d)

\* f_readdir until the entry of that index is read, or none is.
ReadUpTo(v, d, index) ==
    LET run[i \in 0..index] == IF i = 0 THEN FReadDir(v, d) ELSE ReadAgain(run[i - 1])
        Entry(fno) == [name |-> fno.fname, is_dir |-> "DIR" \in fno.fattrib]
        Result(r)  == IF Ended(r) THEN [v |-> r.v, eax |-> 1]
                      ELSE [v |-> r.v, eax |-> 0, entry |-> Entry(r.fno)]
    IN  Result(run[index])

ReadOpened(o, index) == IF o.res = "OK" THEN ReadUpTo(o.v, o.d, index) ELSE [v |-> o.v, eax |-> 1]

\* SYSCALL_READDIR: the directory is opened anew and read up to the index
ReadDirCall(v, path, index) == ReadOpened(FOpenDir(v, path), index)

\* One call of ls, for the entry i.
ListRound(s, path, i) ==
    LET Listed(r) == IF r.eax = 1 THEN [s EXCEPT !.v = r.v, !.more = FALSE]
                     ELSE [s EXCEPT !.v = r.v, !.listed = Append(@, r.entry)]
    IN  IF s.more THEN Listed(ReadDirCall(s.v, path, i)) ELSE s

\* ls: one call for every entry, until a call fails, as it does past MAX_DIR.
ListLoop(v, path) ==
    LET run[i \in 0..MAX_DIR + 1] == IF i = 0 THEN [v |-> v, listed |-> <<>>, more |-> TRUE]
                                     ELSE ListRound(run[i - 1], path, i - 1)
    IN  run[MAX_DIR + 1]

Number(b) == IF b \in DOMAIN Value THEN Value[b] ELSE 0

\* Program header i, and its segment, if it has one to load.
SegmentLoad(s, i) ==
    LET ReadAt(l, size) == FRead(l.v, l.fp, size)
        Loaded(r)     == [s EXCEPT !.v = r.v, !.fp = r.fp, !.image = Append(@, r.data)]
        HeaderRead(r) == IF r.res # "OK" \/ Len(r.data) # PHDR
                         THEN [s EXCEPT !.v = r.v, !.image = <<>>, !.more = FALSE]
                         ELSE IF r.data \in Notes
                         THEN [s EXCEPT !.v = r.v, !.fp = r.fp, !.image = Append(@, <<>>)]
                         ELSE Loaded(ReadAt(FLseek(r.v, r.fp, Number(r.data[1])), Number(r.data[2])))
    IN  IF s.more THEN HeaderRead(ReadAt(FLseek(s.v, s.fp, EHDR + i * PHDR), PHDR)) ELSE s

\* The loop over the n program headers.
LoadSegments(v, fp, n) ==
    LET run[i \in 0..n] == IF i = 0 THEN [v |-> v, fp |-> fp, image |-> <<>>, more |-> TRUE]
                           ELSE SegmentLoad(run[i - 1], i - 1)
    IN  run[n]

(* load_elf: the segments as they are read.  A program is a header <<"E", the
   number of program headers>>, the program headers <<offset, size>> (e_phoff is
   EHDR), and the rest.  No segments: load_elf returns 0.                    *)
LoadElf(v, path) ==
    LET Nothing(w)       == [v |-> w, image |-> <<>>]
        HeaderRead(h) == IF h.res # "OK" \/ Len(h.data) # EHDR THEN Nothing(h.v)
                         ELSE IF h.data[1] # "E" THEN Nothing(h.v)
                         ELSE LoadSegments(h.v, h.fp, Number(h.data[2]))
        Opened(o) == IF o.res = "OK" THEN HeaderRead(FRead(o.v, o.fp, EHDR)) ELSE Nothing(o.v)
    IN  Opened(FOpen(v, path, {"R"}))

-----------------------------------------------------------------------------
(* What is on a disk, read without any of the operators above but the names
   and the places of sectors.                                               *)

Link(v, c)   == v.disk[FatSector(v, c)][c % EPS]
Mirror(v, c) == v.disk[FatSector(v, c) + FSize][c % EPS]

Longer(v, s) ==
    IF s # <<>> /\ Link(v, s[Len(s)]) \in Clusters THEN Append(s, Link(v, s[Len(s)])) ELSE s

\* The clusters of a chain; more than N_FATENT of them if it does not end.
Chain(v, c) ==
    LET run[i \in 0..N_FATENT] == IF i = 0 THEN (IF c \in Clusters THEN <<c>> ELSE <<>>)
                                  ELSE Longer(v, run[i - 1])
    IN  run[N_FATENT]

BytesOf(v, e) ==
    LET chain == Chain(v, e.clust)
    IN  [i \in 1..Least(e.size, Len(chain) * SS) |->
            v.disk[Sector(v, chain[((i - 1) \div SS) + 1])][((i - 1) % SS) + 1]]

\* The entries of a directory, up to the first that was never used.
EntriesOf(v, dir) ==
    LET chain    == Chain(v, dir)
        At(i)    == v.disk[Sector(v, chain[((i - 1) \div DPS) + 1])][(i - 1) % DPS]
        Used     == {i \in 1..Len(chain) * DPS : \A k \in 1..i : ~IsEnd(At(k))}
    IN  {e \in {At(i) : i \in Used} : ~IsFree(e)}

\* The files and directories of a directory, with their names.
ObjectsIn(v, dir, at) ==
    {[name |-> Append(at, ListedName(e.name)), entry |-> e] :
        e \in {x \in EntriesOf(v, dir) : x.name[1] # "." /\ "VOL" \notin x.attr}}

Below(v, objects) ==
    UNION {ObjectsIn(v, o.entry.clust, o.name) : o \in {x \in objects : "DIR" \in x.entry.attr}}

With(s, objects) == [all |-> s.all \cup objects, last |-> objects]
Deeper(v, s)     == IF s.last = {} THEN s ELSE With(s, Below(v, s.last))

\* All of them, level by level of the tree.
ObjectsOn(v) ==
    LET run[i \in 0..N_FATENT] == IF i = 0 THEN With([all |-> {}], ObjectsIn(v, ROOT, <<>>))
                                  ELSE Deeper(v, run[i - 1])
    IN  run[N_FATENT].all

FileObjects(v) == {o \in ObjectsOn(v) : "DIR" \notin o.entry.attr}

FilesOn(v) ==
    LET Contents(objects) == [n \in {o.name : o \in objects} |->
                                 BytesOf(v, (CHOOSE o \in objects : o.name = n).entry)]
    IN  Contents(FileObjects(v))

Heads(v) == {ROOT} \cup ({o.entry.clust : o \in ObjectsOn(v)} \ {0})
Owned(v) == UNION {{Chain(v, c)[i] : i \in DOMAIN Chain(v, c)} : c \in Heads(v)}
FreeOn(v) == {c \in Clusters : Link(v, c) = 0}

\* What the loader should make of a content.
Segments(c) ==
    LET n      == Number(c[2])
        At(i)  == EHDR + i * PHDR
        Seg(i) == IF SubSeq(c, At(i) + 1, At(i) + PHDR) \in Notes THEN <<>>
                  ELSE SubSeq(c, Number(c[At(i) + 1]) + 1,
                              Least(Len(c), Number(c[At(i) + 1]) + Number(c[At(i) + 2])))
    IN  IF Len(c) < EHDR \/ c[1] # "E" \/ Len(c) < At(n) THEN <<>>
        ELSE [i \in 1..n |-> Seg(i - 1)]

\* The directory a path lies in, by its name.
ParentCluster(path) ==
    LET dir == SubSeq(Named[path], 1, Len(Named[path]) - 1)
    IN  IF dir = <<>> THEN ROOT
        ELSE (CHOOSE o \in ObjectsOn(vol) : o.name = dir).entry.clust

MayBeSaved(path) ==
    LET n == Named[path]
    IN  n # NoName /\ n \notin Dirs /\ SubSeq(n, 1, Len(n) - 1) \in Dirs

-----------------------------------------------------------------------------
(* Starting: the volume is mounted, and init runs the shell in "/".         *)

Started(disk) ==
    LET Result(l) == [v |-> l.v, task |-> IF l.image = <<>> THEN "dead" ELSE "shell"]
    IN  Result(LoadElf(FMount(disk).v, <<"/">> \o ShellPath))

\* What every step of a call does to the volume, and to files.
Answered(v) ==
    /\ vol' = [v EXCEPT !.log = <<>>]
    /\ files' = IF v.log = <<>> THEN files ELSE FilesOn(v)

Init ==
    \E disk \in Images :
        LET Booted(s) == /\ vol = [s.v EXCEPT !.log = <<>>]
                         /\ files = FilesOn(s.v)
                         /\ task = s.task
        IN  /\ Booted(Started(disk))
            /\ kcwd = <<"/">> /\ cwd = <<"/">>
            /\ reply = <<"boot", <<>>, TRUE, <<>>>>
            /\ saves = 0 /\ cuts = 0 /\ torn = FALSE

(* A name typed in the shell as the path it is used as.  Of an empty cwd the
   shell reads the byte before the array, which may be anything.            *)
FullPaths(name) ==
    LET relative == {cwd \o <<"/">> \o name, cwd \o name}
    IN  IF name # <<>> /\ name[1] = "/" THEN {name}
        ELSE IF cwd = <<>> THEN relative
        ELSE IF cwd[Len(cwd)] # "/" THEN {cwd \o <<"/">> \o name} ELSE {cwd \o name}

Cd(path) ==
    LET Checked(c) == /\ Answered(c.v)
                      /\ cwd' = IF c.eax = 1 THEN path ELSE cwd
                      /\ reply' = <<"check", path, c.eax = 1, <<>>>>
    IN  /\ task = "shell"
        /\ Checked(CheckDirCall(vol, path))
        /\ UNCHANGED <<kcwd, task, torn, saves, cuts>>

\* A save of data to path: by mkfile of the shell, or by a program.
Saving(path, data) ==
    LET Saved(w) == Answered(w.v) /\ reply' = <<"save", path, w.eax = 0, <<>>>>
    IN  /\ saves < MAX_SAVES
        /\ saves' = saves + 1
        /\ Saved(WriteFileCall(vol, path, data))
        /\ UNCHANGED <<kcwd, cwd, task, torn, cuts>>

MkFile(name) ==
    /\ task = "shell"
    /\ \E path \in FullPaths(name) : Saving(path, <<>>)

SaveFile(path, data) ==
    /\ task = "program"
    /\ Saving(path, data)

ReadFile(path, bufsize) ==
    LET Read(r) == Answered(r.v) /\ reply' = <<"read", path, r.ok, r.data>>
    IN  /\ task = "program"
        /\ Read(ReadFileCall(vol, path, bufsize))
        /\ UNCHANGED <<kcwd, cwd, task, torn, saves, cuts>>

\* ls lists the directory SYSCALL_RECOVERCWD gives it.
ListDir ==
    LET Listed(l) == Answered(l.v) /\ reply' = <<"list", kcwd, TRUE, l.listed>>
    IN  /\ task = "program"
        /\ Listed(ListLoop(vol, kcwd))
        /\ UNCHANGED <<kcwd, cwd, task, torn, saves, cuts>>

\* The shell's last resort for a line, and SYSCALL_EXEC.
Exec(name) ==
    LET Ran(path, l) == /\ Answered(l.v)
                        /\ task' = IF l.image # <<>> THEN "program" ELSE task
                        /\ reply' = <<"run", path, l.image # <<>>, l.image>>
    IN  /\ task = "shell"
        /\ kcwd' = cwd
        /\ \E path \in FullPaths(name) : Ran(path, LoadElf(vol, path))
        /\ UNCHANGED <<cwd, torn, saves, cuts>>

\* The jump to what load_elf returned: _start of the shell, or address 0.
ToShell(l) ==
    /\ task \in {"shell", "program"}
    /\ Answered(l.v)
    /\ IF l.image # <<>> THEN task' = "shell" /\ cwd' = kcwd
                         ELSE task' = "dead" /\ UNCHANGED cwd
    /\ reply' = <<"run", ShellPath, l.image # <<>>, l.image>>
    /\ UNCHANGED <<kcwd, torn, saves, cuts>>

\* Mutant: the shell is looked for in the directory of the program.
ExitInCwd == ToShell(LoadElf(vol, kcwd \o <<"/">> \o ShellPath))

\* SYSCALL_EXIT
Exit == ToShell(LoadElf(vol, ShellPath))

(* The machine is switched off and on, between two calls.                   *)
Restart(disk) ==
    LET Booted(s) == /\ vol' = [s.v EXCEPT !.log = <<>>]
                     /\ files' = FilesOn(s.v)
                     /\ task' = s.task
    IN  /\ Booted(Started(disk))
        /\ kcwd' = <<"/">> /\ cwd' = <<"/">>
        /\ reply' = <<"boot", <<>>, TRUE, <<>>>>

Reboot ==
    /\ cuts < MAX_CUTS
    /\ cuts' = cuts + 1
    /\ Restart(vol.disk)
    /\ UNCHANGED <<torn, saves>>

(* The power fails while path is saved, after n of the sectors are written.
   Not covered: a cut after a cluster that a directory grows by is linked
   (ff.c:1686) and before it is cleared (ff.c:1702; see DirClear).          *)
PowerCut(path, data) ==
    /\ cuts < MAX_CUTS /\ saves < MAX_SAVES
    /\ cuts' = cuts + 1 /\ saves' = saves + 1 /\ torn' = TRUE
    /\ \E log \in {WriteFileCall(vol, path, data).v.log} : \E n \in 1..Len(log) - 1 :
          /\ \A i \in n + 1..n + 2 : i \in 1..Len(log) => ~log[i].clears
          /\ Restart(CutDisk(vol.disk, log, n))

CutMkFile(name)      == task = "shell" /\ \E path \in FullPaths(name) : PowerCut(path, <<>>)
CutSave(path, data)  == task = "program" /\ PowerCut(path, data)

Next ==
    \/ \E path \in CdPaths : Cd(path)
    \/ \E name \in MkNames : MkFile(name) \/ CutMkFile(name)
    \/ \E name \in RunNames : Exec(name)
    \/ \E path \in OpenPaths, data \in Texts : SaveFile(path, data) \/ CutSave(path, data)
    \/ \E path \in OpenPaths, size \in BufSizes : ReadFile(path, size)
    \/ ListDir \/ Exit \/ Reboot

Spec == Init /\ [][Next]_vars
-----------------------------------------------------------------------------
(* No cluster belongs to two files or directories: every chain ends, has as many
   clusters as its file's size needs, and no two chains meet.  That holds between
   calls and after a power cut at any sector of a save but one: the cluster that
   a directory grows by is linked (ff.c:1686) before it is cleared (ff.c:1702),
   and a cut in between, which PowerCut leaves out, makes entries of what was in
   it, whose chains may be anything (the order of writes in f_open's truncation,
   remove_chain, create_chain and f_sync).                                    *)
NoSharing ==
    LET objects == ObjectsOn(vol)
        chains  == {Chain(vol, c) : c \in Heads(vol)}
    IN  /\ \A s \in chains : Link(vol, s[Len(s)]) >= N_FATENT
        /\ \A s, t \in chains : \A i \in DOMAIN s, k \in DOMAIN t : s[i] = t[k] => s = t /\ i = k
        /\ \A o, p \in objects : o.entry.clust = p.entry.clust /\ o.entry.clust # 0 => o = p
        /\ \A o \in objects : /\ o.entry.clust # ROOT
                               /\ "DIR" \notin o.entry.attr =>
                                     Len(Chain(vol, o.entry.clust)) = (o.entry.size + SS - 1) \div SS

(* As long as no call was cut, no cluster is lost: every one that is marked in
   use is in the chain of a file or a directory (f_open's truncation and
   remove_chain, dir_register, create_chain).                                 *)
NothingLost == ~torn => Clusters \ FreeOn(vol) = Owned(vol)

(* As long as no call was cut, what is kept twice agrees: the two tables, and
   the number of free clusters in memory, in FSInfo and in the table
   (sync_window, put_fat, create_chain, remove_chain, sync_fs).               *)
CopiesAgree ==
    ~torn => /\ \A c \in Clusters : Mirror(vol, c) = Link(vol, c)
             /\ vol.free_clst = Cardinality(FreeOn(vol))
             /\ vol.disk[vol.volbase + 1].free = vol.free_clst

(* Nothing waits in the window or in memory for a later call, since nothing
   would write it: the system is switched off without a shutdown.  And between
   two calls the window shows the sector it says it shows.                   *)
NothingUnsaved ==
    ~vol.wflag /\ vol.fsi_flag % 2 = 0 /\ vol.win = vol.disk[vol.winsect]

(* A save under a proper name is refused only when no cluster is free, or the
   directory is full (dir_alloc); wherever the search for a cluster began.    *)
RefusedOnlyWhenFull ==
    (reply[1] = "save" /\ ~reply[3] /\ ~torn /\ MayBeSaved(reply[2]))
        => \/ FreeOn(vol) = {}
           \/ Cardinality(EntriesOf(vol, ParentCluster(reply[2]))) >= MAX_DIR

(* The jump to address 0 (SYSCALL_EXIT of what load_elf returned, and boot)
   happens only when the shell's file is no program any more.                 *)
DeadOnlyWithoutShell ==
    task = "dead" => Segments(files[Named[ShellPath]]) = <<>>

\* What the task may save, and to which paths.
Savable == IF task = "shell" THEN (UNION {FullPaths(name) : name \in MkNames}) \X {<<>>}
           ELSE OpenPaths \X Texts

(* A save that the power cuts leaves its file as it was, or empty, or as the
   whole call would have left it, and leaves every other file alone: the entry
   is cleared, then the chain freed, then the content written, and only then
   the entry set (f_open, f_write, f_sync).  Without the cuts that PowerCut
   leaves out, which may make files of what was in a directory's new cluster. *)
OldEmptyOrNew ==
    [][(saves' > saves /\ cuts' > cuts) =>
          \A save \in Savable : PowerCut(save[1], save[2]) =>
             LET path == save[1]
                 new  == FilesOn(WriteFileCall(vol, path, save[2]).v)
             IN  /\ MayBeSaved(path)
                 /\ files' \in {files, new}
                              \cup {[n \in DOMAIN new |-> IF n = Named[path] THEN <<>> ELSE files[n]]}
      ]_vars

(* The calls do what FileStore promises, over every disk they leave behind:
   a save changes its file alone and as a whole, what is read and loaded is
   what was saved, listings are complete, and a directory found once is found
   again.                                                                     *)
FS == INSTANCE FileStore WITH Loaded <- Segments, Texts <- Texts \cup {<<>>}
ImplementsFileStore == FS!Spec
=============================================================================
