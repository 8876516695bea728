------------------------------ MODULE FatVolume ------------------------------
(***************************************************************************)
(* The lower half of FatFs (fatfs/ff.c, fatfs/diskio.c): the one-sector    *)
(* window over the disk, the file allocation table behind it, and the      *)
(* mounting of a volume.                                                   *)
(*                                                                         *)
(* A volume is a record: the disk, as a function of sector numbers; the    *)
(* fields of FATFS that change; and log, the sectors written since the     *)
(* call began, in their order (a power cut loses a suffix of them).  A     *)
(* function of the code is an operator from a volume to a volume, or to a  *)
(* record of the volume v and the result.  The disk layer always answers   *)
(* RES_OK (diskio.c), so no branch for FR_DISK_ERR is here.                *)
(*                                                                         *)
(* As on the disk image of the repository, the volume is FAT32 with two    *)
(* tables and one sector per cluster (csize = 1).                          *)
(***************************************************************************)
EXTENDS ShortNames
LOCAL INSTANCE Integers
LOCAL INSTANCE Sequences

CONSTANTS
  N_FATENT,   \* fs->n_fatent: clusters 2 .. N_FATENT - 1 hold data
  EPS,        \* entries of the table in a sector (128)
  DPS,        \* directory entries in a sector (16)
  ROOT        \* fs->dirbase: the first cluster of the root directory

EOC     == N_FATENT       \* 0x0FFFFFFF as a link: no cluster number
UNKNOWN == N_FATENT       \* 0xFFFFFFFF as a count or a hint: out of range
NOWHERE == -1             \* (LBA_t)0 - 1: the window shows no sector

FSize    == (N_FATENT + EPS - 1) \div EPS
FatBase  == 2             \* after the VBR and FSInfo; the rest of the reserved sectors is left out
DataBase == FatBase + 2 * FSize

(* A directory entry, and the sector of entries that memset leaves.         *)
NoEntry   == [name |-> [i \in 1..BODY + EXT |-> NUL], attr |-> {}, clust |-> 0, size |-> 0]
NoEntries == [i \in 0..DPS - 1 |-> NoEntry]

-----------------------------------------------------------------------------
(* The disk and the window.                                                 *)

\* disk_write, one sector; clears tells the writes of dir_clear
Write(v, sect, data, clears) ==
    [v EXCEPT !.disk[sect] = data,
              !.log = Append(@, [sect |-> sect, data |-> data, clears |-> clears])]

DiskWrite(v, sect, data) == Write(v, sect, data, FALSE)

(* The disk after the first n sectors of a log are written, each as a whole
   or not at all: what a power cut leaves.                                  *)
CutDisk(disk, log, n) ==
    LET Writes(s) == {i \in 1..n : log[i].sect = s}
        Last(s)   == CHOOSE i \in Writes(s) : \A k \in Writes(s) : k <= i
    IN  [s \in DOMAIN disk |-> IF Writes(s) = {} THEN disk[s] ELSE log[Last(s)].data]

InFirstFat(v, sect) == sect - (v.volbase + FatBase) \in 0..FSize - 1

SyncWindow(v) ==
    LET Mirrored(w) == IF InFirstFat(v, v.winsect)
                       THEN DiskWrite(w, v.winsect + FSize, v.win) ELSE w
    IN  IF v.wflag THEN Mirrored(DiskWrite([v EXCEPT !.wflag = FALSE], v.winsect, v.win)) ELSE v

MoveWindow(v, sect) ==
    LET Moved(w) == [w EXCEPT !.win = w.disk[sect], !.winsect = sect]
    IN  IF sect = v.winsect THEN v ELSE Moved(SyncWindow(v))

\* Mutant: the changed sector stays in the window.
SyncFsLazy(v) ==
    IF v.fsi_flag # 1 THEN v
    ELSE LET info == [lead |-> TRUE, free |-> v.free_clst, next |-> v.last_clst]
             w    == [SyncWindow(v) EXCEPT !.fsi_flag = 0, !.win = info, !.winsect = v.volbase + 1]
         IN  DiskWrite(w, w.winsect, info)

\* sync_fs: the window, then FSInfo when the allocation has changed
SyncFs(v) ==
    IF v.fsi_flag # 1 THEN SyncWindow(v)
    ELSE LET info == [lead |-> TRUE, free |-> v.free_clst, next |-> v.last_clst]
             w    == [SyncWindow(v) EXCEPT !.fsi_flag = 0, !.win = info, !.winsect = v.volbase + 1]
         IN  DiskWrite(w, w.winsect, info)

\* clst2sect: 0 for what is no cluster
Sector(v, clst) == IF clst \in 2..N_FATENT - 1 THEN v.volbase + DataBase + clst - 2 ELSE 0

-----------------------------------------------------------------------------
(* The allocation table.                                                    *)

FatSector(v, clst) == v.volbase + FatBase + clst \div EPS

GetFat(v, clst) ==
    LET Entry(w) == [v |-> w, val |-> w.win[clst % EPS]]
    IN  IF clst \in 2..N_FATENT - 1 THEN Entry(MoveWindow(v, FatSector(v, clst)))
        ELSE [v |-> v, val |-> 1]

PutFat(v, clst, val) ==
    IF clst \notin 2..N_FATENT - 1 THEN v
    ELSE [MoveWindow(v, FatSector(v, clst)) EXCEPT !.win[clst % EPS] = val, !.wflag = TRUE]

\* fs->fsi_flag |= 1
Touched(flag) == IF flag % 2 = 1 THEN flag ELSE flag + 1

Valid(clst) == clst \in 2..N_FATENT - 1

\* Mutant: a freed cluster is not counted.
FreeRoundUncounted(s) ==
    LET Unlinked(g) ==
            CASE g.val = 0 -> [s EXCEPT !.v = g.v, !.more = FALSE]
              [] g.val = 1 -> [s EXCEPT !.v = g.v, !.more = FALSE, !.ok = FALSE]
              [] OTHER     -> [s EXCEPT !.v = PutFat(g.v, s.clst, 0), !.clst = g.val,
                                        !.more = g.val < N_FATENT]
    IN  IF s.more THEN Unlinked(GetFat(s.v, s.clst)) ELSE s

\* One pass of the loop of remove_chain: s.clst is freed, and s.v the volume.
FreeRound(s) ==
    LET Counted(p) == IF p.free_clst < N_FATENT - 2
                      THEN [p EXCEPT !.free_clst = @ + 1, !.fsi_flag = Touched(@)] ELSE p
        Unlinked(g) ==
            CASE g.val = 0 -> [s EXCEPT !.v = g.v, !.more = FALSE]
              [] g.val = 1 -> [s EXCEPT !.v = g.v, !.more = FALSE, !.ok = FALSE]
              [] OTHER     -> [s EXCEPT !.v = Counted(PutFat(g.v, s.clst, 0)), !.clst = g.val,
                                        !.more = g.val < N_FATENT]
    IN  IF s.more THEN Unlinked(GetFat(s.v, s.clst)) ELSE s

(* remove_chain(obj, clst, 0).  ok = FALSE is FR_INT_ERR.  A pass frees a
   cluster, so there are never more than N_FATENT.                          *)
RemoveChain(v, clst) ==
    LET run[i \in 0..N_FATENT] ==
            IF i = 0 THEN [v |-> v, clst |-> clst, ok |-> Valid(clst), more |-> Valid(clst)]
            ELSE FreeRound(run[i - 1])
    IN  run[N_FATENT]

\* Mutant: the search does not begin again at cluster 2.
SearchRoundNoWrap(s, scl) ==
    LET Tried(g) == [v |-> g.v, c |-> s.c + 1, val |-> IF g.val = 0 THEN s.c + 1 ELSE 0,
                     more |-> g.val # 0]
    IN  IF ~s.more THEN s
        ELSE IF s.c + 1 >= N_FATENT THEN [s EXCEPT !.more = FALSE]
        ELSE Tried(GetFat(s.v, s.c + 1))

\* One pass of the search of create_chain: the cluster after s.c is looked at.
SearchRound(s, scl) ==
    LET wraps    == s.c + 1 >= N_FATENT
        c        == IF wraps THEN 2 ELSE s.c + 1
        Tried(g) == [v |-> g.v, c |-> c,
                     val  |-> IF g.val = 0 THEN c ELSE IF g.val = 1 THEN 1 ELSE 0,
                     more |-> g.val > 1 /\ c # scl]
    IN  IF ~s.more THEN s
        ELSE IF wraps /\ c > scl THEN [s EXCEPT !.more = FALSE]
        ELSE Tried(GetFat(s.v, c))

\* The search, after scl and at most once around: val = 0 if all are in use.
FindFree(v, scl) ==
    LET run[i \in 0..N_FATENT] ==
            IF i = 0 THEN [v |-> v, c |-> scl, val |-> 0, more |-> TRUE]
            ELSE SearchRound(run[i - 1], scl)
    IN  run[N_FATENT]

\* Where create_chain puts the new cluster: next to the last one, else found.
NewCluster(v, clst) ==
    LET next  == IF clst + 1 >= N_FATENT THEN 2 ELSE clst + 1
        scl   == IF clst = 0
                 THEN (IF v.last_clst = 0 \/ v.last_clst >= N_FATENT THEN 1 ELSE v.last_clst)
                 ELSE (IF Valid(v.last_clst) THEN v.last_clst ELSE clst)
        Tried(g) == CASE g.val = 0 -> [v |-> g.v, val |-> next]
                      [] g.val = 1 -> g
                      [] OTHER     -> FindFree(g.v, scl)
    IN  IF clst = 0 THEN FindFree(v, scl) ELSE Tried(GetFat(v, next))

\* Mutant: a cluster is not marked as the end of its chain when it is linked.
CreateChainUnmarked(v, clst) ==
    LET s == IF clst = 0 THEN [v |-> v, val |-> EOC] ELSE GetFat(v, clst)
        Added(n) == IF n.val < 2 THEN n
                    ELSE [n EXCEPT !.v = [(IF clst = 0 THEN PutFat(@, n.val, EOC)
                                                       ELSE PutFat(@, clst, n.val))
                                             EXCEPT !.last_clst = n.val]]
    IN  IF s.val < 2 THEN [s EXCEPT !.val = 1]
        ELSE IF s.val < N_FATENT THEN s
        ELSE IF s.v.free_clst = 0 THEN [s EXCEPT !.val = 0]
        ELSE Added(NewCluster(s.v, clst))

(* create_chain: the cluster after clst, a new one where the chain ends and
   the first one of a new chain if clst is 0.  0: none is free; 1: an error. *)
CreateChain(v, clst) ==
    LET s == IF clst = 0 THEN [v |-> v, val |-> EOC] ELSE GetFat(v, clst)
        Counted(q)   == IF q.free_clst \in 1..N_FATENT - 2
                        THEN [q EXCEPT !.free_clst = @ - 1, !.fsi_flag = Touched(@)] ELSE q
        Linked(m, n) == [(IF clst = 0 THEN m ELSE PutFat(m, clst, n)) EXCEPT !.last_clst = n]
        Added(n) == IF n.val < 2 THEN n
                    ELSE [n EXCEPT !.v = Counted(Linked(PutFat(n.v, n.val, EOC), n.val))]
    IN  IF s.val < 2 THEN [s EXCEPT !.val = 1]
        ELSE IF s.val < N_FATENT THEN s
        ELSE IF s.v.free_clst = 0 THEN [s EXCEPT !.val = 0]
        ELSE Added(NewCluster(s.v, clst))

\* dir_clear: the window is flushed before the cluster it links is cleared
DirClear(v, clst) ==
    LET sect == Sector(v, clst)
    IN  Write([SyncWindow(v) EXCEPT !.winsect = sect, !.win = NoEntries], sect, NoEntries, TRUE)

-----------------------------------------------------------------------------
(* Mounting.  Sector 0 is a FAT boot record [vbr |-> TRUE, ...], a partition
   table [vbr |-> FALSE, sign |-> TRUE, parts |-> first sectors], or neither. *)

\* check_fs: 0 a FAT volume, 2 a boot sector of another kind, 3 none
CheckFs(v, sect) ==
    LET Kind(w) == [v |-> w, fmt |-> IF w.win.vbr THEN 0 ELSE IF w.win.sign THEN 2 ELSE 3]
    IN  Kind(MoveWindow([v EXCEPT !.wflag = FALSE, !.winsect = NOWHERE], sect))

(* The partitions in their order, until one is a FAT volume or the last has been
   looked at.  A fmt of 2 is the same as one of 3 to mount_volume.           *)
TryParts(v, parts) ==
    LET tried == {i \in 1..Len(parts) : parts[i] # 0}
        fat   == {i \in tried : CheckFs(v, parts[i]).fmt < 2}
        first == CHOOSE i \in fat : \A k \in fat : i <= k
        last  == CHOOSE i \in tried : \A k \in tried : k <= i
    IN  IF tried = {} THEN [v |-> v, fmt |-> 3]
        ELSE CheckFs(v, parts[IF fat = {} THEN last ELSE first])

\* find_volume: the whole disk, else the first partition that is a FAT volume
FindVolume(v) ==
    LET Checked(c) == IF c.fmt # 2 THEN c ELSE TryParts(c.v, c.v.win.parts)
    IN  Checked(CheckFs(v, 0))

\* The end of mount_volume: FSInfo is believed when its signatures are there.
LoadFSInfo(v) ==
    LET w == MoveWindow(v, v.volbase + 1)
        u == [w EXCEPT !.fsi_flag = 0, !.free_clst = UNKNOWN, !.last_clst = UNKNOWN]
    IN  IF w.win.lead THEN [u EXCEPT !.free_clst = w.win.free, !.last_clst = w.win.next] ELSE u

(* mount_volume: nothing to do on a mounted volume; a volume that could not
   be mounted is looked for again by every call.                            *)
MountVolume(v) ==
    LET Found(c) == IF c.fmt >= 2 THEN [v |-> c.v, res |-> "NO_FILESYSTEM"]
                    ELSE [v |-> [LoadFSInfo([c.v EXCEPT !.volbase = c.v.winsect])
                                    EXCEPT !.mounted = TRUE],
                          res |-> "OK"]
    IN  IF v.mounted THEN [v |-> v, res |-> "OK"] ELSE Found(FindVolume([v EXCEPT !.mounted = FALSE]))

\* fat_fs before it is mounted: a FATFS of zeros, and the disk under it.
Unmounted(disk) ==
    [disk |-> disk, winsect |-> 0, win |-> [vbr |-> FALSE], wflag |-> FALSE,
     volbase |-> 0, free_clst |-> 0, last_clst |-> 0, fsi_flag |-> 0,
     mounted |-> FALSE, log |-> <<>>]

\* f_mount(&fat_fs, "", 1), as the kernel boots
FMount(disk) == MountVolume(Unmounted(disk))
=============================================================================
