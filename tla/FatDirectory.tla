---------------------------- MODULE FatDirectory ----------------------------
(***************************************************************************)
(* Directories of FatFs (fatfs/ff.c): walking through a table of entries,  *)
(* finding, allocating and registering an entry, and following a path.     *)
(*                                                                         *)
(* A directory object is a record: sclust, its first cluster (0: the       *)
(* root); dptr, clust and sect, the entry it is at (sect = 0: the end);    *)
(* attr, the attributes of the last entry read; fn, last and noname, the   *)
(* segment of the path being looked for and its flags.                     *)
(***************************************************************************)
EXTENDS FatVolume
LOCAL INSTANCE Integers
LOCAL INSTANCE Sequences

CONSTANT MAX_DIR          \* entries a directory may have (MAX_DIR / SZDIRE)

\* AM_LFN: the attributes of an entry that holds a piece of a long name.
AM_LFN == {"RDO", "HID", "SYS", "VOL"}

Directory(sclust) ==
    [sclust |-> sclust, dptr |-> 0, clust |-> 0, sect |-> 0, attr |-> {},
     fn |-> <<>>, last |-> FALSE, noname |-> FALSE]

\* dp->dir: the entry in the window
EntryAt(v, d) == v.win[d.dptr % DPS]
SetEntry(v, d, e) == [v EXCEPT !.win[d.dptr % DPS] = e, !.wflag = TRUE]

\* dir_sdi(dp, 0)
DirSdi(v, d) ==
    LET clst == IF d.sclust = 0 THEN ROOT ELSE d.sclust
    IN  [d EXCEPT !.dptr = 0, !.clust = clst, !.sect = Sector(v, clst)]

(* dir_next.  A table that ends is stretched by a cluster if the caller asks
   for it; otherwise, and at MAX_DIR entries, the walk is over.             *)
DirNext(v, d, stretch) ==
    LET ofs  == d.dptr + 1
        g    == GetFat(v, d.clust)
        over == [d EXCEPT !.sect = 0]
        At(w, clst) == [v |-> w, res |-> "OK",
                        d |-> [d EXCEPT !.dptr = ofs, !.clust = clst, !.sect = Sector(w, clst)]]
        Stretched(n) == CASE n.val = 0 -> [v |-> n.v, d |-> d, res |-> "DENIED"]
                          [] n.val = 1 -> [v |-> n.v, d |-> d, res |-> "INT_ERR"]
                          [] OTHER     -> At(DirClear(n.v, n.val), n.val)
    IN  IF ofs >= MAX_DIR \/ d.sect = 0 THEN [v |-> v, d |-> over, res |-> "NO_FILE"]
        ELSE IF ofs % DPS # 0 THEN [v |-> v, d |-> [d EXCEPT !.dptr = ofs], res |-> "OK"]
        ELSE IF g.val <= 1 THEN [v |-> g.v, d |-> d, res |-> "INT_ERR"]
        ELSE IF g.val < N_FATENT THEN At(g.v, g.val)
        ELSE IF ~stretch THEN [v |-> g.v, d |-> over, res |-> "NO_FILE"]
        ELSE Stretched(CreateChain(g.v, d.clust))

IsFree(e) == e.name[1] \in {NUL, DDEM}
IsEnd(e)  == e.name[1] = NUL

\* dir_find compares the name; dir_read(dp, 0) skips what is no file or directory.
IsNamed(e, fn) == "VOL" \notin e.attr /\ e.name = fn
IsListed(e)    == /\ e.name[1] \notin {DDEM, "."}
                  /\ e.attr # AM_LFN
                  /\ e.attr \ {"ARC"} # {"VOL"}

\* What dir_alloc ("free"), dir_find ("name") and dir_read ("next") stop at.
Stops(goal, fn, e) ==
    \/ goal = "free" /\ IsFree(e)
    \/ goal = "name" /\ (IsEnd(e) \/ IsNamed(e, fn))
    \/ goal = "next" /\ (IsEnd(e) \/ IsListed(e))

\* One pass of the loop that they share; res is "GO" until it ends.
WalkRound(s, goal) ==
    LET w     == MoveWindow(s.v, s.d.sect)
        e     == EntryAt(w, s.d)
        On(n) == IF n.res = "OK" THEN [n EXCEPT !.res = "GO"] ELSE n
    IN  IF s.res # "GO" THEN s
        ELSE IF Stops(goal, s.d.fn, e)
        THEN [v |-> w, d |-> [s.d EXCEPT !.attr = e.attr], res |-> "OK"]
        ELSE On(DirNext(w, s.d, goal = "free"))

\* From the entry d is at; no directory has more than MAX_DIR entries.
Walk(v, d, goal) ==
    LET run[i \in 0..MAX_DIR] == IF i = 0 THEN [v |-> v, d |-> d, res |-> "GO"]
                                 ELSE WalkRound(run[i - 1], goal)
    IN  run[MAX_DIR]

\* dir_alloc(dp, 1)
DirAlloc(v, d) ==
    LET Denied(r) == IF r.res = "NO_FILE" THEN [r EXCEPT !.res = "DENIED"] ELSE r
        s == DirSdi(v, d)
    IN  IF s.sect = 0 THEN [v |-> v, d |-> s, res |-> "INT_ERR"]
        ELSE Denied(Walk(v, s, "free"))

\* dir_find
DirFind(v, d) ==
    LET Result(r) == IF r.res = "OK" /\ ~IsNamed(EntryAt(r.v, r.d), d.fn)
                     THEN [r EXCEPT !.res = "NO_FILE"] ELSE r
        s == DirSdi(v, d)
    IN  IF s.sect = 0 THEN [v |-> v, d |-> s, res |-> "INT_ERR"]
        ELSE Result(Walk(v, s, "name"))

\* dir_read(dp, 0): the next file or directory, from the entry d is at
DirRead(v, d) ==
    LET Result(r) == IF r.res # "OK" THEN [r EXCEPT !.d.sect = 0]
                     ELSE IF IsEnd(EntryAt(r.v, r.d))
                     THEN [r EXCEPT !.d.sect = 0, !.res = "NO_FILE"] ELSE r
    IN  IF d.sect = 0 THEN [v |-> v, d |-> d, res |-> "NO_FILE"]
        ELSE Result(Walk(v, d, "next"))

\* dir_register: an entry of the name d.fn, of size 0 and without a cluster
DirRegister(v, d) ==
    LET Entered(a) == IF a.res # "OK" THEN a
                    ELSE [a EXCEPT !.v = SetEntry(MoveWindow(a.v, a.d.sect), a.d,
                                                  [NoEntry EXCEPT !.name = d.fn])]
    IN  Entered(DirAlloc(v, d))

\* A segment n of the path is looked for, and followed if it is not the last.
FollowSegment(s, n) ==
    LET Descend(r) ==
            IF r.res = "NO_FILE" /\ ~n.last THEN [r EXCEPT !.res = "NO_PATH"]
            ELSE IF r.res # "OK" \/ n.last THEN r
            ELSE IF "DIR" \notin r.d.attr THEN [r EXCEPT !.res = "NO_PATH"]
            ELSE [r EXCEPT !.d.sclust = EntryAt(r.v, r.d).clust, !.res = "GO"]
        On(r) == [v |-> r.v, d |-> r.d, res |-> r.res, path |-> n.rest]
    IN  IF n.res # "OK" THEN [s EXCEPT !.res = n.res]
        ELSE On(Descend(DirFind(s.v, [s.d EXCEPT !.fn = n.fn, !.last = n.last])))

\* One segment of the path s.path; res is "GO" while there are more.
SegmentRound(s) == IF s.res # "GO" THEN s ELSE FollowSegment(s, CreateName(s.path))

\* A pass takes at least a character off the path.
FollowSegments(v, d, path) ==
    LET run[i \in 0..Len(path)] == IF i = 0 THEN [v |-> v, d |-> d, res |-> "GO", path |-> path]
                                   ELSE SegmentRound(run[i - 1])
        Result(s) == [v |-> s.v, d |-> s.d, res |-> s.res]
    IN  Result(run[Len(path)])

(* follow_path: from the root whether or not the path begins with a
   separator (there is no current directory, FF_FS_RPATH is 0).             *)
FollowPath(v, path) ==
    LET p == SkipSeparators(path)
        d == Directory(0)
        s == DirSdi(v, [d EXCEPT !.noname = TRUE])
    IN  IF p = <<>> THEN [v |-> v, d |-> s, res |-> IF s.sect = 0 THEN "INT_ERR" ELSE "OK"]
        ELSE FollowSegments(v, d, p)

(* mount_volume, as every call with a path begins: the drive is taken from the
   path, and its volume is mounted if need be.                              *)
Opening(v, path) ==
    LET drive      == Drive(path)
        Mounted(m) == [v |-> m.v, path |-> drive.path, res |-> m.res]
    IN  IF drive.ok THEN Mounted(MountVolume(v))
        ELSE [v |-> v, path |-> path, res |-> "INVALID_DRIVE"]

\* ... and go on: the directory object after the path was followed.
Located(m) ==
    IF m.res = "OK" THEN FollowPath(m.v, m.path)
    ELSE [v |-> m.v, d |-> Directory(0), res |-> m.res]

\* f_opendir
FOpenDir(v, path) ==
    LET Begin(f, s) == [f EXCEPT !.d = s, !.res = IF s.sect = 0 THEN "INT_ERR" ELSE "OK"]
        Result(f) ==
            IF f.res = "NO_FILE" THEN [f EXCEPT !.res = "NO_PATH"]
            ELSE IF f.res # "OK" THEN f
            ELSE IF f.d.noname THEN Begin(f, DirSdi(f.v, f.d))
            ELSE IF "DIR" \notin f.d.attr THEN [f EXCEPT !.res = "NO_PATH"]
            ELSE Begin(f, DirSdi(f.v, [f.d EXCEPT !.sclust = EntryAt(f.v, f.d).clust]))
    IN  Result(Located(Opening(v, path)))

NoInfo == [fname |-> <<>>, fattrib |-> {}, fsize |-> 0]

\* f_readdir: fname is empty at the end of the directory
FReadDir(v, d) ==
    LET Info(r, e) == IF r.d.sect = 0 THEN NoInfo
                      ELSE [fname |-> ListedName(e.name), fattrib |-> e.attr, fsize |-> e.size]
        Past(n, info) == [v |-> n.v, d |-> n.d, fno |-> info,
                          res |-> IF n.res = "NO_FILE" THEN "OK" ELSE n.res]
        Result(r) == IF r.res \notin {"OK", "NO_FILE"}
                     THEN [v |-> r.v, d |-> r.d, fno |-> NoInfo, res |-> r.res]
                     ELSE Past(DirNext(r.v, r.d, FALSE), Info(r, EntryAt(r.v, r.d)))
    IN  Result(DirRead(v, d))
=============================================================================
