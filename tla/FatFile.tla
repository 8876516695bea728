------------------------------- MODULE FatFile -------------------------------
(***************************************************************************)
(* Files of FatFs (fatfs/ff.c): opening, reading, writing, seeking,        *)
(* closing.  FIL is a record; buf is its own sector buffer (FF_FS_TINY is  *)
(* 0), sect the sector it holds and flag the mode and the state:           *)
(* "R" FA_READ, "W" FA_WRITE, "MODIFIED", "DIRTY".                         *)
(*                                                                         *)
(* The content of a file is a sequence of bytes, SS of them in a sector.   *)
(* No caller opens a file to append to it or seeks in one it writes, so    *)
(* those branches of f_open and f_lseek are left out.                      *)
(***************************************************************************)
EXTENDS FatDirectory
LOCAL INSTANCE Integers
LOCAL INSTANCE Sequences

CONSTANT SS               \* SS(fs): bytes in a sector (512)

Least(a, b) == IF a < b THEN a ELSE b
ZeroBuf == [i \in 1..SS |-> NUL]

NoFile == [valid |-> FALSE, sclust |-> 0, objsize |-> 0, flag |-> {}, fptr |-> 0,
           clust |-> 0, sect |-> 0, buf |-> ZeroBuf, dir_sect |-> 0, dir_ptr |-> 0]

-----------------------------------------------------------------------------
(* f_open.                                                                  *)

\* Mutant: the chain of the old content stays allocated.
TruncateLeaks(v, d) ==
    [v |-> SetEntry(v, d, [EntryAt(v, d) EXCEPT !.attr = {"ARC"}, !.clust = 0, !.size = 0]),
     res |-> "OK"]

(* "Truncate the file if overwrite mode": the entry loses its cluster and
   its size before the chain is freed.                                      *)
Truncate(v, d) ==
    LET e == EntryAt(v, d)
        w == SetEntry(v, d, [e EXCEPT !.attr = {"ARC"}, !.clust = 0, !.size = 0])
        Freed(r) == IF ~r.ok THEN [v |-> r.v, res |-> "INT_ERR"]
                    ELSE [v |-> [MoveWindow(r.v, w.winsect) EXCEPT !.last_clst = e.clust - 1],
                          res |-> "OK"]
    IN  IF e.clust = 0 THEN [v |-> w, res |-> "OK"] ELSE Freed(RemoveChain(w, e.clust))

\* f_open(FA_WRITE | FA_CREATE_ALWAYS), from the result f of follow_path
OpenToCreate(f) ==
    LET Emptied(r, t) == [r EXCEPT !.v = t.v, !.res = t.res]
        Registered(r) == IF r.res # "OK" THEN r ELSE Emptied(r, Truncate(r.v, r.d))
    IN  IF f.res = "OK" /\ f.d.noname THEN [f EXCEPT !.res = "INVALID_NAME"]
        ELSE IF f.res = "OK" /\ f.d.attr \cap {"RDO", "DIR"} # {} THEN [f EXCEPT !.res = "DENIED"]
        ELSE Registered(IF f.res = "NO_FILE" THEN DirRegister(f.v, f.d) ELSE f)

\* f_open(FA_READ)
OpenExisting(f) ==
    IF f.res = "OK" /\ f.d.noname THEN [f EXCEPT !.res = "INVALID_NAME"]
    ELSE IF f.res = "OK" /\ "DIR" \in f.d.attr THEN [f EXCEPT !.res = "NO_FILE"]
    ELSE f

OpenAs(f, mode) == IF mode = {"W", "CREATE"} THEN OpenToCreate(f) ELSE OpenExisting(f)

FOpen(v, path, mode) ==
    LET File(o, e) ==
            [NoFile EXCEPT !.valid = TRUE, !.sclust = e.clust, !.objsize = e.size,
                           !.flag = IF "CREATE" \in mode THEN {"W", "MODIFIED"} ELSE mode,
                           !.dir_sect = o.v.winsect, !.dir_ptr = o.d.dptr % DPS]
        Result(o) == [v |-> o.v, res |-> o.res,
                      fp |-> IF o.res = "OK" THEN File(o, EntryAt(o.v, o.d)) ELSE NoFile]
    IN  Result(OpenAs(Located(Opening(v, path)), mode))

-----------------------------------------------------------------------------
(* f_read and f_write, one pass through their loops at a time.  A state is  *)
(* [v, fp, data, res]: what is still to be written, or what has been read.  *)

FlushBuf(s) ==
    IF "DIRTY" \notin s.fp.flag THEN s
    ELSE [s EXCEPT !.v = DiskWrite(@, s.fp.sect, s.fp.buf), !.fp.flag = @ \ {"DIRTY"}]

\* Where f_write goes on at the boundary of a cluster: in its cluster clst.
Enter(s, clst) ==
    [s EXCEPT !.fp.clust = clst, !.fp.sclust = IF @ = 0 THEN clst ELSE @]

(* The sector f_write comes to: the buffer is written back, then a whole
   sector goes to the disk past it (it is never the buffered one, as writing
   only goes forward), or the buffer is made to hold it.                    *)
WriteSector(s, btw) ==
    LET f    == FlushBuf(s)
        sect == Sector(f.v, f.fp.clust)
        fill == f.fp.sect # sect /\ f.fp.fptr < f.fp.objsize
    IN  IF btw >= SS
        THEN [f EXCEPT !.v = DiskWrite(@, sect, SubSeq(f.data, 1, SS))]
        ELSE [f EXCEPT !.fp.buf = IF fill THEN f.v.disk[sect] ELSE @, !.fp.sect = sect]

\* The bytes of one pass, n of them.
Wrote(s, n) ==
    [s EXCEPT !.data = SubSeq(@, n + 1, Len(@)), !.fp.fptr = @ + n,
              !.fp.objsize = IF s.fp.fptr + n > @ THEN s.fp.fptr + n ELSE @]

PutBytes(s) ==
    LET ofs == s.fp.fptr % SS
        n   == Least(SS - ofs, Len(s.data))
    IN  [Wrote(s, n) EXCEPT
           !.fp.buf = [i \in 1..SS |-> IF i \in ofs + 1..ofs + n THEN s.data[i - ofs] ELSE @[i]],
           !.fp.flag = @ \cup {"DIRTY"}]

\* A pass: up to the end of a sector, in the cluster entered at its beginning.
WriteRound(s) ==
    LET On(t) == IF Len(t.data) >= SS THEN Wrote(WriteSector(t, Len(t.data)), SS)
                 ELSE PutBytes(WriteSector(t, Len(t.data)))
        Into(next) == IF next.val = 0 THEN [s EXCEPT !.v = next.v, !.more = FALSE]
                      ELSE IF next.val = 1
                      THEN [s EXCEPT !.v = next.v, !.more = FALSE, !.res = "INT_ERR"]
                      ELSE On([Enter(s, next.val) EXCEPT !.v = next.v])
    IN  IF ~s.more \/ s.data = <<>> THEN s
        ELSE IF s.fp.fptr % SS # 0 THEN PutBytes(s)
        ELSE Into(IF s.fp.fptr = 0 /\ s.fp.sclust # 0 THEN [v |-> s.v, val |-> s.fp.sclust]
                  ELSE CreateChain(s.v, IF s.fp.fptr = 0 THEN 0 ELSE s.fp.clust))

\* A pass that goes on writes a byte at least.
WriteLoop(v, fp, data) ==
    LET run[i \in 0..Len(data)] ==
            IF i = 0 THEN [v |-> v, fp |-> fp, data |-> data, res |-> "OK", more |-> TRUE]
            ELSE WriteRound(run[i - 1])
    IN  run[Len(data)]

\* f_write: bw tells a full disk, res does not
FWrite(v, fp, data) ==
    LET Result(s) == [v |-> s.v, res |-> s.res, bw |-> Len(data) - Len(s.data),
                      fp |-> IF s.res = "OK" THEN [s.fp EXCEPT !.flag = @ \cup {"MODIFIED"}] ELSE s.fp]
    IN  Result(WriteLoop(v, fp, data))

\* A pass of f_read; the buffer is never dirty, as no file is open for both.
ReadRound(s) ==
    LET ofs == s.fp.fptr % SS
        n   == Least(SS - ofs, s.btr)
        Got(t, bytes) == [t EXCEPT !.data = @ \o bytes, !.fp.fptr = @ + n, !.btr = @ - n]
        Buffered(t)   == Got(t, SubSeq(t.fp.buf, ofs + 1, ofs + n))
        In(t, sect)   == IF t.fp.clust < 2 \/ sect = 0 THEN [t EXCEPT !.res = "INT_ERR"]
                         ELSE IF t.btr >= SS THEN Got(t, t.v.disk[sect])
                         ELSE IF t.fp.sect = sect THEN Buffered(t)
                         ELSE Buffered([t EXCEPT !.fp.buf = t.v.disk[sect], !.fp.sect = sect])
        Into(next) == In([s EXCEPT !.v = next.v, !.fp.clust = next.val], Sector(next.v, next.val))
    IN  IF s.btr = 0 \/ s.res # "OK" THEN s
        ELSE IF ofs # 0 THEN Buffered(s)
        ELSE Into(IF s.fp.fptr = 0 THEN [v |-> s.v, val |-> s.fp.sclust]
                  ELSE GetFat(s.v, s.fp.clust))

ReadLoop(v, fp, btr) ==
    LET run[i \in 0..btr] ==
            IF i = 0 THEN [v |-> v, fp |-> fp, data |-> <<>>, res |-> "OK", btr |-> btr]
            ELSE ReadRound(run[i - 1])
    IN  run[btr]

\* f_read
FRead(v, fp, btr) == ReadLoop(v, fp, Least(btr, fp.objsize - fp.fptr))

\* A pass of f_lseek: on to the next cluster.
SeekRound(s) ==
    LET To(g) == IF Valid(g.val)
                 THEN [s EXCEPT !.v = g.v, !.fp.clust = g.val, !.fp.fptr = @ + SS]
                 ELSE [s EXCEPT !.v = g.v, !.res = "INT_ERR"]
    IN  IF s.res = "OK" THEN To(GetFat(s.v, s.fp.clust)) ELSE s

SeekLoop(v, fp, ofs) ==
    LET n        == (ofs - 1) \div SS
        run[i \in 0..n] == IF i = 0 THEN [v |-> v, fp |-> fp, res |-> "OK"]
                           ELSE SeekRound(run[i - 1])
        Rest(s)  == IF s.res = "OK" THEN [s EXCEPT !.fp.fptr = @ + ofs - n * SS] ELSE s
    IN  Rest(run[n])

\* The target is in the current cluster or behind it.
Stays(fp, ofs) == fp.fptr > 0 /\ (ofs - 1) \div SS >= (fp.fptr - 1) \div SS

\* Where f_lseek starts to count clusters.
SeekStart(fp, ofs) ==
    IF Stays(fp, ofs) THEN [fp EXCEPT !.fptr = ((fp.fptr - 1) \div SS) * SS]
    ELSE [fp EXCEPT !.fptr = 0, !.clust = fp.sclust]

\* The buffer is filled when the target is inside a sector.
FillBuf(s, nsect) ==
    IF s.res # "OK" \/ s.fp.fptr % SS = 0 \/ nsect = s.fp.sect THEN s
    ELSE [s EXCEPT !.fp.buf = s.v.disk[nsect], !.fp.sect = nsect]

(* f_lseek, of a file opened to be read: not past its end; from the current
   cluster when it can, else from the first.                                *)
FLseek(v, fp, offset) ==
    LET ofs       == Least(offset, fp.objsize)
        Sought(s) == FillBuf(s, Sector(s.v, s.fp.clust))
        Begun(f)  == Sought(SeekLoop(v, f, ofs - f.fptr))
    IN  IF ofs = 0 THEN [v |-> v, res |-> "OK", fp |-> [fp EXCEPT !.fptr = 0]]
        ELSE Begun(SeekStart(fp, ofs))

-----------------------------------------------------------------------------
\* Mutant: the entry is written before the buffer.
FSyncEarly(v, fp) ==
    LET w == MoveWindow(v, fp.dir_sect)
        e == w.win[fp.dir_ptr]
    IN  IF "MODIFIED" \notin fp.flag THEN v
        ELSE FlushBuf([v |-> SyncFs([w EXCEPT !.win[fp.dir_ptr] =
                                        [e EXCEPT !.clust = fp.sclust, !.size = fp.objsize],
                                     !.wflag = TRUE]),
                       fp |-> fp]).v

(* f_sync: the buffer, then the entry, then what is in the window.          *)
FSync(v, fp) ==
    LET Entry(e)   == [e EXCEPT !.attr = @ \cup {"ARC"}, !.clust = fp.sclust, !.size = fp.objsize]
        Updated(w) == [w EXCEPT !.win[fp.dir_ptr] = Entry(w.win[fp.dir_ptr]), !.wflag = TRUE]
        flushed == FlushBuf([v |-> v, fp |-> fp]).v
    IN  IF "MODIFIED" \notin fp.flag THEN v
        ELSE SyncFs(Updated(MoveWindow(flushed, fp.dir_sect)))

\* f_close; the file object is not used again
FClose(v, fp) == IF fp.valid THEN FSync(v, fp) ELSE v
=============================================================================
