------------------------------- MODULE FatShape -------------------------------
(***************************************************************************)
(* What holds of a FAT volume on which nothing is shared, said of every    *)
(* link and of every directory entry alone, so that it can be kept by one  *)
(* change of a link or of an entry at a time.                              *)
(*                                                                         *)
(* link gives the table's link of every cluster, content what the cluster  *)
(* holds; dirs are the clusters of directories.  first and nth tell the    *)
(* place of a cluster in its chain: the first cluster of the chain, and    *)
(* how many clusters there are up to this one.                             *)
(***************************************************************************)
EXTENDS FatFile, FiniteSets
LOCAL INSTANCE Integers
LOCAL INSTANCE Sequences

ASSUME FatAssumption ==
    /\ N_FATENT \in Nat /\ ROOT \in 2..N_FATENT - 1 /\ MAX_DIR \in Nat \ {0}
    /\ EPS \in Nat \ {0} /\ DPS \in Nat \ {0} /\ SS \in Nat \ {0}
    /\ BODY \in Nat \ {0} /\ EXT \in Nat

Clusters == 2..N_FATENT - 1
Slots    == 0..DPS - 1

(* A link is free (0), the end (EOC) or the next cluster of the chain, which
   no other link names and which is in use.  The chains of directories are
   apart from those of files.                                               *)
LinksSound(link, dirs) ==
    /\ \A c \in Clusters : link[c] \in {0, EOC} \cup Clusters
    /\ \A c \in Clusters : link[c] \in Clusters => link[link[c]] # 0
    /\ \A c, d \in Clusters : link[c] \in Clusters /\ link[c] = link[d] => c = d
    /\ dirs \subseteq Clusters
    /\ \A c \in dirs : link[c] # 0
    /\ \A c \in Clusters : link[c] \in Clusters => (c \in dirs <=> link[c] \in dirs)

\* Cluster c is in use, and no link leads to it: a chain begins there.
Begins(link, c) == link[c] # 0 /\ \A d \in Clusters : link[d] # c

(* Every chain begins somewhere, and its clusters stand in an order that the
   one that ends it closes.                                                  *)
ChainsSound(link, dirs, first, nth) ==
    /\ \A c \in Clusters : Begins(link, c) => first[c] = c
    /\ \A c \in Clusters : link[c] # 0 =>
          /\ first[c] \in Clusters /\ Begins(link, first[c])
          /\ first[c] \in dirs <=> c \in dirs
          /\ nth[c] \in Nat \ {0} /\ nth[first[c]] = 1
    /\ \A c \in Clusters : link[c] \in Clusters =>
          first[link[c]] = first[c] /\ nth[link[c]] = nth[c] + 1
    /\ \A c, d \in Clusters : link[c] # 0 /\ link[d] # 0 /\ first[c] = first[d] =>
          /\ nth[c] = nth[d] => c = d
          /\ link[d] = EOC => nth[c] <= nth[d]

IsDir(e) == "DIR" \in e.attr
Live(e)  == ~IsFree(e) /\ "VOL" \notin e.attr

\* The entry is the one that its chain belongs to: not "." and not "..".
Owns(e) == Live(e) /\ e.clust # 0 /\ ~(IsDir(e) /\ e.name[1] = ".")

\* The clusters that a file of the size has, when they are those of the chain from c.
SizeFits(link, first, nth, c, size) ==
    \A d \in Clusters : link[d] = EOC /\ first[d] = c => nth[d] = (size + SS - 1) \div SS

EntrySound(e, link, dirs, first, nth) ==
    /\ DOMAIN e = {"name", "attr", "clust", "size"} /\ e.size \in Nat
    /\ Live(e) /\ e.clust # 0 => e.clust \in Clusters /\ (IsDir(e) <=> e.clust \in dirs)
    /\ Live(e) /\ e.clust = 0 /\ ~IsDir(e) => e.size = 0
    /\ Owns(e) => Begins(link, e.clust) /\ e.clust # ROOT
    /\ Owns(e) /\ ~IsDir(e) => SizeFits(link, first, nth, e.clust, e.size)

(* The root directory is the chain of ROOT; what the live entries of the
   directories name are chains of their own.                                *)
EntriesSound(link, content, dirs, first, nth) ==
    /\ ROOT \in dirs /\ Begins(link, ROOT)
    /\ \A c \in dirs : DOMAIN content[c] = Slots
    /\ \A c \in dirs : \A i \in Slots : EntrySound(content[c][i], link, dirs, first, nth)
    /\ \A c, d \in dirs : \A i, k \in Slots :
          Owns(content[c][i]) /\ Owns(content[d][k]) /\ content[c][i].clust = content[d][k].clust
              => c = d /\ i = k

Sound(link, content, dirs, first, nth) ==
    /\ LinksSound(link, dirs)
    /\ ChainsSound(link, dirs, first, nth)
    /\ EntriesSound(link, content, dirs, first, nth)

-----------------------------------------------------------------------------
(* What holds besides as long as no call is cut: nothing that is in use is out
   of reach.                                                                *)

\* Entry i of the cluster c stands before entry k of d, in the same directory.
Before(first, nth, c, i, d, k) == first[c] = first[d] /\ (nth[c] < nth[d] \/ (c = d /\ i < k))

\* Behind the end of a directory there is nothing.
Filled(content, dirs, first, nth) ==
    \A c, d \in dirs : \A i, k \in Slots :
        Before(first, nth, c, i, d, k) /\ IsEnd(content[c][i]) => IsEnd(content[d][k])

(* level tells how far below the root a directory is; only "." and ".." name
   one that is not below their own.                                         *)
Rooted(content, dirs, first, level) ==
    /\ level[ROOT] = 0
    /\ \A c \in dirs : level[first[c]] \in 0..N_FATENT
    /\ \A c \in dirs : \A i \in Slots :
          Owns(content[c][i]) /\ IsDir(content[c][i])
              => level[content[c][i].clust] = level[first[c]] + 1

\* No file is named like "." and "..", which are not listed.
Listable(content, dirs) ==
    \A c \in dirs : \A i \in Slots :
        Live(content[c][i]) /\ ~IsDir(content[c][i]) => content[c][i].name[1] # "."

Tidy(content, dirs, first, nth, level) ==
    /\ Filled(content, dirs, first, nth)
    /\ Rooted(content, dirs, first, level)
    /\ Listable(content, dirs)

\* The chains, but the root's, that no entry is the owner of.
Untended(link, content, dirs) ==
    {h \in Clusters \ {ROOT} :
        /\ Begins(link, h)
        /\ \A c \in dirs : \A i \in Slots : Owns(content[c][i]) => content[c][i].clust # h}

-----------------------------------------------------------------------------
(* The same of a disk, with the volume at sector b.                         *)

Links(disk, b)   == [c \in Clusters |-> disk[b + FatBase + c \div EPS][c % EPS]]
Held(disk, b) == [c \in Clusters |-> disk[b + DataBase + c - 2]]
Volume(b)        == b..b + DataBase + N_FATENT - 3

\* mount_volume finds the volume at b, whatever is written to it.
Boots(disk, b) ==
    \/ b = 0 /\ disk[0].vbr
    \/ /\ b # 0 /\ disk[b].vbr /\ ~disk[0].vbr /\ disk[0].sign
       /\ \E i \in 1..Len(disk[0].parts) :
             /\ disk[0].parts[i] = b
             /\ \A k \in 1..i - 1 : LET p == disk[0].parts[k]
                                    IN  p = 0 \/ (p \in DOMAIN disk \ Volume(b) /\ ~disk[p].vbr)

Laid(disk, b) ==
    /\ b \in Nat /\ Volume(b) \subseteq DOMAIN disk
    /\ DOMAIN disk \subseteq Nat
    /\ \A s \in b + FatBase..b + FatBase + FSize - 1 : DOMAIN disk[s] = 0..EPS - 1

SoundDisk(disk, b, dirs, first, nth) ==
    /\ Laid(disk, b) /\ Boots(disk, b)
    /\ Sound(Links(disk, b), Held(disk, b), dirs, first, nth)

Proper(disk, b, dirs) == \E first, nth : SoundDisk(disk, b, dirs, first, nth)

\* The clusters that are free.
Unlinked(link) == {c \in Clusters : link[c] = 0}

\* The second table is a copy of the first.
Mirrored(disk, b) ==
    \A s \in b + FatBase..b + FatBase + FSize - 1 : disk[s + FSize] = disk[s]

\* FSInfo tells how many clusters are free.
Informed(disk, b, free) == disk[b + 1].lead = TRUE /\ disk[b + 1].free = free

\* The place of c in its chain, found by going back along the links.
Place(link, c) ==
    LET Back(p) == IF \A d \in Clusters : link[d] # p.first THEN p
                   ELSE [first |-> CHOOSE d \in Clusters : link[d] = p.first, nth |-> p.nth + 1]
        run[i \in 1..N_FATENT] ==
            IF i = 1 THEN [first |-> c, nth |-> 1] ELSE Back(run[i - 1])
    IN  run[N_FATENT]

\* How many directories there are from the root down to that of the chain from h.
Level(content, dirs, first, h) ==
    LET Over(g) == CHOOSE c \in dirs : \E i \in Slots : Owns(content[c][i]) /\ content[c][i].clust = g
        Up(s)   == IF s.head = ROOT THEN s ELSE [head |-> first[Over(s.head)], n |-> s.n + 1]
        run[i \in 0..N_FATENT] == IF i = 0 THEN [head |-> h, n |-> 0] ELSE Up(run[i - 1])
    IN  run[N_FATENT].n

\* A disk is a function of its sectors.
IsDisk(disk) == disk = [s \in DOMAIN disk |-> disk[s]]

(* A sound volume, as no cut call has left it: its copies and counts agree,
   and everything on it can be reached.                                     *)
IntactImage(disk) ==
    /\ IsDisk(disk)
    /\ \E b \in DOMAIN disk : \E dirs \in SUBSET Clusters :
          LET link    == Links(disk, b)
              content == Held(disk, b)
              first   == [c \in Clusters |-> Place(link, c).first]
              nth     == [c \in Clusters |-> Place(link, c).nth]
          IN  /\ SoundDisk(disk, b, dirs, first, nth)
              /\ Mirrored(disk, b) /\ Informed(disk, b, Cardinality(Unlinked(link)))
              /\ Untended(link, content, dirs) = {}
              /\ Tidy(content, dirs, first, nth,
                      [h \in {first[c] : c \in dirs} |-> Level(content, dirs, first, h)])
=============================================================================
