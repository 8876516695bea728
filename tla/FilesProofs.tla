---------------------------- MODULE FilesProofs -----------------------------
(***************************************************************************)
(* For volumes of every size and layout, and every path and content: after *)
(* any calls, and after the power cuts of PowerCut (at each sector of a    *)
(* save, but not while a directory's new cluster is linked and not yet     *)
(* cleared), no cluster belongs to two files or directories (NoSharing),   *)
(* between two calls nothing waits in memory (NothingUnsaved), and as long *)
(* as no call was cut what is kept twice agrees (CopiesAgree) and every    *)
(* cluster in use is in the chain of a file or a directory (NothingLost).  *)
(*                                                                         *)
(* A shape q (IsShape) is what the volume says once the window is written: *)
(* the link and the content of every cluster, which clusters are those of  *)
(* directories, and the place of each in its chain, all of it Sound;       *)
(* q.base.disk is the disk as the call began, q.base.whole whether no call *)
(* was cut, and then q.base.level how deep every directory is; q.due is    *)
(* how many free clusters are not counted yet, and q.lost the chains that  *)
(* no entry is the owner of.  Good(v, q) relates a volume in the middle of *)
(* a call to its shape, and says that the log of the call is Safe:         *)
(* wherever the power may cut it, what is left on the disk is proper       *)
(* again.  Each function of ff.c gets a lemma saying how it changes the    *)
(* shape: a link (Relinked), an entry (PutIn), a cluster of a file         *)
(* (DataChanged), a directory that grows (Grown).  Functions that read     *)
(* leave a calm volume calm (Calm).  The inductive invariant IInv is that  *)
(* between two calls the volume is calm, nothing of it is in memory only   *)
(* and no chain is without an owner (Resting).  NoSharing follows since    *)
(* what the properties read of the disk are the chains and entries of the  *)
(* shape, and NothingLost since from the root they read all of them: no    *)
(* entry stands behind the end of its directory (Filled), and every        *)
(* directory is one level below that of its owner (Rooted).                *)
(***************************************************************************)
EXTENDS Files, SequenceTheorems, FiniteSetTheorems, WellFoundedInduction, TLAPS

(* c begins a chain of no directory, and no entry names it.                 *)
Loose(link, content, dirs, c) ==
    /\ c \in Clusters \ dirs /\ Begins(link, c)
    /\ \A d \in dirs : \A i \in Slots : ~(Owns(content[d][i]) /\ content[d][i].clust = c)

IsLink(link) == DOMAIN link = Clusters

-----------------------------------------------------------------------------
(* One change of a link, or of an entry.                                    *)

\* What the directories hold, and where their clusters stand, is tidy as before.
LEMMA TidyAlike ==
    ASSUME NEW content, NEW dirs, NEW first, NEW nth, NEW level, Tidy(content, dirs, first, nth, level),
           NEW content2, NEW first2, NEW nth2,
           \A d \in dirs : content2[d] = content[d] /\ first2[d] = first[d] /\ nth2[d] = nth[d]
    PROVE  Tidy(content2, dirs, first2, nth2, level)
<1>1. Filled(content2, dirs, first2, nth2)
  BY DEF Tidy, Filled, Before
<1>2. Rooted(content2, dirs, first2, level)
  BY DEF Tidy, Rooted
<1>3. Listable(content2, dirs)
  BY DEF Tidy, Listable
<1>4. QED BY <1>1, <1>2, <1>3 DEF Tidy

\* No chain is without an owner that was not, when none but some of X begin anew.
LEMMA UntendedAlike ==
    ASSUME NEW link, NEW content, NEW dirs, NEW link2, NEW content2, NEW X,
           \A h \in Clusters \ X : Begins(link2, h) => Begins(link, h),
           \A d \in dirs : content2[d] = content[d]
    PROVE  Untended(link2, content2, dirs) \subseteq Untended(link, content, dirs) \cup X
BY DEF Untended

\* The mark of the end of a chain is the number of no cluster.
LEMMA EocIsNone == EOC \in Nat /\ EOC \notin Clusters /\ EOC # 0 /\ 0 \notin Clusters
BY FatAssumption DEF EOC, Clusters

\* A free cluster is marked as the end of a chain of its own.
LEMMA MarkSound ==
    ASSUME NEW link, NEW content, NEW dirs, NEW first, NEW nth, NEW n \in Clusters,
           IsLink(link), DOMAIN first = Clusters, DOMAIN nth = Clusters,
           Sound(link, content, dirs, first, nth), link[n] = 0
    PROVE  LET link2 == [link EXCEPT ![n] = EOC]
           IN  /\ Sound(link2, content, dirs, [first EXCEPT ![n] = n], [nth EXCEPT ![n] = 1])
               /\ Loose(link2, content, dirs, n)
               /\ Untended(link2, content, dirs) \subseteq Untended(link, content, dirs) \cup {n}
<1> DEFINE link2  == [link EXCEPT ![n] = EOC]
           first2 == [first EXCEPT ![n] = n]
           nth2   == [nth EXCEPT ![n] = 1]
<1>0. /\ LinksSound(link, dirs) /\ ChainsSound(link, dirs, first, nth)
      /\ EntriesSound(link, content, dirs, first, nth)
  BY DEF Sound
<1>1. /\ \A c \in Clusters : link2[c] = IF c = n THEN EOC ELSE link[c]
      /\ \A c \in Clusters : first2[c] = IF c = n THEN n ELSE first[c]
      /\ \A c \in Clusters : nth2[c] = IF c = n THEN 1 ELSE nth[c]
  BY DEF IsLink
<1>2. n \notin dirs
  BY <1>0 DEF LinksSound
<1> HIDE DEF link2, first2, nth2
<1>3. \A c \in Clusters : link[c] # n
  BY <1>0, EocIsNone DEF LinksSound
<1>4. LinksSound(link2, dirs)
  BY <1>0, <1>1, <1>2, EocIsNone DEF LinksSound
<1>5. Begins(link2, n) /\ \A c \in Clusters \ {n} : Begins(link2, c) <=> Begins(link, c)
  BY <1>1, <1>3, EocIsNone DEF Begins
<1>6. \A c \in Clusters : link[c] # 0 => first[c] # n
  BY <1>0 DEF ChainsSound, Begins
<1>7. ChainsSound(link2, dirs, first2, nth2)
  <2>1. \A c \in Clusters : Begins(link2, c) => first2[c] = c
    BY <1>0, <1>1, <1>5 DEF ChainsSound
  <2>2. \A c \in Clusters : link2[c] # 0 =>
          /\ first2[c] \in Clusters /\ Begins(link2, first2[c])
          /\ first2[c] \in dirs <=> c \in dirs
          /\ nth2[c] \in Nat \ {0} /\ nth2[first2[c]] = 1
    BY <1>0, <1>1, <1>5, <1>6, <1>2 DEF ChainsSound
  <2>3. \A c \in Clusters : link2[c] \in Clusters =>
          first2[link2[c]] = first2[c] /\ nth2[link2[c]] = nth2[c] + 1
    BY <1>0, <1>1, <1>3, EocIsNone DEF ChainsSound
  <2>4. \A c, d \in Clusters : link2[c] # 0 /\ link2[d] # 0 /\ first2[c] = first2[d] =>
          /\ nth2[c] = nth2[d] => c = d
          /\ link2[d] = EOC => nth2[c] <= nth2[d]
    BY <1>0, <1>1, <1>6 DEF ChainsSound
  <2>5. QED BY <2>1, <2>2, <2>3, <2>4 DEF ChainsSound
<1>8. \A e : EntrySound(e, link, dirs, first, nth) => EntrySound(e, link2, dirs, first2, nth2)
  <2>1. ASSUME NEW e, EntrySound(e, link, dirs, first, nth)
        PROVE  EntrySound(e, link2, dirs, first2, nth2)
    <3>1. Owns(e) => e.clust # n /\ e.clust \in Clusters
      BY <1>0, <2>1 DEF EntrySound, Begins, Owns
    <3>2. Owns(e) => Begins(link2, e.clust)
      BY <2>1, <3>1, <1>5 DEF EntrySound
    <3>3. Owns(e) /\ ~IsDir(e) => SizeFits(link2, first2, nth2, e.clust, e.size)
      BY <2>1, <3>1, <1>1 DEF EntrySound, SizeFits
    <3>4. QED BY <2>1, <3>2, <3>3 DEF EntrySound
  <2>2. QED BY <2>1
<1>9. EntriesSound(link2, content, dirs, first2, nth2)
  <2>1. ROOT # n /\ ROOT \in Clusters
    BY <1>0, <1>2 DEF EntriesSound, LinksSound
  <2>2. Begins(link2, ROOT)
    BY <1>0, <1>5, <2>1 DEF EntriesSound
  <2>3. QED BY <1>0, <1>8, <2>2 DEF EntriesSound
<1>10. Loose(link2, content, dirs, n)
  <2>1. ASSUME NEW d \in dirs, NEW i \in Slots, Owns(content[d][i]), content[d][i].clust = n
        PROVE  FALSE
    <3>1. EntrySound(content[d][i], link, dirs, first, nth)
      BY <1>0 DEF EntriesSound
    <3>2. QED BY <2>1, <3>1 DEF EntrySound, Begins
  <2>2. QED BY <2>1, <1>2, <1>5 DEF Loose
<1>12. Untended(link2, content, dirs) \subseteq Untended(link, content, dirs) \cup {n}
  BY <1>5, UntendedAlike
<1>11. QED BY <1>4, <1>7, <1>9, <1>10, <1>12 DEF Sound, link2, first2, nth2

\* The directories' clusters once c is linked to n.
Spread(dirs, c, n, dirs2) == dirs2 = IF c \in dirs THEN dirs \cup {n} ELSE dirs

\* The end c of a chain may be linked to the single cluster n.
Joins(link, dirs, first, nth, c, n) ==
    /\ IsLink(link) /\ DOMAIN first = Clusters /\ DOMAIN nth = Clusters
    /\ LinksSound(link, dirs) /\ ChainsSound(link, dirs, first, nth)
    /\ c \in Clusters /\ n \in Clusters \ dirs /\ c # n /\ Begins(link, n)
    /\ link[c] = EOC /\ link[n] = EOC

\* The end of a chain c is linked to a loose cluster n that is a chain of its own.
LEMMA ChainLinked ==
    ASSUME NEW link, NEW dirs, NEW first, NEW nth, NEW c, NEW n, NEW dirs2,
           Joins(link, dirs, first, nth, c, n), Spread(dirs, c, n, dirs2)
    PROVE  LET link2  == [link EXCEPT ![c] = n]
               first2 == [first EXCEPT ![n] = first[c]]
               nth2   == [nth EXCEPT ![n] = nth[c] + 1]
           IN  /\ LinksSound(link2, dirs2) /\ ChainsSound(link2, dirs2, first2, nth2)
               /\ first[c] \in Clusters /\ first[c] # n
               /\ \A x \in Clusters : Begins(link2, x) <=> x # n /\ Begins(link, x)
<1> DEFINE link2  == [link EXCEPT ![c] = n]
           first2 == [first EXCEPT ![n] = first[c]]
           nth2   == [nth EXCEPT ![n] = nth[c] + 1]
<1>0. LinksSound(link, dirs) /\ ChainsSound(link, dirs, first, nth)
  BY DEF Joins
<1>00. /\ n \in Clusters \ dirs /\ Begins(link, n) /\ c \in Clusters /\ c # n
       /\ link[c] = EOC /\ link[n] = EOC /\ IsLink(link) /\ DOMAIN first = Clusters /\ DOMAIN nth = Clusters
  BY DEF Joins
<1> USE <1>00
<1>1. /\ \A x \in Clusters : link2[x] = IF x = c THEN n ELSE link[x]
      /\ \A x \in Clusters : first2[x] = IF x = n THEN first[c] ELSE first[x]
      /\ \A x \in Clusters : nth2[x] = IF x = n THEN nth[c] + 1 ELSE nth[x]
  BY <1>00 DEF IsLink
<1> HIDE DEF link2, first2, nth2
<1>2. \A x \in Clusters : link[x] # n
  BY <1>00 DEF Begins
<1>3. first[c] \in Clusters /\ first[c] # n
  <2>1. /\ first[c] \in Clusters /\ nth[c] \in Nat \ {0} /\ nth[first[c]] = 1
        /\ first[n] = n /\ nth[first[n]] = 1 /\ nth[n] \in Nat
    BY <1>0, <1>00, EocIsNone DEF ChainsSound
  <2>2. SUFFICES ASSUME first[c] = n PROVE FALSE
    BY <2>1
  <2>3. nth[c] <= nth[n] /\ nth[n] = 1
    BY <1>0, <1>00, <2>1, <2>2, EocIsNone DEF ChainsSound
  <2>4. nth[c] = nth[n]
    BY <2>1, <2>3
  <2>5. c = n
    BY <1>0, <1>00, <2>1, <2>2, <2>4, EocIsNone DEF ChainsSound
  <2>6. QED BY <2>5
<1>4. LinksSound(link2, dirs2)
  BY <1>0, <1>00, <1>1, <1>2, EocIsNone DEF LinksSound, Spread
<1>5. \A x \in Clusters : Begins(link2, x) <=> x # n /\ Begins(link, x)
  BY <1>0, <1>1, <1>2, <1>00, EocIsNone DEF Begins, LinksSound
<1>6. \A x \in Clusters : link[x] # 0 /\ first[x] = n => x = n
  <2>1. ASSUME NEW x \in Clusters, link[x] # 0, first[x] = n PROVE x = n
    <3>1. nth[x] \in Nat \ {0} /\ nth[n] = 1 /\ first[n] = n
      BY <1>0, <1>00, <2>1, EocIsNone DEF ChainsSound
    <3>2. nth[x] <= nth[n]
      BY <1>0, <1>00, <2>1, <3>1, EocIsNone DEF ChainsSound
    <3>3. nth[x] = nth[n]
      BY <3>1, <3>2
    <3>4. QED BY <1>0, <1>00, <2>1, <3>1, <3>3, EocIsNone DEF ChainsSound
  <2>2. QED BY <2>1
<1>7. ChainsSound(link2, dirs2, first2, nth2)
  <2>1. \A x \in Clusters : Begins(link2, x) => first2[x] = x
    BY <1>0, <1>1, <1>5 DEF ChainsSound
  <2>2. \A x \in Clusters : link2[x] # 0 =>
          /\ first2[x] \in Clusters /\ Begins(link2, first2[x])
          /\ first2[x] \in dirs2 <=> x \in dirs2
          /\ nth2[x] \in Nat \ {0} /\ nth2[first2[x]] = 1
    <3>1. ASSUME NEW x \in Clusters, link2[x] # 0, x # n
          PROVE  /\ first2[x] \in Clusters /\ Begins(link2, first2[x])
                 /\ first2[x] \in dirs2 <=> x \in dirs2
                 /\ nth2[x] \in Nat \ {0} /\ nth2[first2[x]] = 1
      <4>1. link[x] # 0
        BY <3>1, <1>1, EocIsNone
      <4>2. first[x] # n
        BY <4>1, <3>1, <1>6
      <4>3. /\ first[x] \in Clusters /\ Begins(link, first[x])
            /\ first[x] \in dirs <=> x \in dirs
            /\ nth[x] \in Nat \ {0} /\ nth[first[x]] = 1
        BY <1>0, <4>1 DEF ChainsSound
      <4>4. QED BY <4>2, <4>3, <3>1, <1>1, <1>5 DEF Spread
    <3>2. /\ first2[n] \in Clusters /\ Begins(link2, first2[n])
          /\ first2[n] \in dirs2 <=> n \in dirs2
          /\ nth2[n] \in Nat \ {0} /\ nth2[first2[n]] = 1
      <4>1. /\ first[c] \in Clusters /\ Begins(link, first[c])
            /\ first[c] \in dirs <=> c \in dirs
            /\ nth[c] \in Nat \ {0} /\ nth[first[c]] = 1
        BY <1>0, EocIsNone DEF ChainsSound
      <4>2. QED BY <4>1, <1>00, <1>1, <1>3, <1>5 DEF Spread
    <3>3. QED BY <3>1, <3>2
  <2>3. \A x \in Clusters : link2[x] \in Clusters =>
          first2[link2[x]] = first2[x] /\ nth2[link2[x]] = nth2[x] + 1
    BY <1>0, <1>00, <1>1, <1>2, EocIsNone DEF ChainsSound
  <2>4. \A x, d \in Clusters : link2[x] # 0 /\ link2[d] # 0 /\ first2[x] = first2[d] =>
          /\ nth2[x] = nth2[d] => x = d
          /\ link2[d] = EOC => nth2[x] <= nth2[d]
    <3>1. \A x \in Clusters : link2[x] # 0 => link[x] # 0
      BY <1>1, EocIsNone
    <3>2. \A x \in Clusters \ {n} : link[x] # 0 /\ first[x] = first[c]
                                       => nth[x] <= nth[c] /\ nth[x] \in Nat /\ nth[c] \in Nat
      BY <1>0, EocIsNone DEF ChainsSound
    <3>3. ASSUME NEW x \in Clusters, NEW d \in Clusters, link[x] # 0, link[d] # 0, x # n, d # n, first[x] = first[d]
          PROVE  /\ nth[x] = nth[d] => x = d
                 /\ link[d] = EOC => nth[x] <= nth[d]
      BY <1>0, <3>3 DEF ChainsSound
    <3>4. link2[c] = n /\ n # EOC
      BY <1>1, <1>00, EocIsNone
    <3>6. ASSUME NEW x \in Clusters, link2[x] # 0, first2[x] = first2[n], x # n
          PROVE  nth2[x] # nth2[n] /\ nth2[x] <= nth2[n] /\ link2[x] # EOC
      <4>1. first[x] = first[c] /\ link[x] # 0
        BY <3>6, <3>1, <1>1, <1>00
      <4>2. nth[x] <= nth[c] /\ nth[x] \in Nat /\ nth[c] \in Nat
        BY <4>1, <3>2, <3>6
      <4>3. link2[x] # EOC
        <5>1. SUFFICES ASSUME link2[x] = EOC PROVE FALSE
          OBVIOUS
        <5>2. x # c /\ link[x] = EOC
          BY <5>1, <3>4, <1>1
        <5>3. nth[c] <= nth[x]
          BY <5>2, <4>1, <1>0, EocIsNone DEF ChainsSound
        <5>4. nth[c] = nth[x]
          BY <5>3, <4>2
        <5>5. c = x
          BY <5>4, <4>1, <1>0, EocIsNone DEF ChainsSound
        <5>6. QED BY <5>5, <5>2
      <4>4. QED BY <4>2, <4>3, <3>6, <1>1, <1>00
    <3>7. ASSUME NEW x \in Clusters, NEW d \in Clusters, link2[x] # 0, link2[d] # 0, first2[x] = first2[d]
          PROVE  /\ nth2[x] = nth2[d] => x = d
                 /\ link2[d] = EOC => nth2[x] <= nth2[d]
      <4>1. CASE x # n /\ d # n
        BY <4>1, <3>1, <3>3, <3>7, <1>1, <3>4
      <4>2. CASE x = n /\ d # n
        BY <4>2, <3>6, <3>7
      <4>3. CASE x # n /\ d = n
        BY <4>3, <3>6, <3>7
      <4>4. CASE x = n /\ d = n
        <5>1. nth2[n] \in Nat
          BY <2>2, <3>7, <4>4
        <5>2. QED BY <4>4, <5>1
      <4>5. QED BY <4>1, <4>2, <4>3, <4>4
    <3>8. QED BY <3>7
  <2>5. QED BY <2>1, <2>2, <2>3, <2>4 DEF ChainsSound
<1>11. QED BY <1>3, <1>4, <1>5, <1>7 DEF link2, first2, nth2

\* What linking the end c of a loose chain to the loose cluster n comes to.
LinkedOn(link, content, dirs, first, nth, c, n) ==
    LET link2 == [link EXCEPT ![c] = n]
    IN  /\ Sound(link2, content, dirs, [first EXCEPT ![n] = first[c]], [nth EXCEPT ![n] = nth[c] + 1])
        /\ Loose(link2, content, dirs, first[c])
        /\ Untended(link2, content, dirs) \subseteq Untended(link, content, dirs) \ {n}

\* The end of a loose chain is linked to a loose cluster.
LEMMA LinkSound ==
    ASSUME NEW link, NEW content, NEW dirs, NEW first, NEW nth,
           NEW c \in Clusters \ dirs, NEW n,
           IsLink(link), DOMAIN first = Clusters, DOMAIN nth = Clusters,
           Sound(link, content, dirs, first, nth),
           link[c] = EOC, link[n] = EOC, c # n,
           Loose(link, content, dirs, n), Loose(link, content, dirs, first[c])
    PROVE  LinkedOn(link, content, dirs, first, nth, c, n)
<1> DEFINE link2  == [link EXCEPT ![c] = n]
           first2 == [first EXCEPT ![n] = first[c]]
           nth2   == [nth EXCEPT ![n] = nth[c] + 1]
<1>0. /\ LinksSound(link, dirs) /\ ChainsSound(link, dirs, first, nth)
      /\ EntriesSound(link, content, dirs, first, nth)
  BY DEF Sound
<1>00. n \in Clusters \ dirs /\ Begins(link, n)
  BY DEF Loose
<1>1. /\ \A x \in Clusters : link2[x] = IF x = c THEN n ELSE link[x]
      /\ \A x \in Clusters : first2[x] = IF x = n THEN first[c] ELSE first[x]
      /\ \A x \in Clusters : nth2[x] = IF x = n THEN nth[c] + 1 ELSE nth[x]
  BY <1>00 DEF IsLink
<1>2. /\ LinksSound(link2, dirs) /\ ChainsSound(link2, dirs, first2, nth2)
      /\ first[c] \in Clusters /\ first[c] # n
      /\ \A x \in Clusters : Begins(link2, x) <=> x # n /\ Begins(link, x)
  <2>1. Joins(link, dirs, first, nth, c, n)
    BY <1>0, <1>00 DEF Joins
  <2>2. Spread(dirs, c, n, dirs)
    BY DEF Spread
  <2>3. QED BY <2>1, <2>2, ChainLinked
<1> HIDE DEF link2, first2, nth2
<1>8. ASSUME NEW e, EntrySound(e, link, dirs, first, nth), Owns(e) => e.clust # n /\ e.clust # first[c]
      PROVE  EntrySound(e, link2, dirs, first2, nth2)
  <2>1. Owns(e) => e.clust \in Clusters
    BY <1>8 DEF EntrySound, Owns
  <2>2. Owns(e) => Begins(link2, e.clust)
    BY <1>8, <2>1, <1>2 DEF EntrySound
  <2>3. Owns(e) /\ ~IsDir(e) => SizeFits(link2, first2, nth2, e.clust, e.size)
    <3>1. SUFFICES ASSUME Owns(e), ~IsDir(e), NEW d \in Clusters, link2[d] = EOC, first2[d] = e.clust
                   PROVE  nth2[d] = (e.size + SS - 1) \div SS
      BY DEF SizeFits
    <3>2. d # n /\ d # c
      BY <3>1, <1>8, <1>1, <1>00, EocIsNone
    <3>3. link[d] = EOC /\ first[d] = e.clust
      BY <3>1, <3>2, <1>1
    <3>4. nth[d] = (e.size + SS - 1) \div SS
      BY <1>8, <3>1, <3>3 DEF EntrySound, SizeFits
    <3>5. QED BY <3>4, <3>2, <1>1
  <2>4. QED BY <1>8, <2>2, <2>3 DEF EntrySound
<1>9. EntriesSound(link2, content, dirs, first2, nth2)
  <2>1. ROOT # n /\ ROOT \in Clusters
    BY <1>0, <1>00 DEF EntriesSound, LinksSound
  <2>2. Begins(link2, ROOT)
    BY <1>0, <1>2, <2>1 DEF EntriesSound
  <2>3. ASSUME NEW d \in dirs, NEW i \in Slots PROVE EntrySound(content[d][i], link2, dirs, first2, nth2)
    <3>1. EntrySound(content[d][i], link, dirs, first, nth)
      BY <1>0 DEF EntriesSound
    <3>2. Owns(content[d][i]) => content[d][i].clust # n /\ content[d][i].clust # first[c]
      BY DEF Loose
    <3>3. QED BY <3>1, <3>2, <1>8
  <2>4. QED BY <1>0, <2>3, <2>2 DEF EntriesSound
<1>10. Loose(link2, content, dirs, first[c])
  <2>1. first[c] \in Clusters \ dirs /\ Begins(link2, first[c])
    BY <1>2, <1>2 DEF Loose
  <2>2. QED BY <2>1 DEF Loose
<1>12. Untended(link2, content, dirs) \subseteq Untended(link, content, dirs) \ {n}
  BY <1>2 DEF Untended
<1>13. Sound(link2, content, dirs, first2, nth2)
  BY <1>2, <1>9 DEF Sound
<1>11. QED BY <1>10, <1>12, <1>13 DEF LinkedOn, link2, first2, nth2

\* A directory grows by a loose cluster n, cleared.
LEMMA GrowSound ==
    ASSUME NEW link, NEW content, NEW dirs, NEW first, NEW nth, NEW c \in dirs, NEW n,
           IsLink(link), IsLink(content), DOMAIN first = Clusters, DOMAIN nth = Clusters,
           Sound(link, content, dirs, first, nth),
           link[c] = EOC, link[n] = EOC, Loose(link, content, dirs, n)
    PROVE  LET link2    == [link EXCEPT ![c] = n]
               content2 == [content EXCEPT ![n] = NoEntries]
               first2   == [first EXCEPT ![n] = first[c]]
               nth2     == [nth EXCEPT ![n] = nth[c] + 1]
           IN  /\ Sound(link2, content2, dirs \cup {n}, first2, nth2)
               /\ Untended(link2, content2, dirs \cup {n}) \subseteq Untended(link, content, dirs) \ {n}
               /\ \A level : Tidy(content, dirs, first, nth, level)
                     => Tidy(content2, dirs \cup {n}, first2, nth2, level)
<1> DEFINE link2  == [link EXCEPT ![c] = n]
           first2 == [first EXCEPT ![n] = first[c]]
           nth2   == [nth EXCEPT ![n] = nth[c] + 1]
           content2 == [content EXCEPT ![n] = NoEntries]
           dirs2 == dirs \cup {n}
<1>0. /\ LinksSound(link, dirs) /\ ChainsSound(link, dirs, first, nth)
      /\ EntriesSound(link, content, dirs, first, nth)
  BY DEF Sound
<1>00. n \in Clusters \ dirs /\ Begins(link, n) /\ c \in Clusters /\ c # n
  BY <1>0 DEF Loose, LinksSound
<1>1. /\ \A x \in Clusters : link2[x] = IF x = c THEN n ELSE link[x]
      /\ \A x \in Clusters : first2[x] = IF x = n THEN first[c] ELSE first[x]
      /\ \A x \in Clusters : nth2[x] = IF x = n THEN nth[c] + 1 ELSE nth[x]
      /\ \A x \in Clusters : content2[x] = IF x = n THEN NoEntries ELSE content[x]
  BY <1>00 DEF IsLink
<1>2. /\ LinksSound(link2, dirs2) /\ ChainsSound(link2, dirs2, first2, nth2)
      /\ first[c] \in Clusters /\ first[c] # n
      /\ \A x \in Clusters : Begins(link2, x) <=> x # n /\ Begins(link, x)
  <2>1. Spread(dirs, c, n, dirs2)
    BY DEF Spread
  <2>2. Joins(link, dirs, first, nth, c, n)
    BY <1>0, <1>00 DEF Joins
  <2> HIDE DEF dirs2
  <2>3. /\ LinksSound([link EXCEPT ![c] = n], dirs2)
        /\ ChainsSound([link EXCEPT ![c] = n], dirs2, [first EXCEPT ![n] = first[c]],
                                              [nth EXCEPT ![n] = nth[c] + 1])
        /\ first[c] \in Clusters /\ first[c] # n
        /\ \A x \in Clusters : Begins([link EXCEPT ![c] = n], x) <=> x # n /\ Begins(link, x)
    BY <2>1, <2>2, ChainLinked
  <2>4. QED BY <2>3 DEF link2, first2, nth2
<1> HIDE DEF link2, first2, nth2, content2
<1>3. first[c] \in dirs
  BY <1>0, <1>00, EocIsNone DEF ChainsSound
<1>4. \A i \in Slots : EntrySound(NoEntries[i], link2, dirs2, first2, nth2) /\ ~Owns(NoEntries[i])
  <2>1. ASSUME NEW i \in Slots PROVE NoEntries[i] = NoEntry
    BY DEF NoEntries, Slots
  <2>2. DOMAIN NoEntry = {"name", "attr", "clust", "size"} /\ NoEntry.name[1] = NUL /\ NoEntry.size = 0
    BY FatAssumption DEF NoEntry
  <2>3. ~Live(NoEntry)
    BY <2>2 DEF Live, IsFree
  <2>4. QED BY <2>1, <2>2, <2>3 DEF EntrySound, Owns
<1>5. DOMAIN NoEntries = Slots
  BY DEF NoEntries, Slots
<1>8. ASSUME NEW e, EntrySound(e, link, dirs, first, nth), Owns(e) => e.clust # n
      PROVE  EntrySound(e, link2, dirs2, first2, nth2)
  <2>1. Owns(e) => e.clust \in Clusters
    BY <1>8 DEF EntrySound, Owns
  <2>2. Owns(e) => Begins(link2, e.clust)
    BY <1>8, <2>1, <1>2 DEF EntrySound
  <2>3. Owns(e) /\ ~IsDir(e) => SizeFits(link2, first2, nth2, e.clust, e.size)
    <3>1. SUFFICES ASSUME Owns(e), ~IsDir(e), NEW d \in Clusters, link2[d] = EOC, first2[d] = e.clust
                   PROVE  nth2[d] = (e.size + SS - 1) \div SS
      BY DEF SizeFits
    <3>2. d # n /\ d # c
      <4>1. e.clust \notin dirs
        BY <1>8, <3>1 DEF EntrySound, Owns
      <4>2. d # n
        BY <4>1, <3>1, <1>1, <1>3, <1>00
      <4>3. QED BY <4>2, <3>1, <1>1, <1>00, EocIsNone
    <3>3. link[d] = EOC /\ first[d] = e.clust
      BY <3>1, <3>2, <1>1
    <3>4. nth[d] = (e.size + SS - 1) \div SS
      BY <1>8, <3>1, <3>3 DEF EntrySound, SizeFits
    <3>5. QED BY <3>4, <3>2, <1>1
  <2>4. Live(e) /\ e.clust # 0 => (e.clust \in dirs <=> e.clust \in dirs2)
    <3>1. Live(e) /\ e.clust = n => Owns(e)
      BY <1>8, <1>00, EocIsNone DEF EntrySound, Owns
    <3>2. QED BY <3>1, <1>8
  <2>5. QED BY <1>8, <2>2, <2>3, <2>4 DEF EntrySound
<1>9. EntriesSound(link2, content2, dirs2, first2, nth2)
  <2>1. ROOT # n /\ ROOT \in Clusters
    BY <1>0, <1>00 DEF EntriesSound, LinksSound
  <2>2. Begins(link2, ROOT) /\ ROOT \in dirs2
    BY <1>0, <1>2, <2>1 DEF EntriesSound
  <2>3. ASSUME NEW d \in dirs, NEW i \in Slots
        PROVE  EntrySound(content[d][i], link2, dirs2, first2, nth2)
    <3>1. EntrySound(content[d][i], link, dirs, first, nth)
      BY <1>0 DEF EntriesSound
    <3>2. Owns(content[d][i]) => content[d][i].clust # n
      BY DEF Loose
    <3>3. QED BY <3>1, <3>2, <1>8
  <2>4. /\ content2[n] = NoEntries
        /\ \A d \in dirs : content2[d] = content[d] /\ d # n /\ d \in Clusters
    BY <1>1, <1>00, <1>0 DEF LinksSound
  <2>5. /\ \A d \in dirs2 : DOMAIN content2[d] = Slots
        /\ \A d \in dirs2 : \A i \in Slots : EntrySound(content2[d][i], link2, dirs2, first2, nth2)
    BY <1>0, <1>4, <1>5, <2>3, <2>4 DEF EntriesSound
  <2>6. \A d, f \in dirs2 : \A i, k \in Slots :
          Owns(content2[d][i]) /\ Owns(content2[f][k]) /\ content2[d][i].clust = content2[f][k].clust
              => d = f /\ i = k
    BY <1>0, <1>4, <2>4 DEF EntriesSound
  <2>7. QED BY <2>2, <2>5, <2>6 DEF EntriesSound
<1>10. /\ content2[n] = NoEntries
       /\ \A d \in dirs : content2[d] = content[d] /\ d # n /\ d \in Clusters
  BY <1>1, <1>00, <1>0 DEF LinksSound
<1>11. Untended(link2, content2, dirs2) \subseteq Untended(link, content, dirs) \ {n}
  BY <1>2, <1>10 DEF Untended
<1>12. ASSUME NEW level, Tidy(content, dirs, first, nth, level)
       PROVE  Tidy(content2, dirs2, first2, nth2, level)
  <2>1. /\ \A d \in dirs : first2[d] = first[d] /\ nth2[d] = nth[d]
        /\ first2[n] = first[c] /\ nth2[n] = nth[c] + 1
    BY <1>1, <1>10, <1>00
  <2>2. \A i \in Slots : IsEnd(NoEntries[i]) /\ ~Live(NoEntries[i])
    <3>1. NoEntry.name[1] = NUL
      BY FatAssumption DEF NoEntry
    <3>2. QED BY <3>1 DEF NoEntries, Slots, IsEnd, Live, IsFree
  <2>3. ASSUME NEW d \in dirs, first[d] = first[c] PROVE nth[d] <= nth[c] /\ nth[d] \in Nat /\ nth[c] \in Nat
    <3>1. link[d] # 0 /\ link[c] # 0 /\ d \in Clusters
      BY <1>0 DEF LinksSound
    <3>2. QED BY <3>1, <2>3, <1>0, <1>00 DEF ChainsSound
  <2>4. ASSUME NEW d \in dirs2, NEW f \in dirs2, NEW i \in Slots, NEW k \in Slots,
               Before(first2, nth2, d, i, f, k), IsEnd(content2[d][i])
        PROVE  IsEnd(content2[f][k])
    <3>1. CASE f = n
      BY <3>1, <2>2, <1>10
    <3>2. CASE f # n /\ d = n
      <4>1. f \in dirs
        BY <3>2
      <4>2. first[f] = first[c] /\ nth[c] + 1 < nth[f]
        BY <3>2, <4>1, <2>1, <2>4 DEF Before
      <4>3. QED BY <4>1, <4>2, <2>3
    <3>3. CASE f # n /\ d # n
      <4>1. f \in dirs /\ d \in dirs
        BY <3>3
      <4>2. Before(first, nth, d, i, f, k) /\ IsEnd(content[d][i])
        BY <4>1, <2>1, <2>4, <1>10 DEF Before
      <4>3. QED BY <4>1, <4>2, <1>10, <1>12 DEF Tidy, Filled
    <3>4. QED BY <3>1, <3>2, <3>3
  <2>5. Rooted(content2, dirs2, first2, level)
    BY <1>12, <1>10, <2>1, <2>2 DEF Tidy, Rooted, Owns
  <2>6. Listable(content2, dirs2)
    BY <1>12, <1>10, <2>2 DEF Tidy, Listable
  <2>7. QED BY <2>4, <2>5, <2>6 DEF Tidy, Filled
<1>13. QED BY <1>2, <1>9, <1>11, <1>12 DEF Sound, link2, first2, nth2, content2

\* The chains can be told again, those of the directories as before.
Retold(link2, content, dirs, first, nth) ==
    \E first2 \in [Clusters -> Clusters], nth2 \in [Clusters -> Nat] :
        /\ Sound(link2, content, dirs, first2, nth2)
        /\ \A d \in dirs : first2[d] = first[d] /\ nth2[d] = nth[d]

\* A loose cluster is freed; the one it was linked to is loose then.
LEMMA FreeSound ==
    ASSUME NEW link, NEW content, NEW dirs, NEW first, NEW nth, NEW c, NEW link2,
           IsLink(link), DOMAIN first = Clusters, DOMAIN nth = Clusters,
           Sound(link, content, dirs, first, nth), Loose(link, content, dirs, c),
           link2 = [link EXCEPT ![c] = 0]
    PROVE  /\ Retold(link2, content, dirs, first, nth)
           /\ link[c] \in Clusters => Loose(link2, content, dirs, link[c])
           /\ \A h \in Untended(link2, content, dirs) :
                 h = link[c] \/ (h # c /\ h \in Untended(link, content, dirs))
<1> DEFINE moved(x) == first[x] = c /\ link[x] # 0
           first2 == [x \in Clusters |-> IF moved(x) /\ x # c THEN link[c]
                                         ELSE IF first[x] \in Clusters THEN first[x] ELSE ROOT]
           nth2   == [x \in Clusters |-> IF moved(x) /\ x # c THEN nth[x] - 1
                                         ELSE IF nth[x] \in Nat THEN nth[x] ELSE 0]
           m == link[c]
<1>0. /\ LinksSound(link, dirs) /\ ChainsSound(link, dirs, first, nth)
      /\ EntriesSound(link, content, dirs, first, nth)
  BY DEF Sound
<1>00. c \in Clusters \ dirs /\ Begins(link, c) /\ link[c] # 0
  BY DEF Loose, Begins
<1>1. \A x \in Clusters : link2[x] = IF x = c THEN 0 ELSE link[x]
  BY <1>00 DEF IsLink
<1>2. /\ first[c] = c /\ nth[c] = 1
      /\ \A x \in Clusters : link[x] # 0 => first[x] \in Clusters /\ nth[x] \in Nat \ {0}
  BY <1>0, <1>00 DEF ChainsSound
<1>3. \A x \in Clusters : moved(x) /\ x # c => nth[x] - 1 \in Nat \ {0} /\ m \in Clusters
  <2>1. ASSUME NEW x \in Clusters, moved(x), x # c PROVE nth[x] - 1 \in Nat \ {0} /\ m \in Clusters
    <3>1. nth[x] # 1
      BY <2>1, <1>0, <1>00, <1>2 DEF ChainsSound
    <3>2. nth[x] - 1 \in Nat \ {0}
      BY <3>1, <2>1, <1>2
    <3>3. m # EOC
      <4>1. SUFFICES ASSUME m = EOC PROVE FALSE
        OBVIOUS
      <4>2. nth[x] <= nth[c]
        BY <4>1, <2>1, <1>0, <1>00, <1>2 DEF ChainsSound
      <4>3. nth[x] \in Nat
        BY <2>1, <1>2
      <4>4. QED BY <4>2, <4>3, <3>1, <3>2, <1>2
    <3>4. QED BY <3>2, <3>3, <1>0, <1>00 DEF LinksSound
  <2>2. QED BY <2>1
<1>4. /\ \A x \in Clusters : link2[x] # 0 =>
            /\ x # c /\ link[x] # 0
            /\ first2[x] = IF first[x] = c THEN m ELSE first[x]
            /\ nth2[x]   = IF first[x] = c THEN nth[x] - 1 ELSE nth[x]
      /\ first2 \in [Clusters -> Clusters] /\ nth2 \in [Clusters -> Nat]
  <2>1. ASSUME NEW x \in Clusters, link2[x] # 0
        PROVE  /\ x # c /\ link[x] # 0
               /\ first2[x] = IF first[x] = c THEN m ELSE first[x]
               /\ nth2[x]   = IF first[x] = c THEN nth[x] - 1 ELSE nth[x]
    <3>1. x # c /\ link[x] # 0
      BY <2>1, <1>1
    <3>2. first[x] \in Clusters /\ nth[x] \in Nat
      BY <3>1, <1>2
    <3>3. QED BY <3>1, <3>2
  <2>2. \A x \in Clusters : first2[x] \in Clusters
    BY <1>3, FatAssumption DEF Clusters
  <2>3. \A x \in Clusters : nth2[x] \in Nat
    BY <1>3
  <2>4. QED BY <2>1, <2>2, <2>3
<1>5. m # c /\ \A x \in Clusters : Begins(link2, x) <=> x # c /\ (x = m \/ Begins(link, x))
  <2>1. m # c
    BY <1>00 DEF Begins
  <2>2. ASSUME NEW x \in Clusters PROVE Begins(link2, x) <=> x # c /\ (x = m \/ Begins(link, x))
    <3>1. CASE x = c
      BY <3>1, <1>1 DEF Begins
    <3>2. CASE x # c /\ x = m
      <4>1. \A d \in Clusters : link[d] = x => d = c
        BY <3>2, <1>0, <1>00 DEF LinksSound
      <4>2. \A d \in Clusters : link2[d] # x
        BY <4>1, <1>1, EocIsNone
      <4>3. link2[x] # 0
        BY <3>2, <1>0, <1>00, <1>1 DEF LinksSound
      <4>4. QED BY <4>2, <4>3, <3>2 DEF Begins
    <3>3. CASE x # c /\ x # m
      BY <3>3, <1>1, <1>00, EocIsNone DEF Begins
    <3>4. QED BY <3>1, <3>2, <3>3
  <2>3. QED BY <2>1, <2>2
<1>50. m \in Clusters => /\ m \notin dirs /\ ~Begins(link, m) /\ first[m] = c /\ link[m] # 0
                         /\ nth[m] = 2 /\ first2[m] = m /\ nth2[m] = 1
  <2>1. SUFFICES ASSUME m \in Clusters
                 PROVE  /\ m \notin dirs /\ ~Begins(link, m) /\ first[m] = c /\ link[m] # 0
                        /\ nth[m] = 2 /\ first2[m] = m /\ nth2[m] = 1
    OBVIOUS
  <2>2. m \notin dirs /\ link[m] # 0
    BY <2>1, <1>0, <1>00 DEF LinksSound
  <2>3. ~Begins(link, m)
    BY <1>00 DEF Begins
  <2>4. first[m] = c /\ nth[m] = 2
    BY <2>1, <1>0, <1>00, <1>2 DEF ChainsSound
  <2>5. link2[m] # 0
    BY <2>1, <2>2, <1>1, <1>5
  <2>6. first2[m] = m /\ nth2[m] = 1
    BY <2>1, <2>4, <2>5, <1>4
  <2>7. QED BY <2>2, <2>3, <2>4, <2>6
<1> HIDE DEF first2, nth2
<1>6. LinksSound(link2, dirs)
  <2>1. \A d \in dirs : d # c
    BY <1>00
  <2>2. \A x \in Clusters : link2[x] \in Clusters => link2[link2[x]] # 0
    BY <1>0, <1>1, <1>00, EocIsNone DEF LinksSound, Begins
  <2>3. QED BY <1>0, <1>1, <2>1, <2>2, EocIsNone DEF LinksSound
<1>7. ChainsSound(link2, dirs, first2, nth2)
  <2>1. ASSUME NEW x \in Clusters, Begins(link2, x) PROVE first2[x] = x
    <3>1. link2[x] # 0 /\ x # c /\ (x = m \/ Begins(link, x))
      BY <2>1, <1>5 DEF Begins
    <3>2. CASE x = m
      BY <3>2, <1>50
    <3>3. CASE Begins(link, x)
      <4>1. first[x] = x
        BY <3>3, <1>0 DEF ChainsSound
      <4>2. QED BY <4>1, <3>1, <1>4
    <3>4. QED BY <3>1, <3>2, <3>3
  <2>2. ASSUME NEW x \in Clusters, link2[x] # 0
        PROVE  /\ first2[x] \in Clusters /\ Begins(link2, first2[x])
               /\ first2[x] \in dirs <=> x \in dirs
               /\ nth2[x] \in Nat \ {0} /\ nth2[first2[x]] = 1
    <3>1. /\ x # c /\ link[x] # 0
          /\ first2[x] = IF first[x] = c THEN m ELSE first[x]
          /\ nth2[x]   = IF first[x] = c THEN nth[x] - 1 ELSE nth[x]
      BY <2>2, <1>4
    <3>2. /\ first[x] \in Clusters /\ Begins(link, first[x])
          /\ first[x] \in dirs <=> x \in dirs
          /\ nth[x] \in Nat \ {0} /\ nth[first[x]] = 1
      BY <3>1, <1>0 DEF ChainsSound
    <3>3. CASE first[x] = c
      <4>1. m \in Clusters /\ nth[x] - 1 \in Nat \ {0}
        BY <3>1, <3>3, <1>3
      <4>2. x \notin dirs
        BY <3>2, <3>3, <1>00
      <4>3. Begins(link2, m)
        BY <4>1, <1>5
      <4>4. QED BY <3>1, <3>3, <4>1, <4>2, <4>3, <1>50
    <3>4. CASE first[x] # c
      <4>1. Begins(link2, first[x])
        BY <3>2, <3>4, <1>5
      <4>2. link2[first[x]] # 0
        BY <4>1 DEF Begins
      <4>3. first[first[x]] = first[x]
        BY <3>2, <1>0 DEF ChainsSound
      <4>4. nth2[first[x]] = 1
        BY <4>2, <4>3, <3>2, <3>4, <1>4
      <4>5. QED BY <3>1, <3>2, <3>4, <4>1, <4>4
    <3>5. QED BY <3>3, <3>4
  <2>3. ASSUME NEW x \in Clusters, link2[x] \in Clusters
        PROVE  first2[link2[x]] = first2[x] /\ nth2[link2[x]] = nth2[x] + 1
    <3>1. link2[x] # 0 /\ x # c /\ link2[x] = link[x] /\ link[x] # 0
      BY <2>3, <1>1, EocIsNone
    <3>2. first[link[x]] = first[x] /\ nth[link[x]] = nth[x] + 1 /\ nth[x] \in Nat
      BY <3>1, <2>3, <1>0 DEF ChainsSound
    <3>3. link2[link2[x]] # 0
      BY <2>3, <1>6 DEF LinksSound
    <3>4. QED BY <3>1, <3>2, <3>3, <2>3, <1>4
  <2>4. ASSUME NEW x \in Clusters, NEW d \in Clusters, link2[x] # 0, link2[d] # 0, first2[x] = first2[d]
        PROVE  /\ nth2[x] = nth2[d] => x = d
               /\ link2[d] = EOC => nth2[x] <= nth2[d]
    <3>1. /\ x # c /\ link[x] # 0
          /\ first2[x] = IF first[x] = c THEN m ELSE first[x]
          /\ nth2[x]   = IF first[x] = c THEN nth[x] - 1 ELSE nth[x]
      BY <2>4, <1>4
    <3>2. /\ d # c /\ link[d] # 0
          /\ first2[d] = IF first[d] = c THEN m ELSE first[d]
          /\ nth2[d]   = IF first[d] = c THEN nth[d] - 1 ELSE nth[d]
      BY <2>4, <1>4
    <3>3. first[x] # m /\ first[d] # m
      BY <3>1, <3>2, <1>0, <1>50 DEF ChainsSound
    <3>4. first[x] = first[d]
      BY <3>1, <3>2, <3>3, <2>4
    <3>5. /\ nth[x] = nth[d] => x = d
          /\ link[d] = EOC => nth[x] <= nth[d]
      BY <3>1, <3>2, <3>4, <1>0 DEF ChainsSound
    <3>6. nth[x] \in Nat /\ nth[d] \in Nat /\ link2[d] = link[d]
      BY <3>1, <3>2, <1>2, <1>1
    <3>7. QED BY <3>1, <3>2, <3>4, <3>5, <3>6
  <2>5. QED BY <2>1, <2>2, <2>3, <2>4 DEF ChainsSound
<1>8. ASSUME NEW e, EntrySound(e, link, dirs, first, nth), Owns(e) => e.clust # c
      PROVE  EntrySound(e, link2, dirs, first2, nth2)
  <2>1. Owns(e) => e.clust \in Clusters
    BY <1>8 DEF EntrySound, Owns
  <2>2. Owns(e) => Begins(link2, e.clust)
    BY <1>8, <2>1, <1>5 DEF EntrySound
  <2>3. Owns(e) /\ ~IsDir(e) => SizeFits(link2, first2, nth2, e.clust, e.size)
    <3>1. SUFFICES ASSUME Owns(e), ~IsDir(e), NEW d \in Clusters, link2[d] = EOC, first2[d] = e.clust
                   PROVE  nth2[d] = (e.size + SS - 1) \div SS
      BY DEF SizeFits
    <3>2. link2[d] # 0 /\ d # c /\ link[d] = EOC
      BY <3>1, <1>1, EocIsNone
    <3>3. e.clust # m
      BY <3>1, <1>8, <2>1, <1>50 DEF EntrySound
    <3>4. first[d] = e.clust /\ nth2[d] = nth[d]
      BY <3>1, <3>2, <3>3, <1>4, <1>8
    <3>5. nth[d] = (e.size + SS - 1) \div SS
      BY <1>8, <3>1, <3>2, <3>4 DEF EntrySound, SizeFits
    <3>6. QED BY <3>4, <3>5
  <2>4. QED BY <1>8, <2>2, <2>3 DEF EntrySound
<1>9. EntriesSound(link2, content, dirs, first2, nth2)
  <2>1. ROOT # c /\ ROOT \in Clusters
    BY <1>0, <1>00 DEF EntriesSound, LinksSound
  <2>2. Begins(link2, ROOT)
    BY <1>0, <1>5, <2>1 DEF EntriesSound
  <2>3. ASSUME NEW d \in dirs, NEW i \in Slots PROVE EntrySound(content[d][i], link2, dirs, first2, nth2)
    <3>1. EntrySound(content[d][i], link, dirs, first, nth)
      BY <1>0 DEF EntriesSound
    <3>2. Owns(content[d][i]) => content[d][i].clust # c
      BY DEF Loose
    <3>3. QED BY <3>1, <3>2, <1>8
  <2>4. QED BY <1>0, <2>3, <2>2 DEF EntriesSound
<1>10. m \in Clusters => Loose(link2, content, dirs, m)
  <2>1. SUFFICES ASSUME m \in Clusters PROVE Loose(link2, content, dirs, m)
    OBVIOUS
  <2>2. m \notin dirs /\ Begins(link2, m)
    BY <2>1, <1>5, <1>50
  <2>3. ASSUME NEW d \in dirs, NEW i \in Slots, Owns(content[d][i]), content[d][i].clust = m PROVE FALSE
    <3>1. EntrySound(content[d][i], link, dirs, first, nth)
      BY <1>0 DEF EntriesSound
    <3>2. Begins(link, m)
      BY <2>3, <3>1 DEF EntrySound
    <3>3. QED BY <3>2, <2>1, <1>50
  <2>4. QED BY <2>1, <2>2, <2>3 DEF Loose
<1>11. Sound(link2, content, dirs, first2, nth2)
  BY <1>6, <1>7, <1>9 DEF Sound
<1>12. ASSUME NEW d \in dirs PROVE first2[d] = first[d] /\ nth2[d] = nth[d]
  <2>1. d \in Clusters /\ d # c /\ link[d] # 0
    BY <1>0, <1>00 DEF LinksSound
  <2>2. first[d] # c
    BY <2>1, <1>0, <1>00 DEF ChainsSound
  <2>3. link2[d] # 0
    BY <2>1, <1>1
  <2>4. QED BY <2>1, <2>2, <2>3, <1>4
<1>13. \A h \in Untended(link2, content, dirs) :
          h = link[c] \/ (h # c /\ h \in Untended(link, content, dirs))
  BY <1>5 DEF Untended
<1>15. Retold(link2, content, dirs, first, nth)
  BY <1>4, <1>11, <1>12 DEF Retold
<1>14. QED BY <1>10, <1>13, <1>15

\* No entry before the entry j of k is the end of the directory.
Earlier(content, dirs, first, nth, k, j) ==
    \A d \in dirs : \A i \in Slots : Before(first, nth, d, i, k, j) => ~IsEnd(content[d][i])

\* A file's entry is set: to no cluster, or to a loose chain that fits its size.
LEMMA EntrySet ==
    ASSUME NEW link, NEW content, NEW dirs, NEW first, NEW nth, NEW k \in dirs, NEW j \in Slots, NEW e,
           IsLink(content), Sound(link, content, dirs, first, nth),
           DOMAIN e = {"name", "attr", "clust", "size"}, e.size \in Nat, Live(e), ~IsDir(e),
           \/ e.clust = 0 /\ e.size = 0
           \/ Loose(link, content, dirs, e.clust) /\ SizeFits(link, first, nth, e.clust, e.size)
    PROVE  LET content2 == [content EXCEPT ![k] = [content[k] EXCEPT ![j] = e]]
           IN  /\ Sound(link, content2, dirs, first, nth)
               /\ \A c : Loose(link, content, dirs, c) /\ c # e.clust => Loose(link, content2, dirs, c)
               /\ Owns(content[k][j]) /\ ~IsDir(content[k][j]) /\ content[k][j].clust # e.clust
                     => Loose(link, content2, dirs, content[k][j].clust)
               /\ Untended(link, content2, dirs)
                     \subseteq (Untended(link, content, dirs) \ {e.clust})
                               \cup (IF Owns(content[k][j]) THEN {content[k][j].clust} ELSE {})
               /\ \A level : Tidy(content, dirs, first, nth, level) /\ e.name[1] # "."
                             /\ (IsEnd(content[k][j]) => Earlier(content, dirs, first, nth, k, j))
                     => Tidy(content2, dirs, first, nth, level)
<1> DEFINE content2 == [content EXCEPT ![k] = [content[k] EXCEPT ![j] = e]]
<1>0. /\ LinksSound(link, dirs) /\ ChainsSound(link, dirs, first, nth)
      /\ EntriesSound(link, content, dirs, first, nth)
  BY DEF Sound
<1>1. /\ \A d \in dirs : DOMAIN content2[d] = Slots
      /\ \A d \in dirs : \A i \in Slots : content2[d][i] = IF d = k /\ i = j THEN e ELSE content[d][i]
  <2>1. dirs \subseteq Clusters /\ \A d \in dirs : DOMAIN content[d] = Slots
    BY <1>0 DEF LinksSound, EntriesSound
  <2>2. QED BY <2>1 DEF IsLink
<1> HIDE DEF content2
<1>2. e.clust # 0 => /\ e.clust \in Clusters \ dirs /\ Begins(link, e.clust) /\ e.clust # ROOT
                     /\ SizeFits(link, first, nth, e.clust, e.size)
                     /\ \A d \in dirs : \A i \in Slots : ~(Owns(content[d][i]) /\ content[d][i].clust = e.clust)
  BY <1>0 DEF Loose, EntriesSound
<1>3. EntrySound(e, link, dirs, first, nth)
  <2>1. e.clust = 0 => e.size = 0
    BY EocIsNone DEF Loose
  <2>2. QED BY <1>2, <2>1 DEF EntrySound, Owns
<1>4. EntriesSound(link, content2, dirs, first, nth)
  <2>1. \A d \in dirs : \A i \in Slots : EntrySound(content2[d][i], link, dirs, first, nth)
    BY <1>0, <1>1, <1>3 DEF EntriesSound
  <2>2. ASSUME NEW d \in dirs, NEW f \in dirs, NEW i \in Slots, NEW h \in Slots,
               Owns(content2[d][i]), Owns(content2[f][h]), content2[d][i].clust = content2[f][h].clust
        PROVE  d = f /\ i = h
    <3>1. CASE (d = k /\ i = j) /\ (f = k /\ h = j)
      BY <3>1
    <3>2. CASE (d = k /\ i = j) /\ ~(f = k /\ h = j)
      BY <3>2, <2>2, <1>1, <1>2 DEF Owns
    <3>3. CASE ~(d = k /\ i = j) /\ (f = k /\ h = j)
      BY <3>3, <2>2, <1>1, <1>2 DEF Owns
    <3>4. CASE ~(d = k /\ i = j) /\ ~(f = k /\ h = j)
      BY <3>4, <2>2, <1>0, <1>1 DEF EntriesSound
    <3>5. QED BY <3>1, <3>2, <3>3, <3>4
  <2>3. QED BY <1>0, <1>1, <2>1, <2>2 DEF EntriesSound
<1>5. ASSUME NEW c, Loose(link, content, dirs, c), c # e.clust PROVE Loose(link, content2, dirs, c)
  BY <1>5, <1>1 DEF Loose
<1>6. ASSUME Owns(content[k][j]), ~IsDir(content[k][j]), content[k][j].clust # e.clust
      PROVE  Loose(link, content2, dirs, content[k][j].clust)
  <2>1. EntrySound(content[k][j], link, dirs, first, nth)
    BY <1>0 DEF EntriesSound
  <2>2. content[k][j].clust \in Clusters \ dirs /\ Begins(link, content[k][j].clust)
    BY <2>1, <1>6 DEF EntrySound, Owns
  <2>3. \A d \in dirs : \A i \in Slots : ~(Owns(content2[d][i]) /\ content2[d][i].clust = content[k][j].clust)
    BY <1>6, <1>0, <1>1 DEF EntriesSound
  <2>4. QED BY <2>2, <2>3 DEF Loose
<1>7. Untended(link, content2, dirs)
         \subseteq (Untended(link, content, dirs) \ {e.clust})
                   \cup (IF Owns(content[k][j]) THEN {content[k][j].clust} ELSE {})
  <2>1. SUFFICES ASSUME NEW h \in Untended(link, content2, dirs),
                        ~(Owns(content[k][j]) /\ h = content[k][j].clust)
                 PROVE  h \in Untended(link, content, dirs) /\ h # e.clust
    OBVIOUS
  <2>2. h \in Clusters \ {ROOT} /\ Begins(link, h)
        /\ \A d \in dirs : \A i \in Slots : Owns(content2[d][i]) => content2[d][i].clust # h
    BY <2>1 DEF Untended
  <2>3. h # e.clust
    <3>1. SUFFICES ASSUME h = e.clust PROVE FALSE
      OBVIOUS
    <3>2. Owns(e)
      BY <3>1, <2>2, EocIsNone DEF Owns
    <3>3. QED BY <3>1, <3>2, <2>2, <1>1
  <2>4. \A d \in dirs : \A i \in Slots : Owns(content[d][i]) => content[d][i].clust # h
    BY <2>1, <2>2, <1>1
  <2>5. QED BY <2>2, <2>3, <2>4 DEF Untended
<1>8. ASSUME NEW level, Tidy(content, dirs, first, nth, level), e.name[1] # ".",
             IsEnd(content[k][j]) => Earlier(content, dirs, first, nth, k, j)
      PROVE  Tidy(content2, dirs, first, nth, level)
  <2>1. ~IsEnd(e)
    BY DEF Live, IsFree, IsEnd
  <2>2. ASSUME NEW d \in dirs, NEW f \in dirs, NEW i \in Slots, NEW h \in Slots,
               Before(first, nth, d, i, f, h), IsEnd(content2[d][i])
        PROVE  IsEnd(content2[f][h])
    <3>1. ~(d = k /\ i = j) /\ IsEnd(content[d][i])
      BY <2>1, <2>2, <1>1
    <3>2. IsEnd(content[f][h])
      BY <3>1, <2>2, <1>8 DEF Tidy, Filled
    <3>3. ~(f = k /\ h = j)
      BY <3>1, <3>2, <2>2, <1>8 DEF Earlier
    <3>4. QED BY <3>2, <3>3, <1>1
  <2>3. Rooted(content2, dirs, first, level)
    BY <1>8, <1>1 DEF Tidy, Rooted, Owns
  <2>4. Listable(content2, dirs)
    BY <1>8, <1>1 DEF Tidy, Listable
  <2>5. QED BY <2>2, <2>3, <2>4 DEF Tidy, Filled
<1>9. QED BY <1>0, <1>4, <1>5, <1>6, <1>7, <1>8 DEF Sound, content2

\* What is no directory may hold anything.
LEMMA DataSound ==
    ASSUME NEW link, NEW content, NEW content2, NEW dirs, NEW first, NEW nth,
           Sound(link, content, dirs, first, nth), \A d \in dirs : content2[d] = content[d]
    PROVE  /\ Sound(link, content2, dirs, first, nth)
           /\ \A c : Loose(link, content, dirs, c) => Loose(link, content2, dirs, c)
BY DEF Sound, EntriesSound, Loose

-----------------------------------------------------------------------------
(* Where things are on the disk.                                            *)

FatAt(b, c)  == b + FatBase + c \div EPS
SectAt(b, c) == b + DataBase + c - 2

\* Division by EPS, which places a link in its sector.
LEMMA Placed ==
    /\ FSize \in Nat
    /\ \A c \in Clusters : c \div EPS \in 0..FSize - 1 /\ c % EPS \in 0..EPS - 1
    /\ \A c, d \in Clusters : c \div EPS = d \div EPS /\ c % EPS = d % EPS => c = d
<1>1. EPS \in Nat /\ EPS > 0 /\ N_FATENT \in Nat
  BY FatAssumption
<1>2. \A x \in Nat : x = EPS * (x \div EPS) + (x % EPS) /\ x \div EPS \in Nat /\ x % EPS \in 0..EPS - 1
  BY <1>1
<1>3. N_FATENT + EPS - 1 \in Nat
  BY <1>1
<1>4. FSize \in Nat /\ EPS * FSize + (EPS - 1) >= N_FATENT + EPS - 1
  <2>1. N_FATENT + EPS - 1 = EPS * FSize + ((N_FATENT + EPS - 1) % EPS) /\ FSize \in Nat
    BY <1>2, <1>3 DEF FSize
  <2>2. (N_FATENT + EPS - 1) % EPS \in 0..EPS - 1
    BY <1>2, <1>3
  <2>3. QED BY <2>1, <2>2, <1>1
<1>5. ASSUME NEW c \in Clusters PROVE c \div EPS \in 0..FSize - 1 /\ c % EPS \in 0..EPS - 1
  <2>1. c \in Nat /\ c < N_FATENT
    BY <1>1 DEF Clusters
  <2>2. c = EPS * (c \div EPS) + (c % EPS) /\ c \div EPS \in Nat /\ c % EPS \in 0..EPS - 1
    BY <2>1, <1>2
  <2>3. EPS * (c \div EPS) < EPS * FSize
    <3>1. EPS * (c \div EPS) \in Nat /\ EPS * FSize \in Nat
      BY <2>2, <1>1, <1>4
    <3>2. QED BY <2>1, <2>2, <1>4, <1>1, <3>1
  <2>4. c \div EPS < FSize
    <3>1. ASSUME NEW q \in Nat, EPS * q < EPS * FSize PROVE q < FSize
      <4>1. CASE q >= FSize
        <5>1. EPS * q >= EPS * FSize
          BY <4>1, <1>1, <1>4
        <5>2. QED BY <5>1, <3>1, <1>1, <1>4
      <4>2. QED BY <4>1, <1>4
    <3>2. QED BY <2>2, <2>3, <3>1
  <2>5. QED BY <2>2, <2>4, <1>4
<1>6. ASSUME NEW c \in Clusters, NEW d \in Clusters, c \div EPS = d \div EPS, c % EPS = d % EPS PROVE c = d
  <2>1. c \in Nat /\ d \in Nat
    BY <1>1 DEF Clusters
  <2>2. c = EPS * (c \div EPS) + (c % EPS) /\ d = EPS * (d \div EPS) + (d % EPS)
    BY <2>1, <1>2
  <2>3. QED BY <2>2, <1>6
<1>7. QED BY <1>4, <1>5, <1>6

\* No two of these sectors are the same.
LEMMA SectorsApart ==
    ASSUME NEW b \in Nat
    PROVE  /\ FSize \in Nat /\ DataBase \in Nat
           /\ \A c \in Clusters :
                 /\ FatAt(b, c) \in b + FatBase..b + FatBase + FSize - 1
                 /\ FatAt(b, c) \in Volume(b) /\ FatAt(b, c) # b
                 /\ FatAt(b, c) + FSize \in Volume(b) /\ FatAt(b, c) + FSize # b
                 /\ SectAt(b, c) \in Volume(b) /\ SectAt(b, c) # b
                 /\ SectAt(b, c) \notin b + FatBase..b + FatBase + FSize - 1
                 /\ FatAt(b, c) + FSize \notin b + FatBase..b + FatBase + FSize - 1
           /\ \A c, d \in Clusters :
                 /\ FatAt(b, c) # SectAt(b, d)
                 /\ FatAt(b, c) + FSize # SectAt(b, d)
                 /\ FatAt(b, c) # FatAt(b, d) + FSize
                 /\ SectAt(b, c) = SectAt(b, d) => c = d
                 /\ FatAt(b, c) = FatAt(b, d) /\ c % EPS = d % EPS => c = d
                 /\ b + 1 # FatAt(b, c) /\ b + 1 # SectAt(b, c)
           /\ b + 1 \in Volume(b)
<1>1. N_FATENT \in Nat /\ N_FATENT >= 3
  BY FatAssumption
<1>2. DataBase = 2 + 2 * FSize /\ FatBase = 2 /\ FSize \in Nat
  BY Placed DEF DataBase, FatBase
<1>3. Volume(b) = b..b + DataBase + N_FATENT - 3
  BY DEF Volume
<1>4. ASSUME NEW c \in Clusters
      PROVE  /\ c \in Nat /\ c >= 2 /\ c < N_FATENT
             /\ c \div EPS \in Nat /\ c \div EPS < FSize
             /\ FatAt(b, c) = b + 2 + c \div EPS
             /\ SectAt(b, c) = b + 2 + 2 * FSize + c - 2
  BY <1>1, <1>2, Placed DEF Clusters, FatAt, SectAt
<1>5. ASSUME NEW c \in Clusters, NEW d \in Clusters, FatAt(b, c) = FatAt(b, d), c % EPS = d % EPS PROVE c = d
  <2>1. c \div EPS = d \div EPS
    BY <1>5, <1>4
  <2>2. QED BY <2>1, <1>5, Placed
<1>6. ASSUME NEW c \in Clusters
      PROVE  /\ FatAt(b, c) \in b + FatBase..b + FatBase + FSize - 1
             /\ FatAt(b, c) \in Volume(b) /\ FatAt(b, c) # b
             /\ FatAt(b, c) + FSize \in Volume(b) /\ FatAt(b, c) + FSize # b
             /\ SectAt(b, c) \in Volume(b) /\ SectAt(b, c) # b
             /\ SectAt(b, c) \notin b + FatBase..b + FatBase + FSize - 1
             /\ FatAt(b, c) + FSize \notin b + FatBase..b + FatBase + FSize - 1
             /\ b + 1 # FatAt(b, c) /\ b + 1 # SectAt(b, c)
  <2>1. /\ c \in Nat /\ c >= 2 /\ c < N_FATENT /\ b + FSize \in Nat
        /\ c \div EPS \in Nat /\ c \div EPS < FSize
        /\ FatAt(b, c) = b + 2 + c \div EPS /\ SectAt(b, c) = b + 2 + 2 * FSize + c - 2
    BY <1>2, <1>4
  <2> DEFINE x == c \div EPS
  <2> HIDE DEF x
  <2>2. x \in Nat /\ x < FSize /\ FatAt(b, c) = b + 2 + x
    BY <2>1 DEF x
  <2>3. /\ FatAt(b, c) \in b + FatBase..b + FatBase + FSize - 1
        /\ FatAt(b, c) + FSize \notin b + FatBase..b + FatBase + FSize - 1
        /\ FatAt(b, c) # b /\ FatAt(b, c) + FSize # b /\ b + 1 # FatAt(b, c)
    BY <1>2, <2>2
  <2>4. FatAt(b, c) \in Volume(b) /\ FatAt(b, c) + FSize \in Volume(b)
    BY <1>1, <1>2, <1>3, <2>2
  <2>5. /\ SectAt(b, c) \in Volume(b) /\ SectAt(b, c) # b /\ b + 1 # SectAt(b, c)
        /\ SectAt(b, c) \notin b + FatBase..b + FatBase + FSize - 1
    BY <1>1, <1>2, <1>3, <2>1
  <2>6. QED BY <2>3, <2>4, <2>5
<1>7. ASSUME NEW c \in Clusters, NEW d \in Clusters
      PROVE  /\ FatAt(b, c) # SectAt(b, d)
             /\ FatAt(b, c) + FSize # SectAt(b, d)
             /\ FatAt(b, c) # FatAt(b, d) + FSize
             /\ SectAt(b, c) = SectAt(b, d) => c = d
  BY <1>1, <1>2, <1>4
<1>8. b + 1 \in Volume(b)
  BY <1>1, <1>2, <1>3
<1>9. DataBase \in Nat
  BY <1>2
<1>10. QED BY <1>2, <1>5, <1>6, <1>7, <1>8, <1>9

-----------------------------------------------------------------------------
(* What a disk holds, and one sector of it changed.                         *)

\* As long as no call was cut, the directories are tidy and only lost chains have no owner.
Tended(q) ==
    q.base.whole => /\ Tidy(q.content, q.dirs, q.first, q.nth, q.base.level)
                    /\ Untended(q.link, q.content, q.dirs) \subseteq q.lost

(* The volume at b of a disk: its directories' clusters, links and contents,
   and the places in the chains.  base.disk is the disk as it was when the
   call began, base.whole tells whether no call before it was cut, base.level
   how deep the directories are; due is the number of clusters freed that
   free_clst does not count yet, and lost are the chains without an owner.  *)
IsShape(q) ==
    /\ DOMAIN q = {"b", "base", "due", "lost", "dirs", "link", "content", "first", "nth"}
    /\ q.b \in Nat /\ q.due \in Int /\ Tended(q)
    /\ IsLink(q.link) /\ IsLink(q.content) /\ DOMAIN q.first = Clusters /\ DOMAIN q.nth = Clusters
    /\ Sound(q.link, q.content, q.dirs, q.first, q.nth)

Reads(disk, b, link, content) ==
    Laid(disk, b) /\ Boots(disk, b) /\ Links(disk, b) = link /\ Held(disk, b) = content

\* A write inside the volume, but not to its boot record, moves no sector and still boots.
LEMMA SectorKept ==
    ASSUME NEW disk, NEW b, NEW s \in Volume(b) \ {b}, NEW x, Laid(disk, b), Boots(disk, b),
           s \in b + FatBase..b + FatBase + FSize - 1 => DOMAIN x = 0..EPS - 1
    PROVE  Laid([disk EXCEPT ![s] = x], b) /\ Boots([disk EXCEPT ![s] = x], b)
<1> DEFINE disk2 == [disk EXCEPT ![s] = x]
<1>1. /\ b \in Nat /\ DOMAIN disk2 = DOMAIN disk /\ s \in DOMAIN disk
      /\ \A t \in DOMAIN disk : disk2[t] = IF t = s THEN x ELSE disk[t]
  BY DEF Laid
<1> HIDE DEF disk2
<1>2. DataBase \in Nat /\ N_FATENT \in Nat /\ FSize \in Nat
  BY SectorsApart, <1>1, FatAssumption
<1>3. \A t \in Nat : t \notin Volume(b) \/ t = b => disk2[t] = disk[t] \/ t \notin DOMAIN disk
  BY <1>1
<1>4. Laid(disk2, b)
  <2>1. \A t \in b + FatBase..b + FatBase + FSize - 1 : t \in Volume(b)
    <3>1. FSize <= DataBase /\ DataBase = FatBase + 2 * FSize /\ FatBase = 2 /\ N_FATENT >= 3
      BY <1>2, FatAssumption DEF DataBase, FatBase
    <3>2. QED BY <3>1, <1>1, <1>2 DEF Volume
  <2>2. \A t \in b + FatBase..b + FatBase + FSize - 1 : DOMAIN disk2[t] = 0..EPS - 1
    BY <1>1, <2>1 DEF Laid
  <2>3. QED BY <1>1, <2>2 DEF Laid
<1>5. b \in DOMAIN disk /\ (b = 0 => s # 0) /\ s # b /\ s # 0
  <2>1. b \in Volume(b)
    BY <1>1, <1>2, FatAssumption DEF Volume, DataBase, FatBase
  <2>2. s >= b /\ s \in Nat
    BY <1>1, <1>2 DEF Volume
  <2>3. QED BY <2>1, <2>2, <1>1 DEF Laid
<1>6. (0 \in DOMAIN disk => disk2[0] = disk[0]) /\ disk2[b] = disk[b]
  BY <1>1, <1>5
<1>7. disk2[0] = disk[0]
  <2>1. CASE 0 \in DOMAIN disk
    BY <2>1, <1>6
  <2>2. CASE 0 \notin DOMAIN disk
    BY <2>2, <1>1, <1>5 DEF disk2
  <2>3. QED BY <2>1, <2>2
<1>8. \A p \in DOMAIN disk \ Volume(b) : disk2[p] = disk[p]
  BY <1>1
<1>9. Boots(disk2, b)
  BY <1>1, <1>6, <1>7, <1>8 DEF Boots
<1>10. QED BY <1>4, <1>9 DEF disk2

\* A link is written.
LEMMA LinkWritten ==
    ASSUME NEW disk, NEW b, NEW link, NEW content, NEW c \in Clusters, NEW val,
           Reads(disk, b, link, content)
    PROVE  Reads([disk EXCEPT ![FatAt(b, c)] = [disk[FatAt(b, c)] EXCEPT ![c % EPS] = val]],
                 b, [link EXCEPT ![c] = val], content)
<1> DEFINE s == FatAt(b, c)
           x == [disk[s] EXCEPT ![c % EPS] = val]
           disk2 == [disk EXCEPT ![s] = x]
<1>1. /\ b \in Nat /\ Volume(b) \subseteq DOMAIN disk
      /\ \A t \in b + FatBase..b + FatBase + FSize - 1 : DOMAIN disk[t] = 0..EPS - 1
      /\ Laid(disk, b) /\ Boots(disk, b) /\ Links(disk, b) = link /\ Held(disk, b) = content
  BY DEF Reads, Laid
<1>2. s \in Volume(b) \ {b} /\ s \in b + FatBase..b + FatBase + FSize - 1
  BY <1>1, SectorsApart
<1> HIDE DEF s
<1>3. DOMAIN x = 0..EPS - 1
  BY <1>1, <1>2
<1>4. Laid(disk2, b) /\ Boots(disk2, b)
  <2> HIDE DEF x
  <2>1. QED BY <1>1, <1>2, <1>3, SectorKept
<1>5. \A t \in DOMAIN disk : disk2[t] = IF t = s THEN x ELSE disk[t]
  OBVIOUS
<1>6. c % EPS \in 0..EPS - 1 /\ \A i \in 0..EPS - 1 : x[i] = IF i = c % EPS THEN val ELSE disk[s][i]
  BY <1>1, <1>2, Placed
<1> HIDE DEF disk2, x
<1>7. ASSUME NEW d \in Clusters
      PROVE  /\ disk2[FatAt(b, d)][d % EPS] = IF d = c THEN val ELSE disk[FatAt(b, d)][d % EPS]
             /\ disk2[SectAt(b, d)] = disk[SectAt(b, d)]
  <2>1. FatAt(b, d) \in DOMAIN disk /\ SectAt(b, d) \in DOMAIN disk /\ SectAt(b, d) # s
    BY <1>1, SectorsApart DEF s
  <2>2. d % EPS \in 0..EPS - 1
    BY Placed
  <2>3. FatAt(b, d) = s /\ d % EPS = c % EPS => d = c
    BY <1>1, SectorsApart DEF s
  <2>4. d = c => FatAt(b, d) = s
    BY DEF s
  <2>5. QED BY <2>1, <2>2, <2>3, <2>4, <1>5, <1>6
<1>8. Links(disk2, b) = [link EXCEPT ![c] = val]
  <2>1. link = [d \in Clusters |-> disk[FatAt(b, d)][d % EPS]]
    BY <1>1 DEF Links, FatAt
  <2>2. Links(disk2, b) = [d \in Clusters |-> disk2[FatAt(b, d)][d % EPS]]
    BY DEF Links, FatAt
  <2>3. QED BY <2>1, <2>2, <1>7
<1>9. Held(disk2, b) = content
  <2>1. content = [d \in Clusters |-> disk[SectAt(b, d)]]
    BY <1>1 DEF Held, SectAt
  <2>2. Held(disk2, b) = [d \in Clusters |-> disk2[SectAt(b, d)]]
    BY DEF Held, SectAt
  <2>3. QED BY <2>1, <2>2, <1>7
<1>10. QED BY <1>4, <1>8, <1>9 DEF Reads, disk2, x, s

\* What a cluster holds is written.
LEMMA ClusterWritten ==
    ASSUME NEW disk, NEW b, NEW link, NEW content, NEW c \in Clusters, NEW x,
           Reads(disk, b, link, content)
    PROVE  Reads([disk EXCEPT ![SectAt(b, c)] = x], b, link, [content EXCEPT ![c] = x])
<1> DEFINE s == SectAt(b, c)
           disk2 == [disk EXCEPT ![s] = x]
<1>1. /\ b \in Nat /\ Volume(b) \subseteq DOMAIN disk
      /\ Laid(disk, b) /\ Boots(disk, b) /\ Links(disk, b) = link /\ Held(disk, b) = content
  BY DEF Reads, Laid
<1>2. s \in Volume(b) \ {b} /\ s \notin b + FatBase..b + FatBase + FSize - 1
  BY <1>1, SectorsApart
<1> HIDE DEF s
<1>4. Laid(disk2, b) /\ Boots(disk2, b)
  BY <1>1, <1>2, SectorKept
<1>5. \A t \in DOMAIN disk : disk2[t] = IF t = s THEN x ELSE disk[t]
  OBVIOUS
<1> HIDE DEF disk2
<1>7. ASSUME NEW d \in Clusters
      PROVE  /\ disk2[FatAt(b, d)] = disk[FatAt(b, d)]
             /\ disk2[SectAt(b, d)] = IF d = c THEN x ELSE disk[SectAt(b, d)]
  <2>1. FatAt(b, d) \in DOMAIN disk /\ SectAt(b, d) \in DOMAIN disk /\ FatAt(b, d) # s
    BY <1>1, SectorsApart DEF s
  <2>2. SectAt(b, d) = s => d = c
    BY <1>1, SectorsApart DEF s
  <2>3. d = c => SectAt(b, d) = s
    BY DEF s
  <2>4. QED BY <2>1, <2>2, <2>3, <1>5
<1>8. Links(disk2, b) = link
  <2>1. link = [d \in Clusters |-> disk[FatAt(b, d)][d % EPS]]
    BY <1>1 DEF Links, FatAt
  <2>2. Links(disk2, b) = [d \in Clusters |-> disk2[FatAt(b, d)][d % EPS]]
    BY DEF Links, FatAt
  <2>3. QED BY <2>1, <2>2, <1>7
<1>9. Held(disk2, b) = [content EXCEPT ![c] = x]
  <2>1. content = [d \in Clusters |-> disk[SectAt(b, d)]]
    BY <1>1 DEF Held, SectAt
  <2>2. Held(disk2, b) = [d \in Clusters |-> disk2[SectAt(b, d)]]
    BY DEF Held, SectAt
  <2>3. QED BY <2>1, <2>2, <1>7
<1>10. QED BY <1>4, <1>8, <1>9 DEF Reads, disk2, s

\* A sector of the second table or FSInfo: nothing that is read.
Blind(b, s) ==
    /\ s \in Volume(b) \ {b} /\ s \notin b + FatBase..b + FatBase + FSize - 1
    /\ \A c \in Clusters : s # SectAt(b, c)

\* What is written to a sector where neither first table nor clusters are changes neither.
LEMMA BlindWritten ==
    ASSUME NEW disk, NEW b, NEW link, NEW content, NEW s, Blind(b, s), NEW x,
           Reads(disk, b, link, content)
    PROVE  Reads([disk EXCEPT ![s] = x], b, link, content)
<1> DEFINE disk2 == [disk EXCEPT ![s] = x]
<1>1. /\ b \in Nat /\ Volume(b) \subseteq DOMAIN disk
      /\ Laid(disk, b) /\ Boots(disk, b) /\ Links(disk, b) = link /\ Held(disk, b) = content
  BY DEF Reads, Laid
<1>2. Laid(disk2, b) /\ Boots(disk2, b)
  BY <1>1, SectorKept DEF Blind
<1>3. \A t \in DOMAIN disk : t # s => disk2[t] = disk[t]
  OBVIOUS
<1> HIDE DEF disk2
<1>4. ASSUME NEW d \in Clusters
      PROVE  disk2[FatAt(b, d)] = disk[FatAt(b, d)] /\ disk2[SectAt(b, d)] = disk[SectAt(b, d)]
  <2>1. /\ FatAt(b, d) \in DOMAIN disk /\ SectAt(b, d) \in DOMAIN disk
        /\ FatAt(b, d) \in b + FatBase..b + FatBase + FSize - 1
    BY <1>1, SectorsApart
  <2>2. FatAt(b, d) # s /\ SectAt(b, d) # s
    BY <2>1 DEF Blind
  <2>3. QED BY <2>1, <2>2, <1>3
<1>5. Links(disk2, b) = link
  BY <1>1, <1>4 DEF Links, FatAt
<1>6. Held(disk2, b) = content
  BY <1>1, <1>4 DEF Held, SectAt
<1>7. QED BY <1>2, <1>5, <1>6 DEF Reads, disk2

\* FSInfo and the second table are such sectors.
LEMMA BlindSectors ==
    ASSUME NEW b \in Nat
    PROVE  Blind(b, b + 1) /\ \A c \in Clusters : Blind(b, FatAt(b, c) + FSize)
<1>1. Blind(b, b + 1)
  BY SectorsApart DEF Blind, FatBase
<1>2. \A c \in Clusters : Blind(b, FatAt(b, c) + FSize)
  BY SectorsApart DEF Blind
<1>3. QED BY <1>1, <1>2

-----------------------------------------------------------------------------
(* The free clusters, counted, and the copies on the disk.                  *)

\* There are finitely many free clusters.
LEMMA FreeAreCounted ==
    ASSUME NEW link
    PROVE  /\ IsFiniteSet(Unlinked(link)) /\ Cardinality(Unlinked(link)) \in Nat
           /\ Cardinality(Unlinked(link)) <= N_FATENT - 2
           /\ (\E c \in Clusters : link[c] # 0) => Cardinality(Unlinked(link)) < N_FATENT - 2
           /\ (\E c \in Clusters : link[c] = 0) => Cardinality(Unlinked(link)) # 0
<1>1. IsFiniteSet(Clusters) /\ Cardinality(Clusters) = N_FATENT - 2
  BY FS_Interval, FatAssumption DEF Clusters
<1>2. Unlinked(link) \subseteq Clusters
  BY DEF Unlinked
<1>3. /\ IsFiniteSet(Unlinked(link)) /\ Cardinality(Unlinked(link)) \in Nat
      /\ Cardinality(Unlinked(link)) <= Cardinality(Clusters)
      /\ Cardinality(Unlinked(link)) = Cardinality(Clusters) => Unlinked(link) = Clusters
  BY <1>1, <1>2, FS_Subset, FS_CardinalityType
<1>4. ASSUME NEW c \in Clusters, link[c] # 0 PROVE Cardinality(Unlinked(link)) < N_FATENT - 2
  <2>1. Unlinked(link) # Clusters
    BY <1>4 DEF Unlinked
  <2>2. N_FATENT \in Nat
    BY FatAssumption
  <2>3. QED BY <2>1, <2>2, <1>1, <1>3
<1>5. ASSUME NEW c \in Clusters, link[c] = 0 PROVE Cardinality(Unlinked(link)) # 0
  <2>1. Unlinked(link) # {}
    BY <1>5 DEF Unlinked
  <2>2. QED BY <2>1, <1>3, FS_EmptySet
<1>6. QED BY <1>1, <1>3, <1>4, <1>5

\* One more cluster is in use, or one less, or none.
LEMMA OneLinkCounted ==
    ASSUME NEW link, IsLink(link), NEW c \in Clusters, NEW val
    PROVE  LET n == Cardinality(Unlinked(link))
               m == Cardinality(Unlinked([link EXCEPT ![c] = val]))
           IN  /\ link[c] = 0 /\ val # 0 => m = n - 1
               /\ link[c] # 0 /\ val = 0 => m = n + 1
               /\ link[c] # 0 /\ val # 0 => m = n
<1> DEFINE link2 == [link EXCEPT ![c] = val]
<1>1. IsFiniteSet(Unlinked(link)) /\ Cardinality(Unlinked(link)) \in Nat
  BY FreeAreCounted
<1>2. link2[c] = val /\ \A d \in Clusters \ {c} : link2[d] = link[d]
  BY DEF IsLink
<1> HIDE DEF link2
<1>3. CASE link[c] = 0 /\ val # 0
  <2>1. Unlinked(link2) = Unlinked(link) \ {c} /\ c \in Unlinked(link)
    BY <1>2, <1>3 DEF Unlinked
  <2>2. Cardinality(Unlinked(link2)) = Cardinality(Unlinked(link)) - 1
    BY <2>1, <1>1, FS_RemoveElement
  <2>3. QED BY <2>2, <1>3 DEF link2
<1>4. CASE link[c] # 0 /\ val = 0
  <2>1. Unlinked(link2) = Unlinked(link) \cup {c} /\ c \notin Unlinked(link)
    BY <1>2, <1>4 DEF Unlinked
  <2>2. Cardinality(Unlinked(link2)) = Cardinality(Unlinked(link)) + 1
    BY <2>1, <1>1, FS_AddElement
  <2>3. QED BY <2>2, <1>4 DEF link2
<1>5. CASE link[c] # 0 /\ val # 0
  <2>1. Unlinked(link2) = Unlinked(link)
    BY <1>2, <1>5 DEF Unlinked
  <2>2. QED BY <2>1, <1>5 DEF link2
<1>6. QED BY <1>3, <1>4, <1>5

\* A sector that is in no table.
LEMMA MirrorKept ==
    ASSUME NEW disk, NEW b \in Nat, NEW s \in Nat, Mirrored(disk, b),
           s \notin b + FatBase..b + FatBase + 2 * FSize - 1, NEW x
    PROVE  Mirrored([disk EXCEPT ![s] = x], b)
<1>1. FSize \in Nat /\ FatBase = 2
  BY Placed DEF FatBase
<1>2. ASSUME NEW t \in b + FatBase..b + FatBase + FSize - 1
      PROVE  t # s /\ t + FSize # s
  BY <1>1
<1>3. QED BY <1>2 DEF Mirrored

\* Both tables are written.
LEMMA MirrorWritten ==
    ASSUME NEW disk, NEW b \in Nat, Laid(disk, b), Mirrored(disk, b),
           NEW s \in b + FatBase..b + FatBase + FSize - 1, NEW x
    PROVE  Mirrored([[disk EXCEPT ![s] = x] EXCEPT ![s + FSize] = x], b)
<1>1. FSize \in Nat /\ FatBase = 2 /\ DataBase = FatBase + 2 * FSize /\ N_FATENT \in Nat /\ N_FATENT > 2
  BY Placed, FatAssumption DEF FatBase, DataBase
<1>2. s \in DOMAIN disk /\ s + FSize \in DOMAIN disk /\ s + FSize # s
  <2>1. s \in Volume(b) /\ s + FSize \in Volume(b) /\ s + FSize # s
    BY <1>1 DEF Volume
  <2>2. QED BY <2>1 DEF Laid
<1>3. ASSUME NEW t \in b + FatBase..b + FatBase + FSize - 1
      PROVE  [[disk EXCEPT ![s] = x] EXCEPT ![s + FSize] = x][t + FSize]
               = [[disk EXCEPT ![s] = x] EXCEPT ![s + FSize] = x][t]
  <2>1. t # s + FSize /\ t + FSize # s /\ (t + FSize = s + FSize <=> t = s)
    BY <1>1
  <2>2. disk[t + FSize] = disk[t]
    BY <1>3 DEF Mirrored
  <2>3. t \in DOMAIN disk /\ t + FSize \in DOMAIN disk
    <3>1. t \in Volume(b) /\ t + FSize \in Volume(b)
      BY <1>1 DEF Volume
    <3>2. QED BY <3>1 DEF Laid
  <2>4. CASE t = s
    BY <2>1, <2>3, <2>4, <1>2
  <2>5. CASE t # s
    BY <2>1, <2>2, <2>3, <2>5, <1>2
  <2>6. QED BY <2>4, <2>5
<1>4. QED BY <1>3 DEF Mirrored

-----------------------------------------------------------------------------
(* Numbers.                                                                 *)

\* A set of naturals that is not empty has a least member.
LEMMA LeastOf ==
    ASSUME NEW S, S \subseteq Nat, S # {}
    PROVE  \E m \in S : \A k \in S : m <= k
<1> DEFINE R == OpToRel(<, Nat)
<1>1. IsWellFoundedOn(R, Nat)
  BY NatLessThanWellFounded
<1>2. \A m \in Nat, k \in Nat : k < m => <<k, m>> \in R
  BY DEF OpToRel
<1> HIDE DEF R
<1>3. \E m \in S : \A k \in S : ~(<<k, m>> \in R)
  BY <1>1, WFMin
<1>4. PICK m \in S : \A k \in S : ~(<<k, m>> \in R)
  BY <1>3
<1>5. ASSUME NEW k \in S PROVE m <= k
  <2>1. k \in Nat /\ m \in Nat
    OBVIOUS
  <2>2. ~(k < m)
    BY <1>2, <1>4, <2>1
  <2>3. QED BY <2>1, <2>2
<1>6. QED BY <1>5

\* Induction over a range, with a set in the place of a formula.
LEMMA Induct ==
    ASSUME NEW n \in Nat, NEW S, 0 \in S, \A k \in 0..n : k < n /\ k \in S => k + 1 \in S
    PROVE  0..n \subseteq S
<1> DEFINE U == {k \in 0..n : k \notin S}
<1>1. SUFFICES ASSUME U # {} PROVE FALSE
  OBVIOUS
<1>2. PICK m \in U : \A k \in U : m <= k
  <2>1. U \subseteq Nat
    OBVIOUS
  <2> HIDE DEF U
  <2>2. QED BY <1>1, <2>1, LeastOf
<1>3. m - 1 \in 0..n /\ m - 1 \notin U
  BY <1>2
<1>4. m - 1 \in S /\ m - 1 < n
  BY <1>3, <1>2
<1>5. (m - 1) + 1 = m
  BY <1>2
<1>6. m \in S
  BY <1>3, <1>4, <1>5
<1>7. QED BY <1>2, <1>6


\* A set of naturals up to a bound that is not empty has a greatest member.
LEMMA GreatestOf ==
    ASSUME NEW n \in Nat, NEW S, S \subseteq 0..n, S # {}
    PROVE  \E i \in S : \A k \in S : k <= i
<1> DEFINE B == {b \in Nat : \A y \in S : b >= y}
<1>1. n \in B
  OBVIOUS
<1>2. PICK m \in B : \A k \in B : m <= k
  BY <1>1, LeastOf
<1>3. m \in S
  <2>1. SUFFICES ASSUME m \notin S PROVE FALSE
    OBVIOUS
  <2>2. \A y \in S : m > y /\ y \in Nat
    BY <2>1, <1>2
  <2>3. m > 0
    <3>1. PICK y \in S : TRUE
      OBVIOUS
    <3>2. QED BY <2>2, <3>1
  <2>4. m - 1 \in B
    BY <2>2, <2>3
  <2>5. QED BY <2>4, <1>2
<1>4. QED BY <1>2, <1>3

-----------------------------------------------------------------------------
(* The sectors written since the call began, and what a power cut leaves.   *)

IsLog(log) == \E S : log \in Seq(S)

\* One more write at the end of a log.
LEMMA LogAppended ==
    ASSUME NEW log, NEW w, IsLog(log)
    PROVE  /\ IsLog(Append(log, w)) /\ Len(log) \in Nat /\ Len(Append(log, w)) = Len(log) + 1
           /\ \A i \in 1..Len(log) : Append(log, w)[i] = log[i]
           /\ Append(log, w)[Len(log) + 1] = w
<1>1. PICK S : log \in Seq(S)
  BY DEF IsLog
<1> DEFINE T == S \cup {w}
<1>2. log \in Seq(T) /\ w \in T
  BY <1>1
<1> HIDE DEF T
<1>3. /\ Append(log, w) \in Seq(T) /\ Len(log) \in Nat /\ Len(Append(log, w)) = Len(log) + 1
      /\ \A i \in 1..Len(log) : Append(log, w)[i] = log[i]
      /\ Append(log, w)[Len(log) + 1] = w
  BY <1>2, AppendProperties
<1>4. QED BY <1>3 DEF IsLog

\* The log of a call that has written nothing.
LEMMA EmptyLog == IsLog(<<>>) /\ Len(<<>>) = 0
<1>1. <<>> \in Seq({})
  OBVIOUS
<1>2. QED BY <1>1 DEF IsLog

\* Nothing is cut off or written by an empty log.
LEMMA NothingCut == 
    ASSUME NEW disk, disk = [s \in DOMAIN disk |-> disk[s]], NEW log
    PROVE  CutDisk(disk, log, 0) = disk
<1>1. \A s : {i \in 1..0 : log[i].sect = s} = {}
  OBVIOUS
<1>2. CutDisk(disk, log, 0) = [s \in DOMAIN disk |-> disk[s]]
  BY <1>1 DEF CutDisk
<1>3. QED BY <1>2

\* What the cuts of log2 come to, which is log and w after it.
CutLater(disk, log, w, log2) ==
    /\ \A n \in 0..Len(log) : CutDisk(disk, log2, n) = CutDisk(disk, log, n)
    /\ CutDisk(disk, log2, Len(log) + 1) = [CutDisk(disk, log, Len(log)) EXCEPT ![w.sect] = w.data]

\* A cut before the last write does not see it; a cut after it sees it last.
LEMMA CutAppended ==
    ASSUME NEW disk, NEW log, NEW w, IsLog(log), w.sect \in DOMAIN disk
    PROVE  CutLater(disk, log, w, Append(log, w))
<1> DEFINE log2 == Append(log, w)
           l == Len(log)
           Ws(n, s)  == {i \in 1..n : log[i].sect = s}
           Ws2(n, s) == {i \in 1..n : log2[i].sect = s}
<1>1. /\ l \in Nat /\ log2[l + 1] = w
      /\ \A i \in 1..l : log2[i] = log[i]
  BY LogAppended
<1> HIDE DEF log2, l
<1>2. ASSUME NEW n \in 0..l PROVE \A s : Ws2(n, s) = Ws(n, s)
  BY <1>1
<1>3. ASSUME NEW n \in 0..l PROVE CutDisk(disk, log2, n) = CutDisk(disk, log, n)
  <2> DEFINE Data(s)  == log[CHOOSE i \in Ws(n, s) : \A k \in Ws(n, s) : k <= i].data
             Data2(s) == log2[CHOOSE i \in Ws2(n, s) : \A k \in Ws2(n, s) : k <= i].data
  <2>1. \A s : Ws2(n, s) = Ws(n, s)
    BY <1>2
  <2>2. ASSUME NEW s, Ws(n, s) # {} PROVE Data2(s) = Data(s)
    <3>1. \E i \in Ws(n, s) : \A k \in Ws(n, s) : k <= i
      <4>1. Ws(n, s) \subseteq 0..n /\ n \in Nat
        BY <1>1
      <4>2. QED BY <4>1, <2>2, GreatestOf
    <3>2. (CHOOSE i \in Ws(n, s) : \A k \in Ws(n, s) : k <= i) \in 1..l
      <4>1. (CHOOSE i \in Ws(n, s) : \A k \in Ws(n, s) : k <= i) \in Ws(n, s)
        BY <3>1
      <4>2. QED BY <4>1, <1>1
    <3>3. QED BY <2>1, <3>2, <1>1
  <2>3. CutDisk(disk, log, n) = [s \in DOMAIN disk |-> IF Ws(n, s) = {} THEN disk[s] ELSE Data(s)]
    BY DEF CutDisk
  <2>4. CutDisk(disk, log2, n) = [s \in DOMAIN disk |-> IF Ws2(n, s) = {} THEN disk[s] ELSE Data2(s)]
    BY DEF CutDisk
  <2> HIDE DEF Data, Data2, Ws, Ws2
  <2>5. QED BY <2>1, <2>2, <2>3, <2>4
<1>4. CutDisk(disk, log2, l + 1) = [CutDisk(disk, log, l) EXCEPT ![w.sect] = w.data]
  <2> DEFINE Data(s)  == log[CHOOSE i \in Ws(l, s) : \A k \in Ws(l, s) : k <= i].data
             Data2(s) == log2[CHOOSE i \in Ws2(l + 1, s) : \A k \in Ws2(l + 1, s) : k <= i].data
  <2>1. ASSUME NEW s, s # w.sect PROVE Ws2(l + 1, s) = Ws(l, s)
    BY <1>1, <2>1
  <2>2. ASSUME NEW s, s # w.sect, Ws(l, s) # {} PROVE Data2(s) = Data(s)
    <3>1. \E i \in Ws(l, s) : \A k \in Ws(l, s) : k <= i
      <4>1. Ws(l, s) \subseteq 0..l /\ l \in Nat
        BY <1>1
      <4>2. QED BY <4>1, <2>2, GreatestOf
    <3>2. (CHOOSE i \in Ws(l, s) : \A k \in Ws(l, s) : k <= i) \in 1..l
      <4>1. (CHOOSE i \in Ws(l, s) : \A k \in Ws(l, s) : k <= i) \in Ws(l, s)
        BY <3>1
      <4>2. QED BY <4>1, <1>1
    <3>3. QED BY <2>1, <2>2, <3>2, <1>1
  <2>3. Ws2(l + 1, w.sect) # {} /\ Data2(w.sect) = w.data
    <3>1. l + 1 \in Ws2(l + 1, w.sect) /\ \A k \in Ws2(l + 1, w.sect) : k <= l + 1 /\ k \in Int
      BY <1>1
    <3> DEFINE X == Ws2(l + 1, w.sect)
    <3> HIDE DEF Ws2
    <3>2. (CHOOSE i \in X : \A k \in X : k <= i) = l + 1
      <4>1. \A i \in X : (\A k \in X : k <= i) => i = l + 1
        BY <3>1, <1>1
      <4>2. QED BY <4>1, <3>1
    <3>3. QED BY <3>1, <3>2, <1>1
  <2>4. CutDisk(disk, log, l) = [s \in DOMAIN disk |-> IF Ws(l, s) = {} THEN disk[s] ELSE Data(s)]
    BY DEF CutDisk
  <2>5. CutDisk(disk, log2, l + 1) = [s \in DOMAIN disk |-> IF Ws2(l + 1, s) = {} THEN disk[s] ELSE Data2(s)]
    BY DEF CutDisk
  <2> HIDE DEF Data, Data2, Ws, Ws2
  <2>6. QED BY <2>1, <2>2, <2>3, <2>4, <2>5
<1>5. CutLater(disk, log, w, log2)
  BY <1>3, <1>4 DEF CutLater, l
<1>6. QED BY <1>5 DEF log2

(* After every sector that the power may be cut at, the disk is a proper one.  *)
Allowed(log, n) == \A i \in n + 1..n + 2 : i \in 1..Len(log) => ~log[i].clears

Safe(disk, b, log) ==
    \A n \in 0..Len(log) : Allowed(log, n) => \E dirs : Proper(CutDisk(disk, log, n), b, dirs)

\* A write that leaves a proper disk keeps the call safe to cut.
LEMMA SafeWritten ==
    ASSUME NEW disk, NEW b, NEW log, NEW w, NEW dirs, IsLog(log), w.sect \in DOMAIN disk, ~w.clears,
           Safe(disk, b, log), Proper([CutDisk(disk, log, Len(log)) EXCEPT ![w.sect] = w.data], b, dirs)
    PROVE  Safe(disk, b, Append(log, w))
<1>0. /\ \A n \in 0..Len(log) : CutDisk(disk, Append(log, w), n) = CutDisk(disk, log, n)
      /\ CutDisk(disk, Append(log, w), Len(log) + 1) = [CutDisk(disk, log, Len(log)) EXCEPT ![w.sect] = w.data]
  BY CutAppended DEF CutLater
<1>1. SUFFICES ASSUME NEW n \in 0..Len(Append(log, w)), Allowed(Append(log, w), n)
               PROVE  \E d : Proper(CutDisk(disk, Append(log, w), n), b, d)
  BY DEF Safe
<1>2. /\ Len(log) \in Nat /\ Len(Append(log, w)) = Len(log) + 1
      /\ \A i \in 1..Len(log) : Append(log, w)[i] = log[i]
  BY LogAppended
<1>3. CASE n = Len(log) + 1
  <2>1. CutDisk(disk, Append(log, w), n) = [CutDisk(disk, log, Len(log)) EXCEPT ![w.sect] = w.data]
    BY <1>0, <1>3
  <2>2. QED BY <2>1
<1>4. CASE n \in 0..Len(log)
  <2>1. Allowed(log, n)
    BY <1>1, <1>2, <1>4 DEF Allowed
  <2>2. \E d : Proper(CutDisk(disk, log, n), b, d)
    BY <2>1, <1>4 DEF Safe
  <2>3. CutDisk(disk, Append(log, w), n) = CutDisk(disk, log, n)
    BY <1>0, <1>4
  <2>4. QED BY <2>2, <2>3
<1>5. QED BY <1>2, <1>3, <1>4

\* Two sectors are written, and a third which is the clearing of a cluster.
Clearing(disk, b, log, u, v, w, disk3, dirs) ==
    /\ IsLog(log) /\ Safe(disk, b, log)
    /\ u.sect \in DOMAIN disk /\ v.sect \in DOMAIN disk /\ w.sect \in DOMAIN disk
    /\ ~u.clears /\ ~v.clears /\ w.clears
    /\ disk3 = [[[CutDisk(disk, log, Len(log)) EXCEPT ![u.sect] = u.data]
                   EXCEPT ![v.sect] = v.data] EXCEPT ![w.sect] = w.data]
    /\ Proper(disk3, b, dirs)

\* So do the three writes of a directory that grows, which no cut tears apart.
LEMMA SafeCleared ==
    ASSUME NEW disk, NEW b, NEW log, NEW u, NEW v, NEW w, NEW disk3, NEW dirs,
           Clearing(disk, b, log, u, v, w, disk3, dirs)
    PROVE  LET log3 == Append(Append(Append(log, u), v), w)
           IN  IsLog(log3) /\ Safe(disk, b, log3) /\ CutDisk(disk, log3, Len(log3)) = disk3
<1> DEFINE log1 == Append(log, u)
           log2 == Append(log1, v)
           log3 == Append(log2, w)
           l == Len(log)
<1>0. /\ IsLog(log) /\ Safe(disk, b, log)
      /\ u.sect \in DOMAIN disk /\ v.sect \in DOMAIN disk /\ w.sect \in DOMAIN disk
      /\ ~u.clears /\ ~v.clears /\ w.clears
      /\ disk3 = [[[CutDisk(disk, log, Len(log)) EXCEPT ![u.sect] = u.data]
                     EXCEPT ![v.sect] = v.data] EXCEPT ![w.sect] = w.data]
      /\ Proper(disk3, b, dirs)
  BY DEF Clearing
<1> USE <1>0
<1>1. /\ l \in Nat /\ IsLog(log1) /\ Len(log1) = l + 1 /\ \A i \in 1..l : log1[i] = log[i]
      /\ log1[l + 1] = u
  BY LogAppended
<1> HIDE DEF log1
<1>2. /\ IsLog(log2) /\ Len(log2) = l + 2 /\ \A i \in 1..l + 1 : log2[i] = log1[i]
      /\ log2[l + 2] = v
  BY <1>1, LogAppended
<1> HIDE DEF log2
<1>3. /\ IsLog(log3) /\ Len(log3) = l + 3 /\ \A i \in 1..l + 2 : log3[i] = log2[i] /\ log3[l + 3] = w
  BY <1>1, <1>2, LogAppended
<1> HIDE DEF log3
<1>4. /\ \A n \in 0..l : CutDisk(disk, log1, n) = CutDisk(disk, log, n)
      /\ CutDisk(disk, log1, l + 1) = [CutDisk(disk, log, l) EXCEPT ![u.sect] = u.data]
  <2>1. CutLater(disk, log, u, log1)
    BY CutAppended DEF log1
  <2>2. QED BY <2>1 DEF CutLater, l
<1>5. /\ \A n \in 0..l + 1 : CutDisk(disk, log2, n) = CutDisk(disk, log1, n)
      /\ CutDisk(disk, log2, l + 2) = [CutDisk(disk, log1, l + 1) EXCEPT ![v.sect] = v.data]
  <2>1. /\ \A n \in 0..Len(log1) : CutDisk(disk, log2, n) = CutDisk(disk, log1, n)
        /\ CutDisk(disk, log2, Len(log1) + 1) = [CutDisk(disk, log1, Len(log1)) EXCEPT ![v.sect] = v.data]
    <3>1. IsLog(log1)
      BY <1>1
    <3>2. CutLater(disk, log1, v, log2)
      BY <3>1, CutAppended DEF log2
    <3>3. QED BY <3>2 DEF CutLater
  <2>2. Len(log1) + 1 = l + 2
    BY <1>1
  <2>3. QED BY <2>1, <2>2, <1>1
<1>6. /\ \A n \in 0..l + 2 : CutDisk(disk, log3, n) = CutDisk(disk, log2, n)
      /\ CutDisk(disk, log3, l + 3) = [CutDisk(disk, log2, l + 2) EXCEPT ![w.sect] = w.data]
  <2>1. /\ \A n \in 0..Len(log2) : CutDisk(disk, log3, n) = CutDisk(disk, log2, n)
        /\ CutDisk(disk, log3, Len(log2) + 1) = [CutDisk(disk, log2, Len(log2)) EXCEPT ![w.sect] = w.data]
    <3>1. IsLog(log2)
      BY <1>2
    <3>2. CutLater(disk, log2, w, log3)
      BY <3>1, CutAppended DEF log3
    <3>3. QED BY <3>2 DEF CutLater
  <2>2. Len(log2) + 1 = l + 3
    BY <1>1, <1>2
  <2>3. QED BY <2>1, <2>2, <1>2
<1>61. CutDisk(disk, log3, l + 3) = disk3
  BY <1>4, <1>5, <1>6
<1>7. ASSUME NEW n \in 0..l + 3, Allowed(log3, n)
      PROVE  \E d : Proper(CutDisk(disk, log3, n), b, d)
  <2>1. CASE n = l + 3
    BY <2>1, <1>61
  <2>2. CASE n \in {l + 1, l + 2}
    <3>1. l + 3 \in n + 1..n + 2 /\ l + 3 \in 1..Len(log3) /\ log3[l + 3].clears
      BY <2>2, <1>1, <1>3
    <3>2. QED BY <3>1, <1>7 DEF Allowed
  <2>3. CASE n \in 0..l
    <3>1. ASSUME NEW i \in n + 1..n + 2, i \in 1..l PROVE ~log[i].clears
      <4>1. i \in 1..Len(log3) /\ log3[i] = log[i]
        BY <3>1, <1>1, <1>2, <1>3
      <4>2. QED BY <4>1, <1>7, <3>1 DEF Allowed
    <3>2. Allowed(log, n)
      BY <3>1 DEF Allowed
    <3>3. CutDisk(disk, log3, n) = CutDisk(disk, log, n)
      <4>1. n \in 0..l + 1 /\ n \in 0..l + 2
        BY <2>3, <1>1
      <4>2. QED BY <4>1, <2>3, <1>4, <1>5, <1>6
    <3>4. QED BY <3>2, <3>3, <2>3 DEF Safe
  <2>4. QED BY <2>1, <2>2, <2>3, <1>1
<1>8. Safe(disk, b, log3)
  BY <1>7, <1>3 DEF Safe
<1>9. QED BY <1>8, <1>3, <1>61 DEF log3, log2, log1

-----------------------------------------------------------------------------
(* A mounted volume in the middle of a call: the disk as it will be once the
   window is written back (Ahead) has the shape q, and so the disk was after
   every sector written.                                                    *)

Fields == {"disk", "winsect", "win", "wflag", "volbase", "free_clst", "last_clst", "fsi_flag",
           "mounted", "log"}

IsVolume(v, b) ==
    /\ DOMAIN v = Fields
    /\ v.mounted = TRUE /\ v.volbase = b /\ v.wflag \in BOOLEAN /\ v.fsi_flag \in {0, 1}

Logged(v, q) ==
    IsLog(v.log) /\ v.disk = CutDisk(q.base.disk, v.log, Len(v.log)) /\ Safe(q.base.disk, q.b, v.log)

Ahead(v) == IF v.wflag THEN [v.disk EXCEPT ![v.winsect] = v.win] ELSE v.disk

\* What the window shows when it is changed: a part of the table, or of a directory.
Table(q)     == {FatAt(q.b, c) : c \in Clusters}
Windowed(q)  == Table(q) \cup {SectAt(q.b, c) : c \in q.dirs}

Shows(v, q) ==
    /\ ~v.wflag => v.win = v.disk[v.winsect]
    /\ v.wflag => v.winsect \in Windowed(q)

\* As long as no call was cut, the copies agree, but for what is due.
Tallied(v, q) ==
    q.base.whole => /\ Mirrored(v.disk, q.b)
                    /\ v.fsi_flag = 0 => Informed(v.disk, q.b, v.free_clst)
                    /\ v.free_clst = Cardinality(Unlinked(q.link)) - q.due

Good(v, q) ==
    /\ IsShape(q) /\ Tallied(v, q)
    /\ IsVolume(v, q.b) /\ Logged(v, q) /\ Shows(v, q)
    /\ Reads(Ahead(v), q.b, q.link, q.content)
    /\ Proper(v.disk, q.b, q.dirs)

\* The window apart, nothing of the volume differs but the disk and its log.
Alike(v, w) ==
    /\ w.free_clst = v.free_clst /\ w.last_clst = v.last_clst /\ w.fsi_flag = v.fsi_flag

\* A disk on which the links and contents of a shape are found is proper.
LEMMA ShapeIsProper ==
    ASSUME NEW q, NEW disk, IsShape(q), Reads(disk, q.b, q.link, q.content)
    PROVE  Proper(disk, q.b, q.dirs)
BY DEF IsShape, Reads, Proper, SoundDisk

\* What is used of a shape again and again.
LEMMA ShapeFacts ==
    ASSUME NEW q, IsShape(q)
    PROVE  /\ q.b \in Nat /\ q.dirs \subseteq Clusters /\ ROOT \in q.dirs
           /\ DOMAIN q.link = Clusters /\ DOMAIN q.content = Clusters
           /\ \A c \in q.dirs : q.link[c] \in {EOC} \cup Clusters /\ DOMAIN q.content[c] = Slots
           /\ \A c \in q.dirs : q.link[c] \in Clusters => q.link[c] \in q.dirs
           /\ \A c \in Clusters : q.link[c] \in {0, EOC} \cup Clusters
BY EocIsNone DEF IsShape, IsLink, Sound, LinksSound, EntriesSound

\* The sectors that may wait in the window are of the volume, not the boot record and not of a file.
LEMMA WindowedAre ==
    ASSUME NEW q, IsShape(q)
    PROVE  /\ Windowed(q) \subseteq Volume(q.b) \ {q.b}
           /\ \A c \in Clusters \ q.dirs : SectAt(q.b, c) \notin Windowed(q)
           /\ \A s \in Windowed(q) : s \in q.b + FatBase..q.b + FatBase + FSize - 1 => s \in Table(q)
<1>1. q.b \in Nat /\ q.dirs \subseteq Clusters
  BY ShapeFacts
<1>2. QED BY <1>1, SectorsApart DEF Windowed, Table

\* The sector of a cluster is in no table, nor FSInfo.
LEMMA ClusterPlaces ==
    ASSUME NEW b \in Nat, NEW c \in Clusters
    PROVE  /\ SectAt(b, c) \in Nat /\ SectAt(b, c) # b + 1
           /\ SectAt(b, c) \notin b + FatBase..b + FatBase + 2 * FSize - 1
<1>1. c \in Nat /\ c >= 2
  BY FatAssumption DEF Clusters
<1>2. FSize \in Nat /\ FatBase = 2 /\ DataBase = FatBase + 2 * FSize
  BY Placed DEF FatBase, DataBase
<1>3. SectAt(b, c) \in Nat /\ SectAt(b, c) >= b + FatBase + 2 * FSize
  BY <1>1, <1>2 DEF SectAt
<1>4. QED BY <1>2, <1>3

\* What the window shows is in the first table, or in none and not FSInfo.
LEMMA WindowPlaces ==
    ASSUME NEW q, IsShape(q), NEW s \in Windowed(q)
    PROVE  /\ s \in Nat /\ s # q.b + 1
           /\ \/ s \in q.b + FatBase..q.b + FatBase + FSize - 1
              \/ s \notin q.b + FatBase..q.b + FatBase + 2 * FSize - 1
<1>1. q.b \in Nat /\ q.dirs \subseteq Clusters
  BY ShapeFacts
<1>2. FSize \in Nat /\ FatBase = 2 /\ DataBase = FatBase + 2 * FSize
  BY Placed DEF FatBase, DataBase
<1>3. CASE s \in Table(q)
  <2>1. s \in q.b + FatBase..q.b + FatBase + FSize - 1
    BY <1>1, <1>3, SectorsApart DEF Table
  <2>2. QED BY <2>1, <1>1, <1>2
<1>4. ASSUME NEW c \in q.dirs, s = SectAt(q.b, c)
      PROVE  /\ s \in Nat /\ s # q.b + 1
             /\ s \notin q.b + FatBase..q.b + FatBase + 2 * FSize - 1
  BY <1>1, <1>4, ClusterPlaces
<1>5. QED BY <1>1, <1>2, <1>3, <1>4 DEF Windowed

\* A sector of no table is written, other than FSInfo.
LEMMA TallyKept ==
    ASSUME NEW v, NEW w, NEW q, NEW s \in Nat, NEW x, q.b \in Nat, Tallied(v, q), Alike(v, w),
           s # q.b + 1, s \notin q.b + FatBase..q.b + FatBase + 2 * FSize - 1,
           w.disk = [v.disk EXCEPT ![s] = x]
    PROVE  Tallied(w, q)
<1>1. w.disk[q.b + 1] = v.disk[q.b + 1]
  OBVIOUS
<1>2. Mirrored(v.disk, q.b) => Mirrored([v.disk EXCEPT ![s] = x], q.b)
  BY MirrorKept
<1>3. QED BY <1>1, <1>2 DEF Tallied, Alike, Informed

\* w is v after one more write, of x to the sector s.
OneMore(v, q, s, x, w) ==
    /\ IsVolume(w, q.b) /\ Logged(w, q) /\ w.disk = [v.disk EXCEPT ![s] = x]
    /\ Alike(v, w) /\ w.wflag = v.wflag /\ w.winsect = v.winsect /\ w.win = v.win

\* A single write to the disk, when the disk after it is proper.
LEMMA OneWritten ==
    ASSUME NEW v, NEW q, NEW s, NEW x, NEW dirs, IsVolume(v, q.b), Logged(v, q), s \in DOMAIN v.disk,
           Proper([v.disk EXCEPT ![s] = x], q.b, dirs)
    PROVE  OneMore(v, q, s, x, DiskWrite(v, s, x))
<1> DEFINE r == [sect |-> s, data |-> x, clears |-> FALSE]
           w == DiskWrite(v, s, x)
<1>1. /\ w.disk = [v.disk EXCEPT ![s] = x] /\ w.log = Append(v.log, r) /\ DOMAIN w = Fields
      /\ w.wflag = v.wflag /\ w.winsect = v.winsect /\ w.win = v.win
      /\ Alike(v, w) /\ w.mounted = v.mounted /\ w.volbase = v.volbase /\ w.fsi_flag = v.fsi_flag
  BY DEF IsVolume, Fields, DiskWrite, Write, Alike
<1>2. r.sect = s /\ r.data = x /\ ~r.clears
  OBVIOUS
<1> HIDE DEF w, r
<1>3. IsLog(v.log) /\ v.disk = CutDisk(q.base.disk, v.log, Len(v.log)) /\ Safe(q.base.disk, q.b, v.log)
  BY DEF Logged
<1>4. r.sect \in DOMAIN q.base.disk
  BY <1>2, <1>3 DEF CutDisk
<1>5. IsLog(w.log) /\ Len(w.log) = Len(v.log) + 1
  BY <1>1, <1>3, LogAppended
<1>6. CutDisk(q.base.disk, w.log, Len(w.log)) = w.disk
  <2>1. CutDisk(q.base.disk, Append(v.log, r), Len(v.log) + 1)
          = [CutDisk(q.base.disk, v.log, Len(v.log)) EXCEPT ![r.sect] = r.data]
    <3>1. IsLog(v.log)
      BY <1>3
    <3>2. CutLater(q.base.disk, v.log, r, Append(v.log, r))
      BY <3>1, <1>4, CutAppended
    <3>3. QED BY <3>2 DEF CutLater
  <2>2. QED BY <2>1, <1>1, <1>2, <1>3, <1>5
<1>7. Safe(q.base.disk, q.b, w.log)
  <2>1. Proper([CutDisk(q.base.disk, v.log, Len(v.log)) EXCEPT ![r.sect] = r.data], q.b, dirs)
    BY <1>2, <1>3
  <2>2. Safe(q.base.disk, q.b, Append(v.log, r))
    BY <2>1, <1>2, <1>3, <1>4, SafeWritten
  <2>3. QED BY <2>2, <1>1
<1>8. IsVolume(w, q.b) /\ Logged(w, q)
  BY <1>1, <1>5, <1>6, <1>7 DEF IsVolume, Logged
<1>9. QED BY <1>1, <1>8 DEF w, OneMore

\* The window is written back, and to the second table.
LEMMA WindowSynced ==
    ASSUME NEW v, NEW q, Good(v, q)
    PROVE  LET w == SyncWindow(v)
           IN  /\ Good(w, q) /\ w.wflag = FALSE /\ Alike(v, w)
               /\ w.winsect = v.winsect /\ w.win = v.win
               /\ ~v.wflag => w = v
<1>1. CASE ~v.wflag
  <2>1. SyncWindow(v) = v
    BY <1>1 DEF SyncWindow
  <2>2. QED BY <1>1, <2>1 DEF Alike, Good, IsVolume
<1>2. CASE v.wflag
  <2> DEFINE u == [v EXCEPT !.wflag = FALSE]
             d == DiskWrite(u, v.winsect, v.win)
             w == SyncWindow(v)
  <2>1. /\ u.disk = v.disk /\ u.log = v.log /\ u.winsect = v.winsect /\ u.win = v.win /\ u.wflag = FALSE
        /\ u.free_clst = v.free_clst /\ u.last_clst = v.last_clst /\ u.fsi_flag = v.fsi_flag
        /\ IsVolume(u, q.b)
    BY DEF Good, IsVolume, Fields
  <2>2. IsShape(q) /\ Logged(u, q) /\ v.winsect \in Windowed(q) /\ v.wflag = TRUE
    BY <1>2, <2>1 DEF Good, Logged, Shows, IsVolume
  <2>3. v.winsect \in DOMAIN v.disk /\ v.winsect \in Volume(q.b) \ {q.b} /\ Volume(q.b) \subseteq DOMAIN v.disk
    BY <2>2, WindowedAre DEF Good, Proper, SoundDisk, Laid
  <2>4. Reads([v.disk EXCEPT ![v.winsect] = v.win], q.b, q.link, q.content)
    BY <1>2 DEF Good, Ahead
  <2>5. Proper([v.disk EXCEPT ![v.winsect] = v.win], q.b, q.dirs)
    BY <2>2, <2>4, ShapeIsProper
  <2> HIDE DEF u
  <2>6. /\ IsVolume(d, q.b) /\ Logged(d, q) /\ d.disk = [v.disk EXCEPT ![v.winsect] = v.win]
        /\ Alike(u, d) /\ d.wflag = FALSE /\ d.winsect = v.winsect /\ d.win = v.win
    <3>1. v.winsect \in DOMAIN u.disk /\ Proper([u.disk EXCEPT ![v.winsect] = v.win], q.b, q.dirs)
      BY <2>1, <2>3, <2>5
    <3>2. OneMore(u, q, v.winsect, v.win, d)
      BY <3>1, <2>1, <2>2, OneWritten
    <3>3. QED BY <3>2, <2>1 DEF OneMore
  <2>7. w = IF InFirstFat(v, v.winsect) THEN DiskWrite(d, v.winsect + FSize, v.win) ELSE d
    BY <1>2 DEF SyncWindow, u
  <2> HIDE DEF d, w
  <2>8. CASE ~InFirstFat(v, v.winsect)
    <3>1. w = d
      BY <2>7, <2>8
    <3>2. w.disk[w.winsect] = w.win
      BY <3>1, <2>6, <2>3
    <3>3. Tallied(w, q)
      <4>1. v.winsect \in Nat /\ v.winsect # q.b + 1
            /\ v.winsect \notin q.b + FatBase..q.b + FatBase + 2 * FSize - 1
        <5>1. v.winsect - (q.b + FatBase) \notin 0..FSize - 1
          BY <2>8 DEF InFirstFat, Good, IsVolume
        <5>2. q.b \in Nat /\ FSize \in Nat /\ FatBase = 2
          BY <2>2, Placed DEF IsShape, FatBase
        <5>3. QED BY <5>1, <5>2, <2>2, WindowPlaces
      <4>2. q.b \in Nat /\ Tallied(v, q) /\ Alike(v, w)
        BY <3>1, <2>1, <2>2, <2>6 DEF IsShape, Good, Alike
      <4>3. w.disk = [v.disk EXCEPT ![v.winsect] = v.win]
        BY <3>1, <2>6
      <4>4. QED BY <4>1, <4>2, <4>3, TallyKept
    <3>5. Good(w, q)
      BY <3>1, <3>2, <3>3, <2>2, <2>4, <2>5, <2>6 DEF Good, Shows, Ahead
    <3>6. QED BY <3>1, <3>5, <2>1, <2>6, <1>2 DEF w, Alike
  <2>9. CASE InFirstFat(v, v.winsect)
    <3>1. w = DiskWrite(d, v.winsect + FSize, v.win)
      BY <2>7, <2>9
    <3>2. v.winsect \in Table(q)
      <4>1. v.winsect \in q.b + FatBase..q.b + FatBase + FSize - 1
        <5>1. v.winsect - (q.b + FatBase) \in 0..FSize - 1
          BY <2>9 DEF InFirstFat, Good, IsVolume
        <5>2. v.winsect \in Int /\ q.b \in Nat /\ FSize \in Nat /\ FatBase = 2
          BY <2>2, <2>3, Placed, SectorsApart DEF IsShape, Volume, FatBase
        <5>3. QED BY <5>1, <5>2
      <4>2. QED BY <4>1, <2>2, WindowedAre
    <3>3. Blind(q.b, v.winsect + FSize) /\ v.winsect + FSize # v.winsect
      <4>1. PICK c \in Clusters : v.winsect = FatAt(q.b, c)
        BY <3>2 DEF Table
      <4>2. q.b \in Nat
        BY <2>2 DEF IsShape
      <4>3. QED BY <4>1, <4>2, BlindSectors, SectorsApart
    <3>4. Reads([d.disk EXCEPT ![v.winsect + FSize] = v.win], q.b, q.link, q.content)
      <4>1. Reads(d.disk, q.b, q.link, q.content)
        BY <2>4, <2>6
      <4>2. QED BY <4>1, <3>3, BlindWritten
    <3>5. Proper([d.disk EXCEPT ![v.winsect + FSize] = v.win], q.b, q.dirs)
      BY <3>4, <2>2, ShapeIsProper
    <3>6. v.winsect + FSize \in DOMAIN d.disk
      BY <3>3, <2>3, <2>6 DEF Blind
    <3>7. /\ IsVolume(w, q.b) /\ Logged(w, q) /\ w.disk = [d.disk EXCEPT ![v.winsect + FSize] = v.win]
          /\ Alike(d, w) /\ w.wflag = FALSE /\ w.winsect = v.winsect /\ w.win = v.win
      <4>1. OneMore(d, q, v.winsect + FSize, v.win, w)
        BY <3>1, <3>5, <3>6, <2>6, OneWritten
      <4>2. QED BY <4>1, <2>6 DEF OneMore
    <3>8. w.disk[w.winsect] = w.win
      BY <3>3, <3>7, <2>6, <2>3
    <3>9. Tallied(w, q)
      <4>1. v.winsect \in q.b + FatBase..q.b + FatBase + FSize - 1 /\ q.b \in Nat
        <5>1. v.winsect - (q.b + FatBase) \in 0..FSize - 1
          BY <2>9 DEF InFirstFat, Good, IsVolume
        <5>2. v.winsect \in Nat /\ q.b \in Nat /\ FSize \in Nat /\ FatBase = 2
          BY <2>2, Placed, WindowPlaces DEF IsShape, FatBase
        <5>3. QED BY <5>1, <5>2
      <4>2. w.disk = [[v.disk EXCEPT ![v.winsect] = v.win] EXCEPT ![v.winsect + FSize] = v.win]
        BY <3>7, <2>6
      <4>3. Laid(v.disk, q.b)
        BY DEF Good, Proper, SoundDisk
      <4>4. Mirrored(v.disk, q.b) =>
              Mirrored([[v.disk EXCEPT ![v.winsect] = v.win] EXCEPT ![v.winsect + FSize] = v.win], q.b)
        BY <4>1, <4>3, MirrorWritten
      <4>5. w.disk[q.b + 1] = v.disk[q.b + 1]
        <5>1. FSize \in Nat /\ FatBase = 2
          BY Placed DEF FatBase
        <5>2. q.b + 1 # v.winsect /\ q.b + 1 # v.winsect + FSize
          BY <4>1, <5>1
        <5>3. d.disk[q.b + 1] = v.disk[q.b + 1]
          BY <5>2, <2>6
        <5>4. QED BY <3>7, <5>2, <5>3
      <4>6. Tallied(v, q) /\ Alike(v, w)
        BY <3>7, <2>1, <2>6 DEF Good, Alike
      <4>7. QED BY <4>2, <4>4, <4>5, <4>6 DEF Tallied, Alike, Informed
    <3>10. Good(w, q)
      BY <3>4, <3>5, <3>7, <3>8, <3>9, <2>2 DEF Good, Shows, Ahead
    <3>11. QED BY <3>7, <3>10, <2>1, <2>6, <1>2 DEF w, Alike
  <2>10. QED BY <2>8, <2>9
<1>3. QED BY <1>1, <1>2

\* The window is moved.
LEMMA WindowMoved ==
    ASSUME NEW v, NEW q, Good(v, q), NEW s
    PROVE  LET w == MoveWindow(v, s)
           IN  /\ Good(w, q) /\ Alike(v, w) /\ w.winsect = s /\ w.win = Ahead(w)[s]
               /\ ~v.wflag => ~w.wflag /\ w.disk = v.disk /\ w.log = v.log
               /\ s # v.winsect => ~w.wflag
<1>1. CASE s = v.winsect
  <2>1. MoveWindow(v, s) = v
    BY <1>1 DEF MoveWindow
  <2>2. v.win = Ahead(v)[s]
    <3>1. v.wflag \in BOOLEAN /\ (v.wflag => v.winsect \in DOMAIN v.disk)
      BY WindowedAre DEF Good, IsVolume, Shows, Proper, SoundDisk, Laid
    <3>2. QED BY <3>1, <1>1 DEF Good, Shows, Ahead
  <2>3. QED BY <1>1, <2>1, <2>2 DEF Alike
<1>2. CASE s # v.winsect
  <2> DEFINE u == SyncWindow(v)
             w == [u EXCEPT !.win = u.disk[s], !.winsect = s]
  <2>1. MoveWindow(v, s) = w
    BY <1>2 DEF MoveWindow
  <2>2. Good(u, q) /\ u.wflag = FALSE /\ Alike(v, u) /\ (~v.wflag => u = v)
    BY WindowSynced
  <2> HIDE DEF u
  <2>3. /\ DOMAIN w = Fields /\ w.disk = u.disk /\ w.log = u.log /\ w.wflag = FALSE
        /\ w.winsect = s /\ w.win = u.disk[s] /\ w.mounted = u.mounted /\ w.volbase = u.volbase
        /\ w.free_clst = u.free_clst /\ w.last_clst = u.last_clst /\ w.fsi_flag = u.fsi_flag
    BY <2>2 DEF Good, IsVolume, Fields
  <2> HIDE DEF w
  <2>4. Good(w, q) /\ w.win = Ahead(w)[s]
    <3>1. Tallied(w, q)
      BY <2>2, <2>3 DEF Good, Tallied
    <3>2. QED BY <3>1, <2>2, <2>3 DEF Good, IsVolume, Logged, Shows, Ahead
  <2>5. QED BY <2>1, <2>2, <2>3, <2>4, <1>2 DEF Alike
<1>3. QED BY <1>1, <1>2

-----------------------------------------------------------------------------
(* What the functions on the window do to the shape.                        *)

\* What the window shows of a table or of a cluster.
LEMMA InWindow ==
    ASSUME NEW v, NEW q, Good(v, q)
    PROVE  /\ v.win = Ahead(v)[v.winsect]
           /\ \A c \in Clusters : v.winsect = SectAt(q.b, c) => v.win = q.content[c]
           /\ \A c \in Clusters : v.winsect = FatAt(q.b, c) =>
                 v.win[c % EPS] = q.link[c] /\ DOMAIN v.win = 0..EPS - 1
<1>1. v.win = Ahead(v)[v.winsect]
  <2>1. v.wflag \in BOOLEAN /\ (v.wflag => v.winsect \in DOMAIN v.disk)
    BY WindowedAre DEF Good, IsVolume, Shows, Proper, SoundDisk, Laid
  <2>2. QED BY <2>1 DEF Good, Shows, Ahead
<1>2. /\ Links(Ahead(v), q.b) = q.link /\ Held(Ahead(v), q.b) = q.content /\ q.b \in Nat
      /\ \A s \in q.b + FatBase..q.b + FatBase + FSize - 1 : DOMAIN Ahead(v)[s] = 0..EPS - 1
  BY DEF Good, Reads, Laid
<1>3. ASSUME NEW c \in Clusters, v.winsect = SectAt(q.b, c) PROVE v.win = q.content[c]
  BY <1>1, <1>2, <1>3 DEF Held, SectAt
<1>4. ASSUME NEW c \in Clusters, v.winsect = FatAt(q.b, c)
      PROVE  v.win[c % EPS] = q.link[c] /\ DOMAIN v.win = 0..EPS - 1
  <2>1. FatAt(q.b, c) \in q.b + FatBase..q.b + FatBase + FSize - 1
    BY <1>2, SectorsApart
  <2>2. q.link[c] = Ahead(v)[FatAt(q.b, c)][c % EPS]
    BY <1>2 DEF Links, FatAt
  <2>3. QED BY <1>1, <1>2, <1>4, <2>1, <2>2
<1>5. QED BY <1>1, <1>3, <1>4

\* The window, moved without a write.
Still(v, w) == ~v.wflag => ~w.wflag /\ w.disk = v.disk /\ w.log = v.log

\* get_fat of a cluster returns its link, and changes nothing.
LEMMA LinkRead ==
    ASSUME NEW v, NEW q, Good(v, q), NEW c \in Clusters
    PROVE  /\ Good(GetFat(v, c).v, q) /\ GetFat(v, c).val = q.link[c]
           /\ Alike(v, GetFat(v, c).v) /\ Still(v, GetFat(v, c).v)
           /\ GetFat(v, c).v = MoveWindow(v, FatAt(q.b, c))
           /\ GetFat(v, c).v.winsect = FatAt(q.b, c)
<1> DEFINE w == MoveWindow(v, FatAt(q.b, c))
<1>1. FatSector(v, c) = FatAt(q.b, c)
  BY DEF FatSector, FatAt, Good, IsVolume
<1>2. GetFat(v, c).v = w /\ GetFat(v, c).val = w.win[c % EPS]
  BY <1>1 DEF GetFat, Clusters
<1>3. Good(w, q) /\ Alike(v, w) /\ w.winsect = FatAt(q.b, c) /\ Still(v, w)
  BY WindowMoved DEF Still
<1> HIDE DEF w
<1>4. w.win[c % EPS] = q.link[c]
  BY <1>3, InWindow
<1>5. QED BY <1>2, <1>3, <1>4 DEF w

\* get_fat of what is no cluster returns 1.
LEMMA NoLinkRead ==
    ASSUME NEW v, NEW c, c \notin Clusters
    PROVE  GetFat(v, c).v = v /\ GetFat(v, c).val = 1
BY DEF GetFat, Clusters

\* q2 is q but for the link of c.
Relinked(q, q2, c, val) ==
    /\ IsShape(q2) /\ q2.b = q.b /\ q2.base = q.base /\ q2.dirs = q.dirs /\ q2.content = q.content
    /\ q2.link = [q.link EXCEPT ![c] = val]
    /\ Cardinality(Unlinked(q2.link)) - q2.due = Cardinality(Unlinked(q.link)) - q.due

\* put_fat changes one link of the shape, in the window.
LEMMA LinkSet ==
    ASSUME NEW v, NEW q, NEW q2, NEW c \in Clusters, NEW val, Good(v, q), Relinked(q, q2, c, val)
    PROVE  /\ Good(PutFat(v, c, val), q2) /\ Alike(v, PutFat(v, c, val))
           /\ PutFat(v, c, val).winsect = FatAt(q.b, c)
<1> DEFINE u == MoveWindow(v, FatAt(q.b, c))
           x == [u.win EXCEPT ![c % EPS] = val]
           w == [u EXCEPT !.win[c % EPS] = val, !.wflag = TRUE]
<1>1. FatSector(v, c) = FatAt(q.b, c)
  BY DEF FatSector, FatAt, Good, IsVolume
<1>2. PutFat(v, c, val) = w
  BY <1>1 DEF PutFat, Clusters
<1>3. Good(u, q) /\ Alike(v, u) /\ u.winsect = FatAt(q.b, c) /\ u.win = Ahead(u)[FatAt(q.b, c)]
  BY WindowMoved
<1> HIDE DEF u
<1>4. /\ DOMAIN w = Fields /\ w.disk = u.disk /\ w.log = u.log /\ w.wflag = TRUE /\ w.win = x
      /\ w.winsect = u.winsect /\ w.mounted = u.mounted /\ w.volbase = u.volbase
      /\ w.free_clst = u.free_clst /\ w.last_clst = u.last_clst /\ w.fsi_flag = u.fsi_flag
  BY <1>3 DEF Good, IsVolume, Fields
<1> HIDE DEF w
<1>5. Ahead(w) = [Ahead(u) EXCEPT ![FatAt(q.b, c)] = [Ahead(u)[FatAt(q.b, c)] EXCEPT ![c % EPS] = val]]
  <2>1. Ahead(w) = [u.disk EXCEPT ![FatAt(q.b, c)] = x]
    BY <1>3, <1>4 DEF Ahead
  <2>2. [Ahead(u) EXCEPT ![FatAt(q.b, c)] = x] = [u.disk EXCEPT ![FatAt(q.b, c)] = x]
    BY <1>3 DEF Ahead
  <2>3. QED BY <2>1, <2>2, <1>3
<1>6. Reads(Ahead(w), q2.b, q2.link, q2.content)
  <2>1. Reads(Ahead(u), q.b, q.link, q.content)
    BY <1>3 DEF Good
  <2>2. Reads([Ahead(u) EXCEPT ![FatAt(q.b, c)] = [Ahead(u)[FatAt(q.b, c)] EXCEPT ![c % EPS] = val]],
              q.b, [q.link EXCEPT ![c] = val], q.content)
    BY <2>1, LinkWritten
  <2>3. QED BY <2>2, <1>5 DEF Relinked
<1>7. Shows(w, q2)
  <2>1. FatAt(q.b, c) \in Windowed(q2)
    BY DEF Relinked, Windowed, Table
  <2>2. QED BY <2>1, <1>3, <1>4 DEF Shows
<1>8. Good(w, q2)
  <2>1. Tallied(w, q2)
    BY <1>3, <1>4 DEF Good, Tallied, Relinked
  <2>2. QED BY <2>1, <1>3, <1>4, <1>6, <1>7 DEF Good, IsVolume, Logged, Relinked
<1>9. QED BY <1>2, <1>3, <1>4, <1>8 DEF Alike

\* q2 is q but for what the cluster k holds.
Refilled(q, q2, k, x) ==
    /\ IsShape(q2) /\ q2.b = q.b /\ q2.base = q.base /\ q2.due = q.due /\ q2.dirs = q.dirs /\ q2.link = q.link
    /\ q2.content = [q.content EXCEPT ![k] = x]

\* The window's sector, of a directory, is changed in the window.
Changed(v, w, q, q2, k, x) ==
    /\ k \in q.dirs /\ Good(v, q) /\ v.winsect = SectAt(q.b, k) /\ Refilled(q, q2, k, x)
    /\ w = [v EXCEPT !.win = x, !.wflag = TRUE]

\* A changed sector of a directory in the window is a changed cluster of the shape.
LEMMA EntryWritten ==
    ASSUME NEW v, NEW w, NEW q, NEW q2, NEW k, NEW x, Changed(v, w, q, q2, k, x)
    PROVE  Good(w, q2) /\ Alike(v, w) /\ w.winsect = v.winsect /\ w.win = x
<1>0. /\ k \in q.dirs /\ Good(v, q) /\ v.winsect = SectAt(q.b, k) /\ Refilled(q, q2, k, x)
      /\ w = [v EXCEPT !.win = x, !.wflag = TRUE]
  BY DEF Changed
<1> USE <1>0
<1>1. k \in Clusters
  BY ShapeFacts DEF Good
<1>4. /\ DOMAIN w = Fields /\ w.disk = v.disk /\ w.log = v.log /\ w.wflag = TRUE /\ w.win = x
      /\ w.winsect = v.winsect /\ w.mounted = v.mounted /\ w.volbase = v.volbase
      /\ w.free_clst = v.free_clst /\ w.last_clst = v.last_clst /\ w.fsi_flag = v.fsi_flag
  BY DEF Good, IsVolume, Fields
<1>5. Ahead(w) = [Ahead(v) EXCEPT ![SectAt(q.b, k)] = x]
  BY <1>4 DEF Ahead
<1>6. Reads(Ahead(w), q2.b, q2.link, q2.content)
  <2>1. Reads(Ahead(v), q.b, q.link, q.content)
    BY DEF Good
  <2>2. Reads(Ahead(w), q.b, q.link, [q.content EXCEPT ![k] = x])
    BY <2>1, <1>1, <1>5, ClusterWritten
  <2>3. QED BY <2>2 DEF Refilled
<1>7. Shows(w, q2)
  <2>1. SectAt(q.b, k) \in Windowed(q2)
    BY DEF Refilled, Windowed
  <2>2. QED BY <2>1, <1>4 DEF Shows
<1>8. Good(w, q2)
  <2>1. Tallied(w, q2)
    BY <1>4 DEF Good, Tallied, Refilled
  <2>2. QED BY <2>1, <1>4, <1>6, <1>7 DEF Good, IsVolume, Logged, Refilled
<1>9. QED BY <1>4, <1>8 DEF Alike

\* A sector of a file goes to the disk past the window.
LEMMA DataWritten ==
    ASSUME NEW v, NEW q, NEW q2, NEW k \in Clusters, NEW x, Good(v, q), k \notin q.dirs,
           v.winsect \in Windowed(q), Refilled(q, q2, k, x)
    PROVE  LET w == DiskWrite(v, SectAt(q.b, k), x)
           IN  /\ Good(w, q2) /\ Alike(v, w) /\ w.winsect = v.winsect /\ w.win = v.win
<1> DEFINE s == SectAt(q.b, k)
           w == DiskWrite(v, s, x)
<1>1. /\ IsShape(q) /\ q.b \in Nat /\ s # v.winsect
  BY WindowedAre DEF Good, IsShape
<1>2. PICK first, nth : SoundDisk(v.disk, q.b, q.dirs, first, nth)
  BY DEF Good, Proper
<1>3. Reads(v.disk, q.b, Links(v.disk, q.b), Held(v.disk, q.b))
  BY <1>2 DEF Reads, SoundDisk
<1>4. s \in DOMAIN v.disk
  BY <1>1, <1>2, SectorsApart DEF SoundDisk, Laid
<1>5. Reads([v.disk EXCEPT ![s] = x], q.b, Links(v.disk, q.b), [Held(v.disk, q.b) EXCEPT ![k] = x])
  BY <1>3, ClusterWritten
<1>6. Proper([v.disk EXCEPT ![s] = x], q.b, q.dirs)
  <2>1. Sound(Links(v.disk, q.b), Held(v.disk, q.b), q.dirs, first, nth)
    BY <1>2 DEF SoundDisk
  <2>2. \A d \in q.dirs : [Held(v.disk, q.b) EXCEPT ![k] = x][d] = Held(v.disk, q.b)[d]
    BY ShapeFacts, <1>1 DEF Held
  <2>3. Sound(Links(v.disk, q.b), [Held(v.disk, q.b) EXCEPT ![k] = x], q.dirs, first, nth)
    BY <2>1, <2>2, DataSound
  <2>4. QED BY <2>3, <1>5 DEF Proper, SoundDisk, Reads
<1>7. /\ IsVolume(w, q.b) /\ Logged(w, q) /\ w.disk = [v.disk EXCEPT ![s] = x]
      /\ Alike(v, w) /\ w.wflag = v.wflag /\ w.winsect = v.winsect /\ w.win = v.win
  <2>1. OneMore(v, q, s, x, w)
    BY <1>4, <1>6, OneWritten DEF Good
  <2>2. QED BY <2>1 DEF OneMore
<1> HIDE DEF w
<1>8. Ahead(w) = [Ahead(v) EXCEPT ![s] = x]
  <2>1. CASE v.wflag
    <3>1. Ahead(w) = [[v.disk EXCEPT ![s] = x] EXCEPT ![v.winsect] = v.win]
      BY <2>1, <1>7 DEF Ahead
    <3>2. Ahead(v) = [v.disk EXCEPT ![v.winsect] = v.win]
      BY <2>1 DEF Ahead
    <3> HIDE DEF s
    <3>3. QED BY <3>1, <3>2, <1>1
  <2>2. CASE ~v.wflag
    BY <2>2, <1>7 DEF Ahead
  <2>3. QED BY <2>1, <2>2
<1>9. Reads(Ahead(w), q2.b, q2.link, q2.content)
  <2>1. Reads(Ahead(v), q.b, q.link, q.content)
    BY DEF Good
  <2>2. Reads([Ahead(v) EXCEPT ![s] = x], q.b, q.link, [q.content EXCEPT ![k] = x])
    BY <2>1, ClusterWritten
  <2>3. QED BY <2>2, <1>8 DEF Refilled
<1>10. Shows(w, q2)
  <2>1. Windowed(q2) = Windowed(q)
    BY DEF Refilled, Windowed, Table
  <2>2. ~v.wflag => w.win = w.disk[w.winsect]
    <3> HIDE DEF s
    <3>1. QED BY <1>1, <1>7 DEF Good, Shows
  <2>3. QED BY <2>1, <2>2, <1>7 DEF Shows
<1>11. Proper(w.disk, q2.b, q2.dirs)
  BY <1>6, <1>7 DEF Refilled
<1>12. Tallied(w, q2)
  <2>1. Tallied(w, q)
    <3>1. s \in Nat /\ s # q.b + 1 /\ s \notin q.b + FatBase..q.b + FatBase + 2 * FSize - 1
      BY <1>1, ClusterPlaces
    <3>2. Tallied(v, q)
      BY DEF Good
    <3> HIDE DEF s
    <3>3. QED BY <3>1, <3>2, <1>1, <1>7, TallyKept
  <2>2. QED BY <2>1 DEF Tallied, Refilled
<1>13. Good(w, q2)
  BY <1>7, <1>9, <1>10, <1>11, <1>12 DEF Good, IsVolume, Logged, Refilled
<1>14. QED BY <1>7, <1>13 DEF w

\* What is due in v is counted in w.
CountsDue(v, w, q) ==
    q.base.whole => /\ w.free_clst = v.free_clst + q.due
                    /\ w.fsi_flag = 1 \/ (w.fsi_flag = v.fsi_flag /\ w.free_clst = v.free_clst)

\* From v to w the counts in memory change, and nothing else.
Recounted(v, w, q) ==
    /\ DOMAIN w = Fields /\ w.disk = v.disk /\ w.log = v.log /\ w.wflag = v.wflag /\ w.win = v.win
    /\ w.winsect = v.winsect /\ w.mounted = v.mounted /\ w.volbase = v.volbase
    /\ w.fsi_flag \in {0, 1} /\ CountsDue(v, w, q)

\* The counts of free clusters are no part of the shape.
LEMMA CountsChanged ==
    ASSUME NEW v, NEW w, NEW q, Good(v, q), Recounted(v, w, q)
    PROVE  Good(w, [q EXCEPT !.due = 0])
<1> DEFINE q2 == [q EXCEPT !.due = 0]
<1>1. /\ IsShape(q2) /\ q2.b = q.b /\ q2.base = q.base /\ q2.due = 0 /\ q2.dirs = q.dirs
      /\ q2.link = q.link /\ q2.content = q.content
  BY DEF Good, IsShape, Tended
<1> HIDE DEF q2
<1>2. Tallied(w, q2)
  <2>1. Cardinality(Unlinked(q.link)) \in Nat /\ q.due \in Int
    BY FreeAreCounted DEF Good, IsShape
  <2>2. QED BY <2>1, <1>1 DEF Good, Recounted, CountsDue, Tallied
<1>3. Windowed(q2) = Windowed(q)
  BY <1>1 DEF Windowed, Table
<1>4. Good(w, q2)
  BY <1>1, <1>2, <1>3 DEF Good, Recounted, IsVolume, Logged, Shows, Ahead
<1>5. QED BY <1>4 DEF q2

\* After sync_fs nothing waits in memory.
LEMMA FsSynced ==
    ASSUME NEW v, NEW q, Good(v, q)
    PROVE  Good(SyncFs(v), q) /\ SyncFs(v).wflag = FALSE /\ SyncFs(v).fsi_flag = 0
<1>1. /\ Good(SyncWindow(v), q) /\ SyncWindow(v).wflag = FALSE /\ Alike(v, SyncWindow(v))
  BY WindowSynced
<1>2. CASE v.fsi_flag # 1
  BY <1>1, <1>2 DEF SyncFs, Alike, Good, IsVolume
<1>3. CASE v.fsi_flag = 1
  <2> DEFINE info == [lead |-> TRUE, free |-> v.free_clst, next |-> v.last_clst]
             u == SyncWindow(v)
             w == [u EXCEPT !.fsi_flag = 0, !.win = info, !.winsect = v.volbase + 1]
             z == DiskWrite(w, w.winsect, info)
  <2>1. SyncFs(v) = z
    BY <1>3 DEF SyncFs
  <2>2. Good(u, q) /\ u.wflag = FALSE
    BY <1>1
  <2> HIDE DEF u, info
  <2>3. /\ DOMAIN w = Fields /\ w.disk = u.disk /\ w.log = u.log /\ w.wflag = FALSE /\ w.win = info
        /\ w.winsect = q.b + 1 /\ w.mounted = u.mounted /\ w.volbase = u.volbase /\ w.fsi_flag = 0
        /\ w.free_clst = u.free_clst
    BY <2>2 DEF Good, IsVolume, Fields
  <2>4. IsVolume(w, q.b) /\ Logged(w, q)
    BY <2>2, <2>3 DEF Good, IsVolume, Logged
  <2>5. Blind(q.b, q.b + 1) /\ Reads(u.disk, q.b, q.link, q.content) /\ IsShape(q)
    BY <2>2, BlindSectors DEF Good, Ahead, IsShape
  <2>6. Reads([u.disk EXCEPT ![q.b + 1] = info], q.b, q.link, q.content)
    BY <2>5, BlindWritten
  <2>7. Proper([w.disk EXCEPT ![q.b + 1] = info], q.b, q.dirs) /\ q.b + 1 \in DOMAIN w.disk
    BY <2>3, <2>5, <2>6, ShapeIsProper DEF Blind, Reads, Laid
  <2> HIDE DEF w
  <2>8. /\ IsVolume(z, q.b) /\ Logged(z, q) /\ z.disk = [w.disk EXCEPT ![q.b + 1] = info]
        /\ Alike(w, z) /\ z.wflag = FALSE /\ z.winsect = q.b + 1 /\ z.win = info
    <3>1. z = DiskWrite(w, q.b + 1, info)
      BY <2>3
    <3> HIDE DEF z
    <3>2. OneMore(w, q, q.b + 1, info, z)
      BY <3>1, <2>4, <2>7, OneWritten
    <3>3. QED BY <3>2, <2>3 DEF OneMore
  <2> HIDE DEF z
  <2>9. Tallied(z, q)
    <3>1. z.free_clst = v.free_clst /\ z.disk = [u.disk EXCEPT ![q.b + 1] = info]
      BY <1>1, <2>3, <2>8 DEF Alike, u
    <3>2. q.b + 1 \in DOMAIN u.disk /\ q.b \in Nat /\ Tallied(u, q)
      BY <2>2, <2>3, <2>7 DEF Good, IsShape
    <3>3. z.disk[q.b + 1].lead = TRUE /\ z.disk[q.b + 1].free = v.free_clst
      BY <3>1, <3>2 DEF info
    <3>4. q.b + 1 \in Nat /\ q.b + 1 \notin q.b + FatBase..q.b + FatBase + 2 * FSize - 1
      BY <3>2, Placed DEF FatBase
    <3>5. Mirrored(u.disk, q.b) => Mirrored([u.disk EXCEPT ![q.b + 1] = info], q.b)
      BY <3>2, <3>4, MirrorKept
    <3>6. u.free_clst = v.free_clst
      BY <1>1 DEF Alike, u
    <3>7. QED BY <3>1, <3>2, <3>3, <3>5, <3>6 DEF Tallied, Informed
  <2>10. Good(z, q)
    BY <2>3, <2>5, <2>6, <2>7, <2>8, <2>9 DEF Good, Shows, Ahead
  <2>11. QED BY <2>1, <2>3, <2>8, <2>10 DEF Alike
<1>4. QED BY <1>2, <1>3

-----------------------------------------------------------------------------
(* A directory grows.                                                       *)

\* u is w with c linked to n in the window.
LinkedInWindow(w, u, c, n) ==
    /\ DOMAIN u = Fields /\ u.disk = w.disk /\ u.log = w.log /\ u.wflag = TRUE
    /\ u.win = [w.win EXCEPT ![c % EPS] = n]
    /\ u.winsect = w.winsect /\ u.mounted = w.mounted /\ u.volbase = w.volbase
    /\ u.fsi_flag \in {0, 1}

Grown(q, q2, c, n) ==
    /\ IsShape(q2) /\ q2.b = q.b /\ q2.base = q.base /\ q2.due = 0 /\ q2.lost = q.lost \ {n}
    /\ q2.dirs = q.dirs \cup {n}
    /\ q2.link = [q.link EXCEPT ![c] = n]
    /\ q2.content = [q.content EXCEPT ![n] = NoEntries]
    /\ q2.first = [q.first EXCEPT ![n] = q.first[c]]
    /\ q2.nth = [q.nth EXCEPT ![n] = q.nth[c] + 1]

Clearable(w, u, q, c, n) ==
    /\ c \in q.dirs /\ n \in Clusters /\ Good(w, q) /\ w.winsect = FatAt(q.b, c)
    /\ q.link[c] = EOC /\ q.link[n] = EOC /\ Loose(q.link, q.content, q.dirs, n)
    /\ LinkedInWindow(w, u, c, n) /\ CountsDue(w, u, q)

\* dir_clear ends the three writes by which a directory grows.
LEMMA Cleared ==
    ASSUME NEW w, NEW u, NEW q, NEW c, NEW n, Clearable(w, u, q, c, n)
    PROVE  \E q2 : /\ Grown(q, q2, c, n) /\ Good(DirClear(u, n), q2)
                   /\ DirClear(u, n).wflag = FALSE
<1> DEFINE q2 == [b |-> q.b, base |-> q.base, due |-> 0, lost |-> q.lost \ {n}, dirs |-> q.dirs \cup {n},
                  link |-> [q.link EXCEPT ![c] = n],
                  content |-> [q.content EXCEPT ![n] = NoEntries],
                  first |-> [q.first EXCEPT ![n] = q.first[c]],
                  nth |-> [q.nth EXCEPT ![n] = q.nth[c] + 1]]
           s == FatAt(q.b, c)
           t == SectAt(q.b, n)
           x == u.win
           z == DirClear(u, n)
           disk1 == [u.disk EXCEPT ![s] = x]
           disk2 == [disk1 EXCEPT ![s + FSize] = x]
           disk3 == [disk2 EXCEPT ![t] = NoEntries]
           w1 == [sect |-> s, data |-> x, clears |-> FALSE]
           w2 == [sect |-> s + FSize, data |-> x, clears |-> FALSE]
           w3 == [sect |-> t, data |-> NoEntries, clears |-> TRUE]
<1>0. /\ c \in q.dirs /\ n \in Clusters /\ Good(w, q) /\ w.winsect = FatAt(q.b, c)
      /\ q.link[c] = EOC /\ q.link[n] = EOC /\ Loose(q.link, q.content, q.dirs, n)
      /\ LinkedInWindow(w, u, c, n) /\ CountsDue(w, u, q)
  BY DEF Clearable
<1> USE <1>0
<1>1. /\ IsShape(q) /\ q.b \in Nat /\ c \in Clusters /\ n \in Clusters \ q.dirs
      /\ IsLink(q.link) /\ IsLink(q.content) /\ DOMAIN q.first = Clusters /\ DOMAIN q.nth = Clusters
      /\ Sound(q.link, q.content, q.dirs, q.first, q.nth)
  BY ShapeFacts DEF Good, IsShape, Loose
<1>2. Grown(q, q2, c, n)
  <2>0. /\ Sound([q.link EXCEPT ![c] = n], [q.content EXCEPT ![n] = NoEntries], q.dirs \cup {n},
                 [q.first EXCEPT ![n] = q.first[c]], [q.nth EXCEPT ![n] = q.nth[c] + 1])
        /\ Untended([q.link EXCEPT ![c] = n], [q.content EXCEPT ![n] = NoEntries], q.dirs \cup {n})
             \subseteq Untended(q.link, q.content, q.dirs) \ {n}
        /\ \A level : Tidy(q.content, q.dirs, q.first, q.nth, level)
              => Tidy([q.content EXCEPT ![n] = NoEntries], q.dirs \cup {n}, [q.first EXCEPT ![n] = q.first[c]],
                      [q.nth EXCEPT ![n] = q.nth[c] + 1], level)
    <3> HIDE DEF q2
    <3>1. QED BY <1>1, GrowSound
  <2>1. Sound(q2.link, q2.content, q2.dirs, q2.first, q2.nth)
    BY <2>0
  <2>3. Tended(q2)
    <3>1. SUFFICES ASSUME q.base.whole
                   PROVE  /\ Tidy(q2.content, q2.dirs, q2.first, q2.nth, q.base.level)
                          /\ Untended(q2.link, q2.content, q2.dirs) \subseteq q.lost \ {n}
      BY DEF Tended
    <3>2. /\ Tidy(q.content, q.dirs, q.first, q.nth, q.base.level)
          /\ Untended(q.link, q.content, q.dirs) \subseteq q.lost
      BY <1>1, <3>1 DEF IsShape, Tended
    <3>3. QED BY <2>0, <3>2
  <2>2. IsShape(q2)
    BY <2>1, <2>3, <1>1 DEF IsShape, IsLink
  <2>4. QED BY <2>2 DEF Grown
<1> HIDE DEF q2
<1>3. /\ u.winsect = s /\ u.volbase = q.b /\ u.wflag = TRUE /\ IsVolume(u, q.b)
      /\ IsLog(u.log) /\ u.disk = CutDisk(q.base.disk, u.log, Len(u.log)) /\ Safe(q.base.disk, q.b, u.log)
  BY DEF LinkedInWindow, Good, IsVolume, Logged
<1>4. /\ s \in DOMAIN u.disk /\ s + FSize \in DOMAIN u.disk /\ t \in DOMAIN u.disk
      /\ s \in DOMAIN q.base.disk /\ s + FSize \in DOMAIN q.base.disk /\ t \in DOMAIN q.base.disk
  <2>1. Volume(q.b) \subseteq DOMAIN u.disk
    BY DEF Good, LinkedInWindow, Proper, SoundDisk, Laid
  <2>2. s \in Volume(q.b) /\ s + FSize \in Volume(q.b) /\ t \in Volume(q.b)
    BY <1>1, SectorsApart
  <2>3. DOMAIN u.disk = DOMAIN q.base.disk
    BY <1>3 DEF CutDisk
  <2>4. QED BY <2>1, <2>2, <2>3
<1>5. Reads(disk1, q.b, q2.link, q.content)
  <2>1. w.win = Ahead(w)[s]
    BY InWindow
  <2>2. Reads([Ahead(w) EXCEPT ![s] = [Ahead(w)[s] EXCEPT ![c % EPS] = n]], q.b, [q.link EXCEPT ![c] = n], q.content)
    BY <1>1, LinkWritten DEF Good
  <2>3. disk1 = [Ahead(w) EXCEPT ![s] = [Ahead(w)[s] EXCEPT ![c % EPS] = n]]
    <3>1. x = [Ahead(w)[s] EXCEPT ![c % EPS] = n]
      BY <2>1 DEF LinkedInWindow
    <3> HIDE DEF x
    <3>2. [w.disk EXCEPT ![s] = x] = [Ahead(w) EXCEPT ![s] = x]
      BY DEF Ahead
    <3>3. QED BY <3>1, <3>2 DEF LinkedInWindow
  <2>4. QED BY <2>2, <2>3, <1>2 DEF Grown
<1> HIDE DEF disk1, x
<1>6. Reads(disk2, q.b, q2.link, q.content)
  <2>1. Blind(q.b, s + FSize)
    BY <1>1, BlindSectors
  <2>2. QED BY <2>1, <1>5, BlindWritten
<1> HIDE DEF disk2
<1>7. Reads(disk3, q2.b, q2.link, q2.content)
  <2>1. Reads([disk2 EXCEPT ![t] = NoEntries], q.b, q2.link, [q.content EXCEPT ![n] = NoEntries])
    BY <1>6, ClusterWritten
  <2>2. QED BY <2>1, <1>2 DEF Grown
<1> HIDE DEF disk3
<1>8. Proper(disk3, q.b, q2.dirs)
  BY <1>2, <1>7, ShapeIsProper DEF Grown
<1> DEFINE log3 == Append(Append(Append(u.log, w1), w2), w3)
<1>9. IsLog(log3) /\ Safe(q.base.disk, q.b, log3) /\ CutDisk(q.base.disk, log3, Len(log3)) = disk3
  <2>1. /\ w1.sect = s /\ w1.data = x /\ ~w1.clears /\ w2.sect = s + FSize /\ w2.data = x /\ ~w2.clears
        /\ w3.sect = t /\ w3.data = NoEntries /\ w3.clears
    OBVIOUS
  <2> HIDE DEF w1, w2, w3
  <2>2. [[[CutDisk(q.base.disk, u.log, Len(u.log)) EXCEPT ![w1.sect] = w1.data]
                      EXCEPT ![w2.sect] = w2.data] EXCEPT ![w3.sect] = w3.data] = disk3
    BY <2>1, <1>3 DEF disk1, disk2, disk3
  <2>3. w1.sect \in DOMAIN q.base.disk /\ w2.sect \in DOMAIN q.base.disk /\ w3.sect \in DOMAIN q.base.disk
    BY <2>1, <1>4
  <2>4. IsLog(u.log) /\ Safe(q.base.disk, q.b, u.log)
    BY <1>3
  <2>5. ~w1.clears /\ ~w2.clears /\ w3.clears
    BY <2>1
  <2>6. Clearing(q.base.disk, q.b, u.log, w1, w2, w3, disk3, q2.dirs)
    BY <1>8, <2>2, <2>3, <2>4, <2>5 DEF Clearing
  <2>7. QED BY <2>6, SafeCleared
<1>10. /\ DOMAIN z = Fields /\ z.disk = disk3 /\ z.log = log3 /\ z.wflag = FALSE /\ z.win = NoEntries
       /\ z.winsect = t /\ z.mounted = u.mounted /\ z.volbase = u.volbase /\ Alike(u, z)
  <2> DEFINE u0 == [u EXCEPT !.wflag = FALSE]
             u1 == DiskWrite(u0, s, x)
             u2 == DiskWrite(u1, s + FSize, x)
             u3 == [u2 EXCEPT !.winsect = t, !.win = NoEntries]
  <2>1. InFirstFat(u, s)
    <3>1. s \in q.b + FatBase..q.b + FatBase + FSize - 1 /\ FSize \in Nat
      BY <1>1, SectorsApart
    <3>2. s - (q.b + FatBase) \in 0..FSize - 1
      <4> HIDE DEF s
      <4>1. QED BY <3>1, <1>1 DEF FatBase
    <3>3. QED BY <3>2, <1>3 DEF InFirstFat
  <2>2. SyncWindow(u) = u2
    BY <2>1, <1>3 DEF SyncWindow, x
  <2>3. Sector(u, n) = t
    BY <1>3 DEF Sector, SectAt, Clusters
  <2>4. z = Write([u2 EXCEPT !.winsect = t, !.win = NoEntries], t, NoEntries, TRUE)
    BY <2>2, <2>3 DEF DirClear
  <2> HIDE DEF s, t, z
  <2>5. /\ DOMAIN u0 = Fields /\ u0.disk = u.disk /\ u0.log = u.log /\ u0.wflag = FALSE
        /\ u0.mounted = u.mounted /\ u0.volbase = u.volbase /\ Alike(u, u0)
    BY <1>3 DEF IsVolume, Fields, Alike
  <2> HIDE DEF u0
  <2>6. /\ DOMAIN u1 = Fields /\ u1.disk = disk1 /\ u1.log = Append(u.log, w1) /\ u1.wflag = FALSE
        /\ u1.mounted = u.mounted /\ u1.volbase = u.volbase /\ Alike(u, u1)
    BY <2>5 DEF DiskWrite, Write, Alike, disk1, Fields
  <2> HIDE DEF u1
  <2>7. /\ DOMAIN u2 = Fields /\ u2.disk = disk2 /\ u2.log = Append(Append(u.log, w1), w2) /\ u2.wflag = FALSE
        /\ u2.mounted = u.mounted /\ u2.volbase = u.volbase /\ Alike(u, u2)
    BY <2>6 DEF DiskWrite, Write, Alike, disk2, Fields
  <2> HIDE DEF u2
  <2>8. /\ DOMAIN u3 = Fields /\ u3.disk = disk2 /\ u3.log = Append(Append(u.log, w1), w2) /\ u3.wflag = FALSE
        /\ u3.mounted = u.mounted /\ u3.volbase = u.volbase /\ Alike(u, u3)
        /\ u3.winsect = t /\ u3.win = NoEntries
    BY <2>7 DEF Alike, Fields
  <2> HIDE DEF w1, w2
  <2>9. z = Write(u3, t, NoEntries, TRUE)
    BY <2>4
  <2> HIDE DEF u3
  <2>10. QED BY <2>8, <2>9 DEF Write, Alike, disk3, Fields
<1> HIDE DEF z, log3, t
<1>11. z.disk[z.winsect] = z.win
  BY <1>4, <1>10 DEF disk1, disk2, disk3
<1>12. Good(z, q2)
  <2>1. Proper(z.disk, q2.b, q2.dirs) /\ IsShape(q2)
    BY <1>2, <1>8, <1>10 DEF Grown
  <2>2. Logged(z, q2)
    BY <1>2, <1>9, <1>10 DEF Logged, Grown
  <2>3. IsVolume(z, q2.b)
    BY <1>2, <1>3, <1>10 DEF IsVolume, Grown, Alike
  <2>4. Tallied(z, q2)
    <3>1. s \in q.b + FatBase..q.b + FatBase + FSize - 1 /\ q.b + 1 # s /\ q.b + 1 # s + FSize
      BY <1>1, SectorsApart, Placed DEF FatBase
    <3>2. /\ t \in Nat /\ t # q.b + 1 /\ t \notin q.b + FatBase..q.b + FatBase + 2 * FSize - 1
      BY <1>1, ClusterPlaces DEF t
    <3>3. Laid(u.disk, q.b) /\ u.disk = w.disk
      BY DEF Good, LinkedInWindow, Proper, SoundDisk
    <3>4. Mirrored(u.disk, q.b) => Mirrored(disk2, q.b)
      BY <1>1, <3>1, <3>3, MirrorWritten DEF disk1, disk2
    <3>5. Mirrored(disk2, q.b) => Mirrored(disk3, q.b)
      BY <1>1, <3>2, MirrorKept DEF disk3
    <3>6. Cardinality(Unlinked(q2.link)) = Cardinality(Unlinked(q.link))
      <4>1. n # 0 /\ q.link[c] # 0
        BY <1>1, EocIsNone
      <4>2. QED BY <4>1, <1>1, <1>2, OneLinkCounted DEF Grown
    <3>7. Cardinality(Unlinked(q.link)) \in Nat /\ q.due \in Int
      BY <1>1, FreeAreCounted DEF IsShape
    <3>8. q.base.whole => /\ z.free_clst = w.free_clst + q.due
                          /\ z.fsi_flag = 1 \/ (z.fsi_flag = w.fsi_flag /\ z.free_clst = w.free_clst)
      BY <1>10 DEF CountsDue, Alike
    <3>12. disk3[q.b + 1] = w.disk[q.b + 1]
      <4>1. disk1[q.b + 1] = u.disk[q.b + 1]
        BY <3>1 DEF disk1
      <4>2. disk2[q.b + 1] = disk1[q.b + 1]
        BY <3>1 DEF disk2
      <4>3. disk3[q.b + 1] = disk2[q.b + 1]
        BY <3>2 DEF disk3
      <4>4. QED BY <3>3, <4>1, <4>2, <4>3
    <3>9. Tallied(w, q)
      BY DEF Good
    <3>10. q2.b = q.b /\ q2.base = q.base /\ q2.due = 0
      BY <1>2 DEF Grown
    <3>11. QED BY <1>10, <3>3, <3>4, <3>5, <3>6, <3>7, <3>8, <3>9, <3>10, <3>12 DEF Tallied, Informed
  <2>5. QED BY <2>1, <2>2, <2>3, <2>4, <1>7, <1>10, <1>11 DEF Good, Shows, Ahead
<1>13. QED BY <1>2, <1>10, <1>12 DEF z, t

-----------------------------------------------------------------------------
(* The loops over the table.                                                *)

\* The passes of remove_chain.
LEMMA FreeRuns ==
    ASSUME NEW v, NEW clst
    PROVE  \E run : /\ run = [i \in 0..N_FATENT |-> IF i = 0 THEN [v |-> v, clst |-> clst, ok |-> Valid(clst), more |-> Valid(clst)]
                                 ELSE FreeRound(run[i - 1])]
                   /\ RemoveChain(v, clst) = run[N_FATENT]
<1> DEFINE Begin == [v |-> v, clst |-> clst, ok |-> Valid(clst), more |-> Valid(clst)]
           IsRun(run, n) == run = [i \in 0..n |-> IF i = 0 THEN Begin ELSE FreeRound(run[i - 1])]
           S == {n \in 0..N_FATENT : \E run : IsRun(run, n)}
<1>1. N_FATENT \in Nat
  BY FatAssumption
<1> HIDE DEF Begin
<1>2. 0 \in S
  <2>1. IsRun([i \in 0..0 |-> Begin], 0)
    OBVIOUS
  <2>2. 0 \in 0..N_FATENT
    BY <1>1
  <2> HIDE DEF IsRun
  <2>3. QED BY <2>1, <2>2
<1>3. ASSUME NEW n \in 0..N_FATENT, n < N_FATENT, n \in S PROVE n + 1 \in S
  <2>1. PICK run : IsRun(run, n)
    BY <1>3
  <2> DEFINE longer == [i \in 0..(n + 1) |-> IF i = n + 1 THEN FreeRound(run[n]) ELSE run[i]]
  <2>2. ASSUME NEW i \in 0..(n + 1)
        PROVE  longer[i] = IF i = 0 THEN Begin ELSE FreeRound(longer[i - 1])
    <3>1. CASE i = n + 1
      <4>1. i # 0 /\ i - 1 = n /\ n \in 0..(n + 1) /\ n # n + 1
        BY <3>1
      <4>2. longer[i - 1] = run[n]
        BY <4>1
      <4>3. QED BY <3>1, <4>1, <4>2
    <3>2. CASE i = 0
      <4>1. i # n + 1 /\ i \in 0..n
        BY <3>2
      <4>2. longer[i] = run[i] /\ run[i] = Begin
        BY <2>1, <3>2, <4>1
      <4>3. QED BY <3>2, <4>2
    <3>3. CASE i \in 1..n
      <4>1. i # n + 1 /\ i # 0 /\ i - 1 \in 0..(n + 1) /\ i - 1 # n + 1 /\ i \in 0..n
        BY <3>3
      <4>2. longer[i] = run[i] /\ longer[i - 1] = run[i - 1]
        BY <4>1
      <4>3. run[i] = FreeRound(run[i - 1])
        BY <2>1, <4>1
      <4>4. QED BY <4>1, <4>2, <4>3
    <3>4. QED BY <3>1, <3>2, <3>3
  <2>3. longer = [i \in 0..(n + 1) |-> longer[i]]
    OBVIOUS
  <2> HIDE DEF longer
  <2>4. IsRun(longer, n + 1)
    BY <2>2, <2>3
  <2>5. n + 1 \in 0..N_FATENT
    BY <1>1, <1>3
  <2>6. QED BY <2>4, <2>5
<1>4. 0..N_FATENT \subseteq S
  <2> HIDE DEF S
  <2>1. QED BY <1>1, <1>2, <1>3, Induct
<1>5. N_FATENT \in S
  BY <1>1, <1>4
<1>6. \E run : run = [i \in 0..N_FATENT |-> IF i = 0 THEN [v |-> v, clst |-> clst, ok |-> Valid(clst), more |-> Valid(clst)]
                                 ELSE FreeRound(run[i - 1])]
  BY <1>5 DEF Begin
<1> DEFINE made == CHOOSE run : run = [i \in 0..N_FATENT |-> IF i = 0 THEN [v |-> v, clst |-> clst, ok |-> Valid(clst), more |-> Valid(clst)]
                                 ELSE FreeRound(run[i - 1])]
<1>7. made = [i \in 0..N_FATENT |-> IF i = 0 THEN [v |-> v, clst |-> clst, ok |-> Valid(clst), more |-> Valid(clst)]
                                 ELSE FreeRound(made[i - 1])]
  BY <1>6
<1>8. RemoveChain(v, clst) = made[N_FATENT]
  BY DEF RemoveChain
<1> HIDE DEF made
<1>9. QED BY <1>7, <1>8

\* The passes of the search for a free cluster.
LEMMA SearchRuns ==
    ASSUME NEW v, NEW scl
    PROVE  \E run : /\ run = [i \in 0..N_FATENT |-> IF i = 0 THEN [v |-> v, c |-> scl, val |-> 0, more |-> TRUE]
                                 ELSE SearchRound(run[i - 1], scl)]
                   /\ FindFree(v, scl) = run[N_FATENT]
<1> DEFINE Begin == [v |-> v, c |-> scl, val |-> 0, more |-> TRUE]
           IsRun(run, n) == run = [i \in 0..n |-> IF i = 0 THEN Begin ELSE SearchRound(run[i - 1], scl)]
           S == {n \in 0..N_FATENT : \E run : IsRun(run, n)}
<1>1. N_FATENT \in Nat
  BY FatAssumption
<1> HIDE DEF Begin
<1>2. 0 \in S
  <2>1. IsRun([i \in 0..0 |-> Begin], 0)
    OBVIOUS
  <2>2. 0 \in 0..N_FATENT
    BY <1>1
  <2> HIDE DEF IsRun
  <2>3. QED BY <2>1, <2>2
<1>3. ASSUME NEW n \in 0..N_FATENT, n < N_FATENT, n \in S PROVE n + 1 \in S
  <2>1. PICK run : IsRun(run, n)
    BY <1>3
  <2> DEFINE longer == [i \in 0..(n + 1) |-> IF i = n + 1 THEN SearchRound(run[n], scl) ELSE run[i]]
  <2>2. ASSUME NEW i \in 0..(n + 1)
        PROVE  longer[i] = IF i = 0 THEN Begin ELSE SearchRound(longer[i - 1], scl)
    <3>1. CASE i = n + 1
      <4>1. i # 0 /\ i - 1 = n /\ n \in 0..(n + 1) /\ n # n + 1
        BY <3>1
      <4>2. longer[i - 1] = run[n]
        BY <4>1
      <4>3. QED BY <3>1, <4>1, <4>2
    <3>2. CASE i = 0
      <4>1. i # n + 1 /\ i \in 0..n
        BY <3>2
      <4>2. longer[i] = run[i] /\ run[i] = Begin
        BY <2>1, <3>2, <4>1
      <4>3. QED BY <3>2, <4>2
    <3>3. CASE i \in 1..n
      <4>1. i # n + 1 /\ i # 0 /\ i - 1 \in 0..(n + 1) /\ i - 1 # n + 1 /\ i \in 0..n
        BY <3>3
      <4>2. longer[i] = run[i] /\ longer[i - 1] = run[i - 1]
        BY <4>1
      <4>3. run[i] = SearchRound(run[i - 1], scl)
        BY <2>1, <4>1
      <4>4. QED BY <4>1, <4>2, <4>3
    <3>4. QED BY <3>1, <3>2, <3>3
  <2>3. longer = [i \in 0..(n + 1) |-> longer[i]]
    OBVIOUS
  <2> HIDE DEF longer
  <2>4. IsRun(longer, n + 1)
    BY <2>2, <2>3
  <2>5. n + 1 \in 0..N_FATENT
    BY <1>1, <1>3
  <2>6. QED BY <2>4, <2>5
<1>4. 0..N_FATENT \subseteq S
  <2> HIDE DEF S
  <2>1. QED BY <1>1, <1>2, <1>3, Induct
<1>5. N_FATENT \in S
  BY <1>1, <1>4
<1>6. \E run : run = [i \in 0..N_FATENT |-> IF i = 0 THEN [v |-> v, c |-> scl, val |-> 0, more |-> TRUE]
                                 ELSE SearchRound(run[i - 1], scl)]
  BY <1>5 DEF Begin
<1> DEFINE made == CHOOSE run : run = [i \in 0..N_FATENT |-> IF i = 0 THEN [v |-> v, c |-> scl, val |-> 0, more |-> TRUE]
                                 ELSE SearchRound(run[i - 1], scl)]
<1>7. made = [i \in 0..N_FATENT |-> IF i = 0 THEN [v |-> v, c |-> scl, val |-> 0, more |-> TRUE]
                                 ELSE SearchRound(made[i - 1], scl)]
  BY <1>6
<1>8. FindFree(v, scl) = made[N_FATENT]
  BY DEF FindFree
<1> HIDE DEF made
<1>9. QED BY <1>7, <1>8

\* What no function on the table changes.
Kept(q, q2) ==
    IsShape(q2) /\ q2.b = q.b /\ q2.base = q.base /\ q2.due = q.due /\ q2.dirs = q.dirs /\ q2.content = q.content
    /\ \A d \in q.dirs : q2.first[d] = q.first[d] /\ q2.nth[d] = q.nth[d]

\* The first cluster of a loose chain is freed, and the rest is a loose chain.
LEMMA LinkFreed ==
    ASSUME NEW v, NEW q, NEW c, Good(v, q), Loose(q.link, q.content, q.dirs, c)
    PROVE  \E q2 : /\ Relinked(q, q2, c, 0) /\ Good(PutFat(v, c, 0), q2) /\ q2.due = q.due + 1
                   /\ q2.lost = (q.lost \ {c}) \cup ({q.link[c]} \cap Clusters)
                   /\ \A d \in q.dirs : q2.first[d] = q.first[d] /\ q2.nth[d] = q.nth[d]
                   /\ q.link[c] \in Clusters => Loose(q2.link, q2.content, q2.dirs, q.link[c])
<1>1. /\ IsLink(q.link) /\ DOMAIN q.first = Clusters /\ DOMAIN q.nth = Clusters
      /\ Sound(q.link, q.content, q.dirs, q.first, q.nth) /\ c \in Clusters /\ IsShape(q)
  BY DEF Good, IsShape, Loose
<1> DEFINE link2 == [q.link EXCEPT ![c] = 0]
<1>2. /\ \E first2 \in [Clusters -> Clusters], nth2 \in [Clusters -> Nat] :
            /\ Sound(link2, q.content, q.dirs, first2, nth2)
            /\ \A d \in q.dirs : first2[d] = q.first[d] /\ nth2[d] = q.nth[d]
      /\ q.link[c] \in Clusters => Loose(link2, q.content, q.dirs, q.link[c])
      /\ \A h \in Untended(link2, q.content, q.dirs) :
            h = q.link[c] \/ (h # c /\ h \in Untended(q.link, q.content, q.dirs))
  <2> DEFINE link == q.link
             content == q.content
             dirs == q.dirs
             first == q.first
             nth == q.nth
  <2>1. /\ IsLink(link) /\ DOMAIN first = Clusters /\ DOMAIN nth = Clusters
        /\ Sound(link, content, dirs, first, nth) /\ Loose(link, content, dirs, c)
    BY <1>1
  <2>2. link2 = [link EXCEPT ![c] = 0]
    OBVIOUS
  <2> HIDE DEF link, content, dirs, first, nth, link2
  <2>3. /\ Retold(link2, content, dirs, first, nth)
        /\ link[c] \in Clusters => Loose(link2, content, dirs, link[c])
        /\ \A h \in Untended(link2, content, dirs) :
              h = link[c] \/ (h # c /\ h \in Untended(link, content, dirs))
    BY <2>1, <2>2, FreeSound
  <2>4. QED BY <2>3 DEF link, content, dirs, first, nth, Retold
<1>3. IsLink(link2)
  BY <1>1 DEF IsLink
<1> HIDE DEF link2
<1>4. PICK first2 \in [Clusters -> Clusters], nth2 \in [Clusters -> Nat] :
         /\ Sound(link2, q.content, q.dirs, first2, nth2)
         /\ \A d \in q.dirs : first2[d] = q.first[d] /\ nth2[d] = q.nth[d]
  BY <1>2
<1> DEFINE q2 == [b |-> q.b, base |-> q.base, due |-> q.due + 1,
                  lost |-> (q.lost \ {c}) \cup ({q.link[c]} \cap Clusters),
                  dirs |-> q.dirs, link |-> link2, content |-> q.content, first |-> first2, nth |-> nth2]
<1>5. Relinked(q, q2, c, 0)
  <2>5. Tended(q2)
    <3>1. SUFFICES ASSUME q.base.whole
                   PROVE  /\ Tidy(q.content, q.dirs, first2, nth2, q.base.level)
                          /\ Untended(link2, q.content, q.dirs)
                               \subseteq (q.lost \ {c}) \cup ({q.link[c]} \cap Clusters)
      BY DEF Tended
    <3>2. /\ Tidy(q.content, q.dirs, q.first, q.nth, q.base.level)
          /\ Untended(q.link, q.content, q.dirs) \subseteq q.lost
      BY <1>1, <3>1 DEF IsShape, Tended
    <3> HIDE DEF q2
    <3>3. Tidy(q.content, q.dirs, first2, nth2, q.base.level)
      BY <3>2, <1>4, TidyAlike
    <3>4. Untended(link2, q.content, q.dirs) \subseteq Clusters
      BY DEF Untended
    <3>5. QED BY <3>2, <3>3, <3>4, <1>2
  <2>1. IsShape(q2)
    BY <1>1, <1>3, <1>4, <2>5 DEF IsShape, IsLink
  <2>2. Cardinality(Unlinked(link2)) = Cardinality(Unlinked(q.link)) + 1
    <3>1. q.link[c] # 0
      BY DEF Loose, Begins
    <3>2. QED BY <3>1, <1>1, OneLinkCounted DEF link2
  <2>3. Cardinality(Unlinked(q.link)) \in Nat /\ q.due \in Int
    BY <1>1, FreeAreCounted DEF IsShape
  <2>4. QED BY <2>1, <2>2, <2>3 DEF Relinked, link2
<1>6. /\ q2.link = link2 /\ q2.content = q.content /\ q2.dirs = q.dirs /\ q2.due = q.due + 1
      /\ q2.lost = (q.lost \ {c}) \cup ({q.link[c]} \cap Clusters)
      /\ \A d \in q.dirs : q2.first[d] = q.first[d] /\ q2.nth[d] = q.nth[d]
  BY <1>4
<1> HIDE DEF q2
<1>7. Good(PutFat(v, c, 0), q2)
  BY <1>1, <1>5, LinkSet
<1>8. QED BY <1>2, <1>5, <1>6, <1>7

FreeState(s, q, i) ==
    /\ DOMAIN s = {"v", "clst", "ok", "more"}
    /\ s.ok = TRUE /\ s.more \in BOOLEAN /\ q.due = 0
    /\ \E q2 : /\ Kept(q, q2) /\ Good(s.v, q2)
               /\ s.more => /\ Loose(q2.link, q2.content, q2.dirs, s.clst) /\ q2.lost = {s.clst}
                            /\ Cardinality(Unlinked(q2.link)) >= i
               /\ ~s.more => q2.lost = {}

\* A pass frees a cluster of a loose chain, and goes on to the next.
LEMMA FreeRoundKeeps ==
    ASSUME NEW s, NEW q, NEW i \in Nat, FreeState(s, q, i)
    PROVE  FreeState(FreeRound(s), q, i + 1)
<1>1. PICK q1 : /\ Kept(q, q1) /\ Good(s.v, q1)
                /\ s.more => /\ Loose(q1.link, q1.content, q1.dirs, s.clst) /\ q1.lost = {s.clst}
                             /\ Cardinality(Unlinked(q1.link)) >= i
                /\ ~s.more => q1.lost = {}
  BY DEF FreeState
<1>2. CASE ~s.more
  <2>1. FreeRound(s) = s
    BY <1>2 DEF FreeRound
  <2>2. QED BY <1>1, <1>2, <2>1 DEF FreeState
<1>3. CASE s.more
  <2> DEFINE g == GetFat(s.v, s.clst)
             p == PutFat(g.v, s.clst, 0)
             u == IF p.free_clst < N_FATENT - 2
                  THEN [p EXCEPT !.free_clst = @ + 1, !.fsi_flag = Touched(@)] ELSE p
             r == [s EXCEPT !.v = u, !.clst = g.val, !.more = g.val < N_FATENT]
  <2>1. s.clst \in Clusters /\ q1.link[s.clst] # 0
    BY <1>1, <1>3 DEF Loose, Begins
  <2>2. Good(g.v, q1) /\ g.val = q1.link[s.clst]
    BY <1>1, <2>1, LinkRead
  <2>3. g.val \in {EOC} \cup Clusters /\ (g.val < N_FATENT <=> g.val \in Clusters) /\ g.val # 0 /\ g.val # 1
    <3>1. g.val \in {EOC} \cup Clusters
      BY <2>1, <2>2, ShapeFacts DEF Good
    <3>2. QED BY <3>1, FatAssumption DEF EOC, Clusters
  <2>4. FreeRound(s) = r
    BY <1>3, <2>3 DEF FreeRound
  <2> HIDE DEF g
  <2>5. PICK q2 : /\ Relinked(q1, q2, s.clst, 0) /\ Good(p, q2)
                  /\ q1.link[s.clst] \in Clusters => Loose(q2.link, q2.content, q2.dirs, q1.link[s.clst])
                  /\ q2.due = q1.due + 1
                  /\ q2.lost = (q1.lost \ {s.clst}) \cup ({q1.link[s.clst]} \cap Clusters)
                  /\ \A d \in q1.dirs : q2.first[d] = q1.first[d] /\ q2.nth[d] = q1.nth[d]
    BY <1>1, <1>3, <2>2, LinkFreed
  <2> HIDE DEF p
  <2>6. Recounted(p, u, q2)
    <3>1. DOMAIN p = Fields /\ p.fsi_flag \in {0, 1}
      BY <2>5 DEF Good, IsVolume
    <3>2. Touched(p.fsi_flag) = 1
      BY <3>1 DEF Touched
    <3>3. q2.due = 1
      BY <1>1, <2>5 DEF FreeState, Kept
    <3>4. q2.base.whole => p.free_clst \in Nat /\ p.free_clst < N_FATENT - 2
      <4>1. Cardinality(Unlinked(q1.link)) < N_FATENT - 2 /\ Cardinality(Unlinked(q1.link)) \in Nat
        BY <2>1, FreeAreCounted
      <4>2. Cardinality(Unlinked(q2.link)) - q2.due = Cardinality(Unlinked(q1.link)) - q1.due /\ q1.due = 0
        BY <1>1, <2>5 DEF Relinked, FreeState, Kept
      <4>3. QED BY <4>1, <4>2, <2>5 DEF Good, Tallied
    <3>5. QED BY <3>1, <3>2, <3>3, <3>4 DEF Recounted, CountsDue, Fields
  <2> HIDE DEF u
  <2> DEFINE q3 == [q2 EXCEPT !.due = 0]
  <2>7. Good(u, q3)
    BY <2>5, <2>6, CountsChanged
  <2>8. DOMAIN r = {"v", "clst", "ok", "more"} /\ r.ok = TRUE /\ r.v = u /\ r.clst = g.val
        /\ r.more = (g.val < N_FATENT)
    BY DEF FreeState
  <2> HIDE DEF r
  <2>9. /\ Kept(q, q3) /\ q3.link = q2.link /\ q3.content = q2.content /\ q3.dirs = q2.dirs
        /\ q3.lost = q2.lost
    <3>1. DOMAIN q2 = {"b", "base", "due", "lost", "dirs", "link", "content", "first", "nth"}
      BY <2>5 DEF Relinked, IsShape
    <3>2. /\ q3.b = q2.b /\ q3.base = q2.base /\ q3.due = 0 /\ q3.dirs = q2.dirs /\ q3.link = q2.link
          /\ q3.content = q2.content /\ q3.first = q2.first /\ q3.nth = q2.nth /\ q3.lost = q2.lost
      BY <3>1
    <3> HIDE DEF q3
    <3>3. IsShape(q3)
      BY <2>7 DEF Good
    <3>4. q2.b = q1.b /\ q2.base = q1.base /\ q2.dirs = q1.dirs /\ q2.content = q1.content
      BY <2>5 DEF Relinked
    <3>5. Kept(q, q1) /\ q.due = 0
      BY <1>1 DEF FreeState
    <3>6. QED BY <2>5, <3>2, <3>3, <3>4, <3>5 DEF Kept
  <2> HIDE DEF q3
  <2>10. r.more => Loose(q3.link, q3.content, q3.dirs, r.clst)
    BY <2>2, <2>3, <2>5, <2>8, <2>9
  <2>11. q.due = 0
    BY DEF FreeState
  <2>13. /\ r.more => q3.lost = {r.clst}
         /\ ~r.more => q3.lost = {}
    <3>1. q3.lost = {q1.link[s.clst]} \cap Clusters /\ r.clst = q1.link[s.clst]
      BY <1>1, <1>3, <2>2, <2>5, <2>8, <2>9
    <3>2. r.more <=> r.clst \in Clusters
      BY <2>3, <2>8
    <3>3. QED BY <3>1, <3>2
  <2>14. Cardinality(Unlinked(q3.link)) >= i + 1
    <3>1. Cardinality(Unlinked(q2.link)) - q2.due = Cardinality(Unlinked(q1.link)) - q1.due /\ q1.due = 0
      BY <1>1, <2>5 DEF Relinked, FreeState, Kept
    <3>2. Cardinality(Unlinked(q2.link)) \in Nat /\ Cardinality(Unlinked(q1.link)) \in Nat
      BY FreeAreCounted
    <3>3. QED BY <3>1, <3>2, <1>1, <1>3, <2>5, <2>9
  <2>12. QED BY <2>11, <2>3, <2>4, <2>7, <2>8, <2>9, <2>10, <2>13, <2>14 DEF FreeState
<1>4. QED BY <1>2, <1>3 DEF FreeState

\* remove_chain does not fail on a loose chain, and leaves a volume that is in order.
LEMMA ChainRemoved ==
    ASSUME NEW v, NEW q, NEW clst, Good(v, q), Loose(q.link, q.content, q.dirs, clst), q.due = 0,
           q.lost = {clst}
    PROVE  LET r == RemoveChain(v, clst)
           IN  r.ok = TRUE /\ \E q2 : Kept(q, q2) /\ Good(r.v, q2) /\ q2.lost = {}
<1> DEFINE Begin == [v |-> v, clst |-> clst, ok |-> Valid(clst), more |-> Valid(clst)]
<1>1. PICK run : /\ run = [i \in 0..N_FATENT |-> IF i = 0 THEN Begin ELSE FreeRound(run[i - 1])]
                 /\ RemoveChain(v, clst) = run[N_FATENT]
  BY FreeRuns
<1>2. RemoveChain(v, clst) = run[N_FATENT]
  BY <1>1
<1> DEFINE S == {i \in 0..N_FATENT : FreeState(run[i], q, i)}
<1>3. N_FATENT \in Nat
  BY FatAssumption
<1>4. FreeState(Begin, q, 0)
  <2>1. Valid(clst) = TRUE
    BY DEF Loose, Valid, Clusters
  <2>2. Kept(q, q)
    BY DEF Kept, Good
  <2>3. Cardinality(Unlinked(q.link)) >= 0
    BY FreeAreCounted
  <2>4. QED BY <2>1, <2>2, <2>3 DEF FreeState
<1> HIDE DEF Begin
<1>5. 0 \in S
  BY <1>1, <1>3, <1>4
<1>6. ASSUME NEW i \in 0..N_FATENT, i < N_FATENT, i \in S PROVE i + 1 \in S
  <2>1. run[i + 1] = FreeRound(run[i])
    BY <1>1, <1>3, <1>6
  <2>2. FreeState(run[i + 1], q, i + 1)
    BY <2>1, <1>6, FreeRoundKeeps
  <2>3. QED BY <2>2, <1>3, <1>6
<1>7. N_FATENT \in S
  <2> HIDE DEF S
  <2>1. 0..N_FATENT \subseteq S
    BY <1>3, <1>5, <1>6, Induct
  <2>2. QED BY <2>1, <1>3
<1>8. FreeState(RemoveChain(v, clst), q, N_FATENT)
  BY <1>2, <1>7
<1>9. ASSUME NEW q2, Loose(q2.link, q2.content, q2.dirs, RemoveChain(v, clst).clst)
      PROVE  ~(Cardinality(Unlinked(q2.link)) >= N_FATENT)
  <2>1. RemoveChain(v, clst).clst \in Clusters /\ q2.link[RemoveChain(v, clst).clst] # 0
    BY <1>9 DEF Loose, Begins
  <2>2. QED BY <2>1, <1>3, FreeAreCounted
<1>10. QED BY <1>8, <1>9 DEF FreeState

-----------------------------------------------------------------------------
(* A cluster is found, and linked.                                          *)

\* From v to w the window alone was moved, and if so then over the table.
Near(v, w, q) ==
    /\ Good(w, q) /\ Alike(v, w) /\ Still(v, w)
    /\ w.winsect \in Table(q) \cup {v.winsect}

Unused(q) == {c \in Clusters : q.link[c] = 0}

\* A volume is near itself.
LEMMA NearItself ==
    ASSUME NEW v, NEW q, Good(v, q)
    PROVE  Near(v, v, q)
BY DEF Near, Alike, Still

\* Looking at a link leaves the volume near what it was.
LEMMA LinkLooked ==
    ASSUME NEW u, NEW v, NEW q, NEW c, Near(u, v, q)
    PROVE  /\ Near(u, GetFat(v, c).v, q)
           /\ GetFat(v, c).val = IF c \in Clusters THEN q.link[c] ELSE 1
<1>1. Good(v, q) /\ Alike(u, v) /\ Still(u, v)
  BY DEF Near
<1>2. CASE c \in Clusters
  <2> DEFINE w == GetFat(v, c).v
  <2>1. Good(w, q) /\ GetFat(v, c).val = q.link[c] /\ Alike(v, w) /\ Still(v, w) /\ w.winsect = FatAt(q.b, c)
    BY <1>1, <1>2, LinkRead
  <2> HIDE DEF w
  <2>2. w.winsect \in Table(q)
    BY <1>2, <2>1 DEF Table
  <2>3. Alike(u, w) /\ Still(u, w)
    BY <1>1, <2>1 DEF Alike, Still
  <2>4. Near(u, w, q)
    BY <2>1, <2>2, <2>3 DEF Near
  <2>5. QED BY <1>2, <2>1, <2>4 DEF w
<1>3. CASE c \notin Clusters
  BY <1>3, NoLinkRead
<1>4. QED BY <1>2, <1>3

FoundState(s, u, q) ==
    /\ DOMAIN s = {"v", "c", "val", "more"} /\ s = [x \in DOMAIN s |-> s[x]]
    /\ Near(u, s.v, q) /\ s.val \in {0, 1} \cup Unused(q)

\* A pass of the search finds nothing but a free cluster.
LEMMA SearchRoundKeeps ==
    ASSUME NEW s, NEW scl, NEW u, NEW q, FoundState(s, u, q)
    PROVE  FoundState(SearchRound(s, scl), u, q)
<1> DEFINE wraps == s.c + 1 >= N_FATENT
           c     == IF wraps THEN 2 ELSE s.c + 1
           g     == GetFat(s.v, c)
           t     == [v |-> g.v, c |-> c,
                     val  |-> IF g.val = 0 THEN c ELSE IF g.val = 1 THEN 1 ELSE 0,
                     more |-> g.val > 1 /\ c # scl]
<1>1. SearchRound(s, scl) \in {s, [s EXCEPT !.more = FALSE], t}
  BY DEF SearchRound
<1>2. FoundState([s EXCEPT !.more = FALSE], u, q)
  BY DEF FoundState
<1> HIDE DEF c
<1>3. Near(u, g.v, q) /\ g.val = IF c \in Clusters THEN q.link[c] ELSE 1
  BY LinkLooked DEF FoundState
<1> HIDE DEF g
<1>4. t.val \in {0, 1} \cup Unused(q)
  <2>1. CASE g.val = 0
    BY <1>3, <2>1 DEF Unused
  <2>2. CASE g.val # 0
    BY <2>2
  <2>3. QED BY <2>1, <2>2
<1>5. FoundState(t, u, q)
  BY <1>3, <1>4 DEF FoundState
<1>6. QED BY <1>1, <1>2, <1>5

\* What tells where the new cluster goes.
IsPlace(r, u, q) ==
    /\ {"v", "val"} \subseteq DOMAIN r /\ r = [x \in DOMAIN r |-> r[x]]
    /\ Near(u, r.v, q) /\ r.val \in {0, 1} \cup Unused(q)

\* The search for a free cluster returns one, or 0 or 1, and changes nothing.
LEMMA FreeFound ==
    ASSUME NEW u, NEW v, NEW scl, NEW q, Near(u, v, q)
    PROVE  IsPlace(FindFree(v, scl), u, q)
<1> DEFINE Begin == [v |-> v, c |-> scl, val |-> 0, more |-> TRUE]
<1>1. PICK run : /\ run = [i \in 0..N_FATENT |-> IF i = 0 THEN Begin ELSE SearchRound(run[i - 1], scl)]
                 /\ FindFree(v, scl) = run[N_FATENT]
  BY SearchRuns
<1> DEFINE S == {i \in 0..N_FATENT : FoundState(run[i], u, q)}
<1>2. N_FATENT \in Nat
  BY FatAssumption
<1>3. FoundState(Begin, u, q)
  BY DEF FoundState
<1> HIDE DEF Begin
<1>4. 0 \in S
  BY <1>1, <1>2, <1>3
<1>5. ASSUME NEW i \in 0..N_FATENT, i < N_FATENT, i \in S PROVE i + 1 \in S
  <2>1. run[i + 1] = SearchRound(run[i], scl)
    BY <1>1, <1>2, <1>5
  <2>2. FoundState(run[i + 1], u, q)
    BY <2>1, <1>5, SearchRoundKeeps
  <2>3. QED BY <2>2, <1>2, <1>5
<1>6. N_FATENT \in S
  <2> HIDE DEF S
  <2>1. 0..N_FATENT \subseteq S
    BY <1>2, <1>4, <1>5, Induct
  <2>2. QED BY <2>1, <1>2
<1>7. FoundState(FindFree(v, scl), u, q)
  BY <1>1, <1>6
<1>8. QED BY <1>7 DEF FoundState, IsPlace

\* So does the choice of the cluster to link.
LEMMA ClusterFound ==
    ASSUME NEW u, NEW v, NEW clst, NEW q, Near(u, v, q)
    PROVE  IsPlace(NewCluster(v, clst), u, q)
<1> DEFINE next == IF clst + 1 >= N_FATENT THEN 2 ELSE clst + 1
           scl  == IF clst = 0
                   THEN (IF v.last_clst = 0 \/ v.last_clst >= N_FATENT THEN 1 ELSE v.last_clst)
                   ELSE (IF Valid(v.last_clst) THEN v.last_clst ELSE clst)
           g    == GetFat(v, next)
<1> HIDE DEF next, scl
<1>1. NewCluster(v, clst) = IF clst = 0 THEN FindFree(v, scl)
                            ELSE CASE g.val = 0 -> [v |-> g.v, val |-> next]
                                   [] g.val = 1 -> g
                                   [] OTHER     -> FindFree(g.v, scl)
  BY DEF NewCluster, next, scl
<1>2. Near(u, g.v, q) /\ g.val = IF next \in Clusters THEN q.link[next] ELSE 1
  BY LinkLooked
<1> HIDE DEF g
<1>3. CASE clst = 0
  BY <1>1, <1>3, FreeFound
<1>4. CASE clst # 0 /\ g.val = 0
  BY <1>1, <1>2, <1>4 DEF Unused, IsPlace
<1>5. CASE clst # 0 /\ g.val = 1
  <2>1. g = [v |-> g.v, val |-> g.val]
    BY DEF g, GetFat
  <2>2. NewCluster(v, clst) = g
    BY <1>1, <1>5
  <2>3. QED BY <2>1, <2>2, <1>2, <1>5 DEF IsPlace
<1>6. CASE clst # 0 /\ g.val # 0 /\ g.val # 1
  <2>1. NewCluster(v, clst) = FindFree(g.v, scl)
    BY <1>1, <1>6
  <2>2. QED BY <2>1, <1>2, FreeFound
<1>7. QED BY <1>3, <1>4, <1>5, <1>6

Marked(q, q2, n) ==
    /\ Relinked(q, q2, n, EOC)
    /\ q2.first = [q.first EXCEPT ![n] = n] /\ q2.nth = [q.nth EXCEPT ![n] = 1]
    /\ Loose(q2.link, q2.content, q2.dirs, n) /\ q2.due = q.due - 1 /\ q2.lost = q.lost \cup {n}

\* A shape in which a free cluster is marked as a chain of its own.
LEMMA Marks ==
    ASSUME NEW q, IsShape(q), NEW n \in Unused(q)
    PROVE  \E q2 : Marked(q, q2, n)
<1> DEFINE link2 == [q.link EXCEPT ![n] = EOC]
           q2 == [b |-> q.b, base |-> q.base, due |-> q.due - 1, lost |-> q.lost \cup {n},
                  dirs |-> q.dirs, link |-> link2, content |-> q.content,
                  first |-> [q.first EXCEPT ![n] = n], nth |-> [q.nth EXCEPT ![n] = 1]]
<1>1. n \in Clusters /\ q.link[n] = 0
  BY DEF Unused
<1>2. /\ IsLink(q.link) /\ IsLink(q.content) /\ DOMAIN q.first = Clusters /\ DOMAIN q.nth = Clusters
      /\ Sound(q.link, q.content, q.dirs, q.first, q.nth) /\ q.b \in Nat
  BY DEF IsShape
<1>3. /\ Sound(link2, q.content, q.dirs, [q.first EXCEPT ![n] = n], [q.nth EXCEPT ![n] = 1])
      /\ Loose(link2, q.content, q.dirs, n)
      /\ Untended(link2, q.content, q.dirs) \subseteq Untended(q.link, q.content, q.dirs) \cup {n}
  BY <1>1, <1>2, MarkSound
<1>4. IsLink(link2)
  BY <1>2 DEF IsLink
<1>8. Tended(q2)
  <2>1. SUFFICES ASSUME q.base.whole
                 PROVE  /\ Tidy(q.content, q.dirs, [q.first EXCEPT ![n] = n], [q.nth EXCEPT ![n] = 1], q.base.level)
                        /\ Untended(link2, q.content, q.dirs) \subseteq q.lost \cup {n}
    BY DEF Tended
  <2>2. /\ Tidy(q.content, q.dirs, q.first, q.nth, q.base.level)
        /\ Untended(q.link, q.content, q.dirs) \subseteq q.lost
    BY <2>1 DEF IsShape, Tended
  <2> HIDE DEF q2, link2
  <2> DEFINE first2 == [q.first EXCEPT ![n] = n]
             nth2   == [q.nth EXCEPT ![n] = 1]
  <2>3. \A d \in q.dirs : first2[d] = q.first[d] /\ nth2[d] = q.nth[d]
    <3>1. n \notin q.dirs
      BY <1>3 DEF Loose
    <3>2. QED BY <3>1
  <2> HIDE DEF first2, nth2
  <2>4. Tidy(q.content, q.dirs, first2, nth2, q.base.level)
    BY <2>2, <2>3, TidyAlike
  <2>5. QED BY <2>2, <2>4, <1>3 DEF first2, nth2
<1>5. IsShape(q2)
  BY <1>2, <1>3, <1>4, <1>8 DEF IsShape
<1>6. Marked(q, q2, n)
  <2>1. Cardinality(Unlinked(link2)) = Cardinality(Unlinked(q.link)) - 1
    BY <1>1, <1>2, EocIsNone, OneLinkCounted
  <2>2. Cardinality(Unlinked(q.link)) \in Nat /\ q.due \in Int
    BY FreeAreCounted DEF IsShape
  <2> HIDE DEF link2
  <2>3. QED BY <2>1, <2>2, <1>3, <1>5 DEF Marked, Relinked, link2
<1>7. QED BY <1>6

\* The cluster n was taken for clst, and m is the volume before it is linked to it.
Added(v, q, clst, r, q2, m) ==
    /\ r.val \in Unused(q) /\ Marked(q, q2, r.val) /\ Good(m, q2)
    /\ m.winsect = FatAt(q.b, r.val)
    /\ Recounted(IF clst = 0 THEN m ELSE PutFat(m, clst, r.val), r.v, q2)

Refused(v, q, r) == r.val \in {0, 1} /\ Near(v, r.v, q)

\* What put_fat leaves in the window, before it is known whether the link is sound.
LEMMA PutFatIs ==
    ASSUME NEW v, NEW q, Good(v, q), NEW c \in Clusters, NEW val
    PROVE  LET w == MoveWindow(v, FatAt(q.b, c))
           IN  /\ LinkedInWindow(w, PutFat(v, c, val), c, val) /\ Good(w, q) /\ Alike(v, w)
               /\ w.winsect = FatAt(q.b, c) /\ Alike(v, PutFat(v, c, val))
<1> DEFINE w == MoveWindow(v, FatAt(q.b, c))
<1>1. Good(w, q) /\ Alike(v, w) /\ w.winsect = FatAt(q.b, c)
  BY WindowMoved
<1>2. FatSector(v, c) = FatAt(q.b, c) /\ c \in 2..N_FATENT - 1
  BY DEF FatSector, FatAt, Good, IsVolume, Clusters
<1>3. PutFat(v, c, val) = [w EXCEPT !.win[c % EPS] = val, !.wflag = TRUE]
  BY <1>2 DEF PutFat
<1> HIDE DEF w
<1>4. DOMAIN w = Fields /\ w.fsi_flag \in {0, 1}
  BY <1>1 DEF Good, IsVolume
<1>5. LinkedInWindow(w, PutFat(v, c, val), c, val) /\ Alike(v, PutFat(v, c, val))
  BY <1>1, <1>3, <1>4 DEF LinkedInWindow, Fields, Alike
<1>6. QED BY <1>1, <1>5 DEF w

\* create_chain refuses and changes nothing, or marks a free cluster and links it.
LEMMA ChainExtended ==
    ASSUME NEW v, NEW q, Good(v, q), NEW clst,
           clst = 0 \/ (clst \in Clusters /\ q.link[clst] = EOC), q.due = 0
    PROVE  LET r == CreateChain(v, clst)
           IN  Refused(v, q, r) \/ \E q2, m : Added(v, q, clst, r, q2, m)
<1> DEFINE s == IF clst = 0 THEN [v |-> v, val |-> EOC] ELSE GetFat(v, clst)
           n == NewCluster(s.v, clst)
           Counted(p)   == IF p.free_clst \in 1..N_FATENT - 2
                           THEN [p EXCEPT !.free_clst = @ - 1, !.fsi_flag = Touched(@)] ELSE p
           m == PutFat(n.v, n.val, EOC)
           p == IF clst = 0 THEN m ELSE PutFat(m, clst, n.val)
           l == [p EXCEPT !.last_clst = n.val]
           r == CreateChain(v, clst)
<1>1. s = [v |-> s.v, val |-> EOC] /\ Near(v, s.v, q)
  <2>1. CASE clst = 0
    BY <2>1, NearItself
  <2>2. CASE clst # 0
    <3>1. GetFat(v, clst) = [v |-> GetFat(v, clst).v, val |-> GetFat(v, clst).val]
      BY DEF GetFat
    <3>2. QED BY <2>2, <3>1, NearItself, LinkLooked
  <2>3. QED BY <2>1, <2>2
<1>2. ~(s.val < 2) /\ ~(s.val < N_FATENT)
  BY <1>1, FatAssumption DEF EOC
<1> HIDE DEF s
<1>3. r = IF s.v.free_clst = 0 THEN [s EXCEPT !.val = 0]
          ELSE IF n.val < 2 THEN n ELSE [n EXCEPT !.v = Counted(l)]
  BY <1>2 DEF CreateChain, s
<1>4. CASE s.v.free_clst = 0
  BY <1>1, <1>3, <1>4 DEF Refused
<1>5. IsPlace(n, v, q)
  BY <1>1, ClusterFound
<1> HIDE DEF n
<1>6. CASE s.v.free_clst # 0 /\ n.val < 2
  <2>1. n.val \in {0, 1}
    BY <1>5, <1>6 DEF IsPlace, Unused, Clusters
  <2>2. QED BY <1>3, <1>5, <1>6, <2>1 DEF IsPlace, Refused
<1>7. CASE s.v.free_clst # 0 /\ ~(n.val < 2)
  <2>1. n.val \in Unused(q) /\ n.val \in Clusters /\ Good(n.v, q) /\ n.val # 0
    BY <1>5, <1>7, FatAssumption DEF IsPlace, Unused, Near, Clusters
  <2>2. PICK q2 : Marked(q, q2, n.val)
    BY <2>1, Marks DEF Good
  <2>3. Good(m, q2) /\ m.winsect = FatAt(q.b, n.val)
    BY <2>1, <2>2, LinkSet DEF Marked
  <2> HIDE DEF m
  <2>4. DOMAIN p = Fields /\ p.fsi_flag \in {0, 1} /\ p.free_clst = m.free_clst
    <3>1. CASE clst = 0
      BY <2>3, <3>1 DEF Good, IsVolume
    <3>2. CASE clst # 0
      <4>1. LinkedInWindow(MoveWindow(m, FatAt(q2.b, clst)), PutFat(m, clst, n.val), clst, n.val)
            /\ Alike(m, PutFat(m, clst, n.val))
        BY <2>3, <3>2, PutFatIs
      <4>2. QED BY <3>2, <4>1 DEF LinkedInWindow, Alike
    <3>3. QED BY <3>1, <3>2
  <2>5. q2.due = -1 /\ (q2.base.whole => p.free_clst \in 1..N_FATENT - 2)
    <3>1. q2.due = 0 - 1
      BY <2>2 DEF Marked
    <3>2. /\ Cardinality(Unlinked(q.link)) \in Nat /\ Cardinality(Unlinked(q.link)) # 0
          /\ Cardinality(Unlinked(q.link)) <= N_FATENT - 2
      BY <2>1, FreeAreCounted DEF Unused
    <3>3. Cardinality(Unlinked(q2.link)) - q2.due = Cardinality(Unlinked(q.link))
      BY <2>2, <3>2 DEF Marked, Relinked
    <3>4. q2.base.whole => m.free_clst = Cardinality(Unlinked(q.link))
      BY <2>3, <3>3 DEF Good, Tallied
    <3>5. QED BY <3>1, <3>2, <3>4, <2>4, FatAssumption
  <2> HIDE DEF p
  <2>6. /\ DOMAIN l = Fields /\ l.disk = p.disk /\ l.log = p.log /\ l.wflag = p.wflag /\ l.win = p.win
        /\ l.winsect = p.winsect /\ l.mounted = p.mounted /\ l.volbase = p.volbase
        /\ l.fsi_flag = p.fsi_flag /\ l.free_clst = p.free_clst
    BY <2>4 DEF Fields
  <2> HIDE DEF l
  <2>7. Recounted(p, Counted(l), q2)
    <3>1. Touched(l.fsi_flag) = 1
      BY <2>4, <2>6 DEF Touched
    <3>2. QED BY <3>1, <2>4, <2>5, <2>6 DEF Recounted, CountsDue, Fields
  <2> HIDE DEF Counted
  <2>8. r.v = Counted(l) /\ r.val = n.val
    BY <1>3, <1>5, <1>7 DEF IsPlace
  <2> HIDE DEF r
  <2>9. Added(v, q, clst, r, q2, m)
    BY <2>1, <2>2, <2>3, <2>7, <2>8 DEF Added, p
  <2>10. QED BY <2>9 DEF r
<1>8. QED BY <1>4, <1>6, <1>7

-----------------------------------------------------------------------------
(* What create_chain does, for the three that call it.                      *)

\* In q2 there is the new cluster n, the end of a chain of no entry, its i-th from h.
Gained(q, q2, n, h, i) ==
    /\ IsShape(q2) /\ q2.b = q.b /\ q2.base = q.base /\ q2.due = q.due /\ q2.dirs = q.dirs /\ q2.content = q.content
    /\ q2.lost \subseteq q.lost \cup {h}
    /\ n \in Clusters \ q.dirs /\ q2.link[n] = EOC /\ q2.first[n] = h /\ q2.nth[n] = i
    /\ Loose(q2.link, q2.content, q2.dirs, h)

\* create_chain(0) begins a loose chain.
LEMMA ChainBegun ==
    ASSUME NEW v, NEW q, Good(v, q), q.due = 0
    PROVE  LET r == CreateChain(v, 0)
           IN  \/ Refused(v, q, r)
               \/ \E q2 : /\ Gained(q, q2, r.val, r.val, 1) /\ Good(r.v, q2) /\ r.v.winsect \in Table(q2)
<1> DEFINE r == CreateChain(v, 0)
<1>1. CASE Refused(v, q, r)
  BY <1>1
<1>2. ASSUME NEW q1, NEW m, Added(v, q, 0, r, q1, m)
      PROVE  \E q2 : Gained(q, q2, r.val, r.val, 1) /\ Good(r.v, q2) /\ r.v.winsect \in Table(q2)
  <2> HIDE DEF r
  <2>1. /\ r.val \in Clusters /\ Marked(q, q1, r.val) /\ Good(m, q1) /\ Recounted(m, r.v, q1)
        /\ m.winsect = FatAt(q.b, r.val)
    BY <1>2 DEF Added, Unused
  <2> DEFINE q2 == [q1 EXCEPT !.due = 0]
  <2>2. Good(r.v, q2)
    BY <2>1, CountsChanged
  <2>3. /\ q2.b = q1.b /\ q2.base = q1.base /\ q2.due = 0 /\ q2.dirs = q1.dirs /\ q2.content = q1.content
        /\ q2.link = q1.link /\ q2.first = q1.first /\ q2.nth = q1.nth /\ IsShape(q1) /\ q2.lost = q1.lost
    BY <2>1 DEF Good, IsShape
  <2> HIDE DEF q2
  <2>4. r.v.winsect \in Table(q2)
    BY <2>1, <2>3 DEF Recounted, Table, Marked, Relinked
  <2>5. IsShape(q) /\ IsShape(q2)
    BY <2>2 DEF Good
  <2>6. q2.first[r.val] = r.val /\ q2.nth[r.val] = 1 /\ q2.link[r.val] = EOC
    BY <2>1, <2>3, <2>5 DEF Marked, Relinked, IsShape, IsLink
  <2>7. Gained(q, q2, r.val, r.val, 1)
    BY <2>1, <2>3, <2>5, <2>6 DEF Gained, Marked, Relinked, Loose
  <2>8. QED BY <2>2, <2>4, <2>7
<1>3. QED BY <1>1, <1>2, ChainExtended

\* Marking a free cluster leaves a loose chain loose.
LEMMA MarkedLeaves ==
    ASSUME NEW q, NEW q2, NEW n, NEW c, IsShape(q), Marked(q, q2, n),
           n \in Clusters, Loose(q.link, q.content, q.dirs, c)
    PROVE  Loose(q2.link, q2.content, q2.dirs, c)
<1>1. /\ q2.link = [q.link EXCEPT ![n] = EOC] /\ q2.content = q.content /\ q2.dirs = q.dirs
      /\ IsLink(q.link)
  BY DEF Marked, Relinked, IsShape
<1>2. c \in Clusters \ q.dirs /\ q.link[c] # 0 /\ \A d \in Clusters : q.link[d] # c
  BY DEF Loose, Begins
<1>3. q2.link[c] # 0 /\ \A d \in Clusters : q2.link[d] # c
  BY <1>1, <1>2, EocIsNone DEF IsLink
<1>4. QED BY <1>1, <1>2, <1>3 DEF Loose, Begins

\* create_chain at the end of the loose chain of a file makes it longer by one.
LEMMA FileExtended ==
    ASSUME NEW v, NEW q, Good(v, q), NEW c \in Clusters \ q.dirs, q.link[c] = EOC,
           Loose(q.link, q.content, q.dirs, q.first[c]), q.due = 0
    PROVE  LET r == CreateChain(v, c)
           IN  \/ Refused(v, q, r)
               \/ \E q2 : /\ Gained(q, q2, r.val, q.first[c], q.nth[c] + 1)
                          /\ Good(r.v, q2) /\ r.v.winsect \in Table(q2)
<1> DEFINE r == CreateChain(v, c)
           n == r.val
<1>1. CASE Refused(v, q, r)
  BY <1>1
<1>2. ASSUME NEW q1, NEW m, Added(v, q, c, r, q1, m)
      PROVE  \E q2 : /\ Gained(q, q2, n, q.first[c], q.nth[c] + 1)
                     /\ Good(r.v, q2) /\ r.v.winsect \in Table(q2)
  <2> HIDE DEF r
  <2>1. /\ n \in Clusters /\ q.link[n] = 0 /\ Marked(q, q1, n) /\ Good(m, q1) /\ c # 0
        /\ Recounted(PutFat(m, c, n), r.v, q1)
    BY <1>2, EocIsNone DEF Added, Unused
  <2>2. c # n
    BY <2>1, EocIsNone
  <2>3. IsShape(q) /\ IsShape(q1)
    BY <2>1 DEF Good
  <2>4. /\ q1.link[c] = EOC /\ q1.link[n] = EOC /\ q1.first[c] = q.first[c] /\ q1.nth[c] = q.nth[c]
        /\ q1.dirs = q.dirs /\ q1.content = q.content /\ q1.b = q.b /\ q1.base = q.base
        /\ Loose(q1.link, q1.content, q1.dirs, n) /\ q1.lost = q.lost \cup {n}
    BY <2>1, <2>2, <2>3 DEF Marked, Relinked, IsShape, IsLink
  <2>5. Loose(q1.link, q1.content, q1.dirs, q1.first[c])
    BY <2>1, <2>3, <2>4, MarkedLeaves
  <2> DEFINE link2  == [q1.link EXCEPT ![c] = n]
             first2 == [q1.first EXCEPT ![n] = q1.first[c]]
             nth2   == [q1.nth EXCEPT ![n] = q1.nth[c] + 1]
             q2 == [b |-> q1.b, base |-> q1.base, due |-> q1.due, lost |-> q1.lost \ {n}, dirs |-> q1.dirs,
                    link |-> link2, content |-> q1.content, first |-> first2, nth |-> nth2]
  <2>6. /\ IsLink(q1.link) /\ IsLink(q1.content) /\ DOMAIN q1.first = Clusters /\ DOMAIN q1.nth = Clusters
        /\ Sound(q1.link, q1.content, q1.dirs, q1.first, q1.nth) /\ q1.b \in Nat /\ q1.due \in Int
    BY <2>3 DEF IsShape
  <2>7. c \in Clusters \ q1.dirs
    BY <2>4
  <2>8. /\ Sound(link2, q1.content, q1.dirs, first2, nth2) /\ Loose(link2, q1.content, q1.dirs, q1.first[c])
        /\ Untended(link2, q1.content, q1.dirs) \subseteq Untended(q1.link, q1.content, q1.dirs) \ {n}
    <3>1. LinkedOn(q1.link, q1.content, q1.dirs, q1.first, q1.nth, c, n)
      BY <2>2, <2>4, <2>5, <2>6, <2>7, LinkSound
    <3>2. QED BY <3>1 DEF LinkedOn
  <2>9. IsLink(link2) /\ DOMAIN first2 = Clusters /\ DOMAIN nth2 = Clusters
    BY <2>6 DEF IsLink
  <2>10. link2[n] = EOC /\ first2[n] = q1.first[c] /\ nth2[n] = q1.nth[c] + 1
    BY <2>1, <2>2, <2>4, <2>6 DEF IsLink
  <2>11. /\ q2.b = q1.b /\ q2.base = q1.base /\ q2.due = q1.due /\ q2.dirs = q1.dirs /\ q2.content = q1.content
         /\ q2.link = [q1.link EXCEPT ![c] = n]
         /\ q2.link[n] = EOC /\ q2.first[n] = q1.first[c] /\ q2.nth[n] = q1.nth[c] + 1
         /\ Loose(q2.link, q2.content, q2.dirs, q1.first[c]) /\ q2.lost = q1.lost \ {n}
    BY <2>8, <2>10
  <2>21. Tended(q2)
    <3>1. SUFFICES ASSUME q1.base.whole
                   PROVE  /\ Tidy(q1.content, q1.dirs, first2, nth2, q1.base.level)
                          /\ Untended(link2, q1.content, q1.dirs) \subseteq q1.lost \ {n}
      BY DEF Tended
    <3>2. /\ Tidy(q1.content, q1.dirs, q1.first, q1.nth, q1.base.level)
          /\ Untended(q1.link, q1.content, q1.dirs) \subseteq q1.lost
      BY <2>3, <3>1 DEF IsShape, Tended
    <3>3. \A d \in q1.dirs : first2[d] = q1.first[d] /\ nth2[d] = q1.nth[d]
      <4>1. n \notin q1.dirs
        BY <2>4 DEF Loose
      <4>2. QED BY <4>1
    <3> HIDE DEF first2, nth2, link2, q2
    <3>4. Tidy(q1.content, q1.dirs, first2, nth2, q1.base.level)
      BY <3>2, <3>3, TidyAlike
    <3>5. QED BY <3>2, <3>4, <2>8
  <2>12. IsShape(q2)
    BY <2>6, <2>8, <2>9, <2>21 DEF IsShape
  <2> HIDE DEF q2
  <2>13. Relinked(q1, q2, c, n)
    <3>1. Cardinality(Unlinked(q2.link)) = Cardinality(Unlinked(q1.link))
      <4>1. n # 0 /\ q1.link[c] # 0
        BY <2>1, <2>4, EocIsNone
      <4>2. Cardinality(Unlinked([q1.link EXCEPT ![c] = n])) = Cardinality(Unlinked(q1.link))
        BY <4>1, <2>6, <2>7, OneLinkCounted
      <4>3. QED BY <4>2, <2>11
    <3>2. QED BY <3>1, <2>11, <2>12 DEF Relinked
  <2> DEFINE p == PutFat(m, c, n)
  <2>14. Good(p, q2) /\ p.winsect = FatAt(q1.b, c)
    BY <2>1, <2>13, LinkSet
  <2> HIDE DEF p
  <2> DEFINE q3 == [q2 EXCEPT !.due = 0]
  <2>15. Good(r.v, q3)
    <3>1. Recounted(p, r.v, q2)
      BY <2>1, <2>11 DEF Recounted, CountsDue, p
    <3>2. QED BY <3>1, <2>14, CountsChanged
  <2>16. /\ q3.b = q2.b /\ q3.base = q2.base /\ q3.due = 0 /\ q3.dirs = q2.dirs /\ q3.content = q2.content
         /\ q3.link = q2.link /\ q3.first = q2.first /\ q3.nth = q2.nth /\ q3.lost = q2.lost
    BY <2>12 DEF IsShape
  <2> HIDE DEF q3
  <2>17. r.v.winsect \in Table(q3)
    BY <2>1, <2>11, <2>14, <2>16 DEF Table, Recounted, p
  <2>18. n \notin q.dirs
    BY <2>4 DEF Loose
  <2>19. Gained(q, q3, n, q.first[c], q.nth[c] + 1)
    <3>1. IsShape(q3)
      BY <2>15 DEF Good
    <3>2. QED BY <3>1, <2>1, <2>4, <2>11, <2>16, <2>18 DEF Gained
  <2>20. QED BY <2>15, <2>17, <2>19
<1>3. QED BY <1>1, <1>2, ChainExtended

\* A directory grows by a cluster, which is cleared.
LEMMA DirectoryExtended ==
    ASSUME NEW v, NEW q, Good(v, q), NEW c \in q.dirs, q.link[c] = EOC, q.due = 0
    PROVE  LET r == CreateChain(v, c)
               z == DirClear(r.v, r.val)
           IN  \/ Refused(v, q, r)
               \/ /\ r.val \in Clusters
                  /\ \E q1, q2 : /\ Grown(q1, q2, c, r.val) /\ Good(z, q2)
                                 /\ Marked(q, q1, r.val) /\ z.wflag = FALSE
<1> DEFINE r == CreateChain(v, c)
           n == r.val
           z == DirClear(r.v, r.val)
<1>1. CASE Refused(v, q, r)
  BY <1>1
<1>2. ASSUME NEW q1, NEW m, Added(v, q, c, r, q1, m)
      PROVE  n \in Clusters /\ \E q2 : /\ Grown(q1, q2, c, n) /\ Good(z, q2) /\ z.wflag = FALSE
                                       /\ Marked(q, q1, n)
  <2> HIDE DEF r
  <2>0. IsShape(q)
    BY DEF Good
  <2>1. /\ n \in Clusters /\ q.link[n] = 0 /\ Marked(q, q1, n) /\ Good(m, q1) /\ c # 0 /\ c \in Clusters
        /\ Recounted(PutFat(m, c, n), r.v, q1)
    BY <1>2, <2>0, EocIsNone, ShapeFacts DEF Added, Unused
  <2>2. c # n
    BY <2>1, EocIsNone
  <2>3. /\ q1.link[c] = EOC /\ q1.link[n] = EOC
        /\ q1.dirs = q.dirs /\ q1.b = q.b /\ q1.base = q.base
        /\ Loose(q1.link, q1.content, q1.dirs, n)
    BY <2>0, <2>1, <2>2 DEF Marked, Relinked, IsShape, IsLink
  <2> DEFINE w == MoveWindow(m, FatAt(q1.b, c))
  <2>4. /\ LinkedInWindow(w, PutFat(m, c, n), c, n) /\ Good(w, q1) /\ w.winsect = FatAt(q1.b, c)
    BY <2>1, PutFatIs
  <2> HIDE DEF w
  <2>5. LinkedInWindow(w, r.v, c, n) /\ CountsDue(w, r.v, q1)
    <3>1. Alike(m, w) /\ Alike(m, PutFat(m, c, n))
      BY <2>1, PutFatIs DEF w
    <3>2. QED BY <3>1, <2>1, <2>4 DEF LinkedInWindow, Recounted, CountsDue, Alike
  <2>6. c \in q1.dirs
    BY <2>3
  <2>7. \E q2 : Grown(q1, q2, c, n) /\ Good(z, q2) /\ z.wflag = FALSE
    <3>1. Clearable(w, r.v, q1, c, n)
      BY <2>1, <2>3, <2>4, <2>5, <2>6 DEF Clearable
    <3>2. QED BY <3>1, Cleared, ZenonT(60)
  <2>8. QED BY <2>1, <2>3, <2>7
<1>3. c \in Clusters
  BY ShapeFacts DEF Good
<1>4. Refused(v, q, r) \/ \E q1, m : Added(v, q, c, r, q1, m)
  BY <1>3, ChainExtended
<1>5. QED BY <1>1, <1>2, <1>4

-----------------------------------------------------------------------------
(* Walking through a directory.                                             *)

DirFields == {"sclust", "dptr", "clust", "sect", "attr", "fn", "last", "noname"}

\* The directory object is at an entry of a directory.
Stands(d, q) ==
    /\ DOMAIN d = DirFields /\ d.clust \in q.dirs /\ d.sect = SectAt(q.b, d.clust)
    /\ d.dptr \in Nat

EntryOf(d, q) == q.content[d.clust][d.dptr % DPS]

\* What a walk leaves as it is.
SameSearch(d, d2) ==
    /\ DOMAIN d = DirFields /\ DOMAIN d2 = DirFields
    /\ d2.sclust = d.sclust /\ d2.fn = d.fn /\ d2.last = d.last /\ d2.noname = d.noname

\* Between two calls, and in those that write nothing.
Calm(v, q) ==
    Good(v, q) /\ v.wflag = FALSE /\ v.fsi_flag = 0 /\ v.log = <<>> /\ q.due = 0 /\ q.lost = {}

Within(q, q2) ==
    /\ q2.b = q.b /\ q2.base = q.base /\ q2.due = q.due /\ q2.lost \subseteq q.lost
    /\ q.dirs \subseteq q2.dirs

\* No entry before the one that the directory object is at is the end.
Passed(d, q) == Earlier(q.content, q.dirs, q.first, q.nth, d.clust, d.dptr % DPS)

Answers == {"OK", "NO_FILE", "DENIED", "INT_ERR"}

NextState(r, v, d, stretch, q, q2) ==
    /\ DOMAIN r = {"v", "d", "res"} /\ r = [x \in DOMAIN r |-> r[x]]
    /\ r.res \in Answers /\ SameSearch(d, r.d)
    /\ Within(q, q2) /\ Good(r.v, q2) /\ r.v.wflag = FALSE
    /\ r.res = "OK" => Stands(r.d, q2) /\ r.d.dptr = d.dptr + 1 /\ r.d.dptr < MAX_DIR
    /\ \/ q2 = q /\ r.v.fsi_flag = v.fsi_flag /\ r.v.log = v.log
       \/ stretch /\ r.res = "OK" /\ q2.content[r.d.clust] = NoEntries
    /\ r.res = "OK" /\ Passed(d, q) /\ ~IsEnd(EntryOf(d, q)) => Passed(r.d, q2)

\* clst2sect, of a cluster of the volume.
LEMMA SectorIs ==
    ASSUME NEW v, NEW q, Good(v, q), NEW c \in Clusters
    PROVE  Sector(v, c) = SectAt(q.b, c) /\ SectAt(q.b, c) # 0
<1>1. v.volbase = q.b /\ q.b \in Nat
  BY DEF Good, IsVolume, IsShape
<1>2. DataBase \in Nat
  BY <1>1, SectorsApart
<1>3. Sector(v, c) = SectAt(q.b, c)
  BY <1>1 DEF Sector, SectAt, Clusters
<1>4. SectAt(q.b, c) # 0
  <2>1. c \in Nat /\ c >= 2
    BY FatAssumption DEF Clusters
  <2>2. DataBase >= 2
    BY SectorsApart, <1>1 DEF DataBase, FatBase
  <2>3. QED BY <1>1, <1>2, <2>1, <2>2 DEF SectAt
<1>5. QED BY <1>3, <1>4

\* The next entry is in the same cluster, or the first of the next one.
LEMMA NextInCluster ==
    ASSUME NEW x \in Nat
    PROVE  /\ x % DPS \in Slots /\ (x + 1) % DPS \in Slots
           /\ (x + 1) % DPS # 0 => (x + 1) % DPS = (x % DPS) + 1
           /\ (x + 1) % DPS = 0 => x % DPS = DPS - 1
<1>1. DPS \in Nat /\ DPS > 0
  BY FatAssumption
<1>2. \A y \in Nat : y = DPS * (y \div DPS) + (y % DPS) /\ y \div DPS \in Nat /\ y % DPS \in 0..DPS - 1
  BY <1>1
<1>3. PICK a \in Nat, r \in 0..DPS - 1 : x = DPS * a + r /\ r = x % DPS
  BY <1>2
<1>4. PICK b \in Nat, s \in 0..DPS - 1 : x + 1 = DPS * b + s /\ s = (x + 1) % DPS
  <2>1. x + 1 \in Nat
    OBVIOUS
  <2>2. QED BY <1>2, <2>1
<1>5. DPS * b = DPS * a + r + 1 - s
  <2>1. DPS * a \in Nat /\ DPS * b \in Nat
    BY <1>1
  <2>2. QED BY <2>1, <1>1, <1>3, <1>4
<1>6. b = a \/ b = a + 1
  <2>1. CASE b < a
    <3>1. a = b + 1 + (a - b - 1) /\ a - b - 1 \in Nat
      BY <2>1
    <3>2. DPS * a = DPS * b + DPS + DPS * (a - b - 1)
      BY <3>1, <1>1
    <3>3. DPS * (a - b - 1) \in Nat /\ DPS * b \in Nat /\ DPS * a \in Nat
      BY <3>1, <1>1
    <3> HIDE DEF Slots
    <3>4. QED BY <3>2, <3>3, <1>5, <1>1
  <2>2. CASE b > a + 1
    <3>1. b = a + 2 + (b - a - 2) /\ b - a - 2 \in Nat
      BY <2>2
    <3>2. DPS * b = DPS * a + DPS + DPS + DPS * (b - a - 2)
      BY <3>1, <1>1
    <3>3. DPS * (b - a - 2) \in Nat /\ DPS * b \in Nat /\ DPS * a \in Nat
      BY <3>1, <1>1
    <3>4. QED BY <3>2, <3>3, <1>5, <1>1
  <2>3. QED BY <2>1, <2>2
<1>7. CASE b = a
  <2>1. s = r + 1
    <3>1. DPS * a \in Nat
      BY <1>1
    <3>2. QED BY <3>1, <1>5, <1>7
  <2>2. QED BY <2>1, <1>1, <1>3, <1>4 DEF Slots
<1>8. CASE b = a + 1
  <2>1. DPS * b = DPS * a + DPS
    BY <1>1, <1>8
  <2>2. DPS = r + 1 - s
    <3>1. DPS * a \in Nat
      BY <1>1
    <3>2. QED BY <3>1, <1>1, <1>5, <2>1
  <2>3. r = DPS - 1 /\ s = 0
    BY <1>1, <2>2
  <2>4. QED BY <2>3, <1>1, <1>3, <1>4 DEF Slots
<1>9. QED BY <1>6, <1>7, <1>8

\* No entry of the directory up to the entry j of k is the end.
LEMMA PassedOn ==
    ASSUME NEW q, IsShape(q), NEW k \in q.dirs, NEW j \in Slots, ~IsEnd(q.content[k][j]),
           Earlier(q.content, q.dirs, q.first, q.nth, k, j)
    PROVE  /\ Earlier(q.content, q.dirs, q.first, q.nth, k, j + 1)
           /\ j = DPS - 1 => \A d \in q.dirs : \A i \in Slots :
                 q.first[d] = q.first[k] /\ q.nth[d] < q.nth[k] + 1 => ~IsEnd(q.content[d][i])
<1>1. /\ LinksSound(q.link, q.dirs) /\ ChainsSound(q.link, q.dirs, q.first, q.nth)
  BY DEF IsShape, Sound
<1>2. \A d \in q.dirs : d \in Clusters /\ q.link[d] # 0 /\ q.nth[d] \in Nat
  BY <1>1 DEF LinksSound, ChainsSound
<1>3. DPS \in Nat /\ j \in Int
  BY FatAssumption DEF Slots
<1>4. ASSUME NEW d \in q.dirs, NEW i \in Slots, Before(q.first, q.nth, d, i, k, j + 1)
      PROVE  ~IsEnd(q.content[d][i])
  <2>1. Before(q.first, q.nth, d, i, k, j) \/ (d = k /\ i = j)
    BY <1>3, <1>4 DEF Before, Slots
  <2>2. QED BY <2>1 DEF Earlier
<1>5. ASSUME j = DPS - 1, NEW d \in q.dirs, NEW i \in Slots,
             q.first[d] = q.first[k], q.nth[d] < q.nth[k] + 1
      PROVE  ~IsEnd(q.content[d][i])
  <2>1. q.nth[d] < q.nth[k] \/ q.nth[d] = q.nth[k]
    BY <1>2, <1>5
  <2>2. q.nth[d] = q.nth[k] => d = k
    BY <1>1, <1>2, <1>5 DEF ChainsSound
  <2>3. Before(q.first, q.nth, d, i, k, j) \/ (d = k /\ i = j)
    BY <1>3, <1>5, <2>1, <2>2 DEF Before, Slots
  <2>4. QED BY <2>3 DEF Earlier
<1>6. QED BY <1>4, <1>5 DEF Earlier

\* And on, into the next cluster or to the end of the directory.
LEMMA PassedToNext ==
    ASSUME NEW q, IsShape(q), NEW k \in q.dirs, ~IsEnd(q.content[k][DPS - 1]),
           Earlier(q.content, q.dirs, q.first, q.nth, k, DPS - 1)
    PROVE  /\ q.link[k] \in Clusters => Earlier(q.content, q.dirs, q.first, q.nth, q.link[k], 0)
           /\ \A q1, q2, n : n \in Clusters /\ Marked(q, q1, n) /\ Grown(q1, q2, k, n)
                 => Earlier(q2.content, q2.dirs, q2.first, q2.nth, n, 0)
<1>1. DPS - 1 \in Slots /\ \A i \in Slots : ~(i < 0)
  BY FatAssumption DEF Slots
<1>2. \A d \in q.dirs : \A i \in Slots :
         q.first[d] = q.first[k] /\ q.nth[d] < q.nth[k] + 1 => ~IsEnd(q.content[d][i])
  BY <1>1, PassedOn
<1>3. /\ LinksSound(q.link, q.dirs) /\ ChainsSound(q.link, q.dirs, q.first, q.nth)
      /\ DOMAIN q.first = Clusters /\ DOMAIN q.nth = Clusters /\ IsLink(q.content) /\ k \in Clusters
  BY DEF IsShape, Sound, LinksSound
<1>4. ASSUME q.link[k] \in Clusters
      PROVE  Earlier(q.content, q.dirs, q.first, q.nth, q.link[k], 0)
  <2>1. q.first[q.link[k]] = q.first[k] /\ q.nth[q.link[k]] = q.nth[k] + 1
    BY <1>3, <1>4 DEF ChainsSound
  <2>2. QED BY <1>1, <1>2, <2>1 DEF Earlier, Before
<1>5. ASSUME NEW q1, NEW q2, NEW n \in Clusters, Marked(q, q1, n), Grown(q1, q2, k, n)
      PROVE  Earlier(q2.content, q2.dirs, q2.first, q2.nth, n, 0)
  <2>1. n \notin q.dirs /\ q1.dirs = q.dirs /\ q1.content = q.content /\ n # k
    BY <1>5 DEF Marked, Relinked, Loose
  <2>2. \A c \in Clusters :
           /\ q1.first[c] = IF c = n THEN n ELSE q.first[c]
           /\ q1.nth[c] = IF c = n THEN 1 ELSE q.nth[c]
    BY <1>3, <1>5 DEF Marked
  <2>3. /\ DOMAIN q1.first = Clusters /\ DOMAIN q1.nth = Clusters /\ IsLink(q1.content)
    BY <1>5 DEF Marked, Relinked, IsShape
  <2>4. \A c \in Clusters :
           /\ q2.first[c] = IF c = n THEN q1.first[k] ELSE q1.first[c]
           /\ q2.nth[c] = IF c = n THEN q1.nth[k] + 1 ELSE q1.nth[c]
           /\ c # n => q2.content[c] = q1.content[c]
    BY <1>5, <2>3 DEF Grown, IsLink
  <2>5. q2.dirs = q.dirs \cup {n} /\ q.dirs \subseteq Clusters
    BY <1>3, <1>5, <2>1 DEF Grown, LinksSound
  <2>6. \A d \in q.dirs : q2.first[d] = q.first[d] /\ q2.nth[d] = q.nth[d] /\ q2.content[d] = q.content[d]
    BY <2>1, <2>2, <2>4, <2>5
  <2>7. q2.first[n] = q.first[k] /\ q2.nth[n] = q.nth[k] + 1
    BY <1>3, <2>1, <2>2, <2>4
  <2>8. q.nth[k] \in Nat
    BY <1>3 DEF LinksSound, ChainsSound
  <2>9. ASSUME NEW d \in q2.dirs, NEW i \in Slots, Before(q2.first, q2.nth, d, i, n, 0)
        PROVE  ~IsEnd(q2.content[d][i])
    <3>1. d # n
      BY <1>1, <2>7, <2>8, <2>9 DEF Before
    <3>2. d \in q.dirs /\ q.first[d] = q.first[k] /\ q.nth[d] < q.nth[k] + 1
      BY <1>1, <2>5, <2>6, <2>7, <2>9, <3>1 DEF Before
    <3>3. QED BY <1>2, <2>6, <3>2
  <2>10. QED BY <2>9 DEF Earlier
<1>6. QED BY <1>4, <1>5

\* dir_next: the next entry, in a cluster of the directory or in one it has grown by.
LEMMA NextEntry ==
    ASSUME NEW v, NEW q, NEW d, NEW stretch \in BOOLEAN,
           Good(v, q), v.wflag = FALSE, Stands(d, q), q.due = 0
    PROVE  \E q2 : NextState(DirNext(v, d, stretch), v, d, stretch, q, q2)
<1> DEFINE ofs  == d.dptr + 1
           g    == GetFat(v, d.clust)
           over == [d EXCEPT !.sect = 0]
           n    == CreateChain(g.v, d.clust)
           At(w, clst) == [v |-> w, res |-> "OK",
                           d |-> [d EXCEPT !.dptr = ofs, !.clust = clst, !.sect = Sector(w, clst)]]
           r    == DirNext(v, d, stretch)
<1>1. /\ DOMAIN d = DirFields /\ d.clust \in q.dirs /\ d.clust \in Clusters /\ d.dptr \in Nat
      /\ ofs \in Nat /\ IsShape(q) /\ MAX_DIR \in Nat
      /\ q.link[d.clust] \in {EOC} \cup Clusters
      /\ q.link[d.clust] \in Clusters => q.link[d.clust] \in q.dirs
  BY ShapeFacts, FatAssumption DEF Stands, Good
<1>2. SameSearch(d, over)
  BY <1>1 DEF SameSearch, DirFields
<1>3. ASSUME NEW clst, NEW w
      PROVE  LET r2 == At(w, clst)
             IN  /\ r2.v = w /\ r2.res = "OK" /\ SameSearch(d, r2.d) /\ r2.d.dptr = ofs /\ r2.d.clust = clst
                 /\ r2.d.sect = Sector(w, clst) /\ DOMAIN r2 = {"v", "d", "res"}
                 /\ r2 = [x \in DOMAIN r2 |-> r2[x]]
  BY <1>1 DEF SameSearch, DirFields
<1>4. Within(q, q)
  BY DEF Within
<1>9. /\ d.dptr % DPS \in Slots /\ ofs % DPS \in Slots
      /\ ofs % DPS # 0 => ofs % DPS = (d.dptr % DPS) + 1
      /\ ofs % DPS = 0 => d.dptr % DPS = DPS - 1
  BY <1>1, NextInCluster
<1>5. CASE ofs >= MAX_DIR \/ d.sect = 0
  <2>1. r = [v |-> v, d |-> over, res |-> "NO_FILE"]
    BY <1>5 DEF DirNext
  <2>2. NextState(r, v, d, stretch, q, q)
    BY <1>2, <1>4, <2>1 DEF NextState, Answers
  <2>3. QED BY <2>2
<1>6. CASE ~(ofs >= MAX_DIR \/ d.sect = 0) /\ ofs % DPS # 0
  <2> DEFINE d2 == [d EXCEPT !.dptr = ofs]
  <2>1. r = [v |-> v, d |-> d2, res |-> "OK"]
    BY <1>6 DEF DirNext
  <2>2. SameSearch(d, d2) /\ Stands(d2, q) /\ d2.dptr = ofs
    BY <1>1 DEF SameSearch, DirFields, Stands
  <2> HIDE DEF d2
  <2>3. ofs < MAX_DIR
    BY <1>1, <1>6
  <2>6. d2.clust = d.clust
    BY <1>1 DEF DirFields, d2
  <2>7. Passed(d, q) /\ ~IsEnd(EntryOf(d, q)) => Passed(d2, q)
    BY <1>1, <1>6, <1>9, <2>2, <2>6, PassedOn DEF Passed, EntryOf
  <2>4. NextState(r, v, d, stretch, q, q)
    BY <1>4, <2>1, <2>2, <2>3, <2>7 DEF NextState, Answers
  <2>5. QED BY <2>4
<1>7. CASE ~(ofs >= MAX_DIR \/ d.sect = 0) /\ ofs % DPS = 0
  <2>1. /\ Good(g.v, q) /\ g.val = q.link[d.clust] /\ g.v.fsi_flag = v.fsi_flag /\ g.v.log = v.log
        /\ g.v.wflag = FALSE
    <3>1. Good(g.v, q) /\ g.val = q.link[d.clust] /\ Alike(v, g.v) /\ Still(v, g.v)
      BY <1>1, LinkRead
    <3> HIDE DEF g
    <3>2. g.v.wflag \in BOOLEAN
      BY <3>1 DEF Good, IsVolume
    <3>3. QED BY <3>1, <3>2 DEF Alike, Still
  <2>2. g.val \in {EOC} \cup Clusters /\ (g.val < N_FATENT <=> g.val \in Clusters) /\ ~(g.val <= 1)
    BY <1>1, <2>1, FatAssumption DEF EOC, Clusters
  <2>3. ofs < MAX_DIR
    BY <1>1, <1>7
  <2> HIDE DEF g
  <2>4. CASE g.val \in Clusters
    <3>1. r = At(g.v, g.val)
      BY <1>7, <2>2, <2>4 DEF DirNext, g
    <3>2. Sector(g.v, g.val) = SectAt(q.b, g.val) /\ g.val \in q.dirs
      BY <1>1, <2>1, <2>4, SectorIs
    <3>3. /\ r.v = g.v /\ r.res = "OK" /\ SameSearch(d, r.d) /\ r.d.dptr = ofs /\ r.d.clust = g.val
          /\ r.d.sect = Sector(g.v, g.val) /\ DOMAIN r = {"v", "d", "res"} /\ r = [x \in DOMAIN r |-> r[x]]
      <4> HIDE DEF At
      <4>1. QED BY <1>3, <3>1
    <3> HIDE DEF r
    <3>4. Stands(r.d, q)
      BY <1>1, <3>2, <3>3 DEF Stands, SameSearch
    <3>7. Passed(d, q) /\ ~IsEnd(EntryOf(d, q)) => Passed(r.d, q)
      BY <1>1, <1>7, <1>9, <2>1, <2>4, <3>3, PassedToNext DEF Passed, EntryOf
    <3>5. NextState(r, v, d, stretch, q, q)
      BY <1>4, <2>1, <2>3, <3>3, <3>4, <3>7 DEF NextState, Answers
    <3>6. QED BY <3>5 DEF r
  <2>5. CASE g.val = EOC /\ ~stretch
    <3>1. r = [v |-> g.v, d |-> over, res |-> "NO_FILE"]
      BY <1>7, <2>2, <2>5, EocIsNone DEF DirNext, g
    <3>2. NextState(r, v, d, stretch, q, q)
      BY <1>2, <1>4, <2>1, <3>1 DEF NextState, Answers
    <3>3. QED BY <3>2
  <2>6. CASE g.val = EOC /\ stretch
    <3> DEFINE z == DirClear(n.v, n.val)
    <3>1. r = CASE n.val = 0 -> [v |-> n.v, d |-> d, res |-> "DENIED"]
                [] n.val = 1 -> [v |-> n.v, d |-> d, res |-> "INT_ERR"]
                [] OTHER     -> At(z, n.val)
      BY <1>7, <2>2, <2>6, EocIsNone DEF DirNext, g
    <3>2. \/ Refused(g.v, q, n)
          \/ /\ n.val \in Clusters
             /\ \E q1, q2 : /\ Grown(q1, q2, d.clust, n.val) /\ Good(z, q2)
                            /\ Marked(q, q1, n.val) /\ z.wflag = FALSE
      BY <1>1, <2>1, <2>6, DirectoryExtended
    <3> HIDE DEF n
    <3>3. CASE Refused(g.v, q, n)
      <4>1. /\ n.val \in {0, 1} /\ Good(n.v, q) /\ n.v.wflag = FALSE /\ n.v.fsi_flag = v.fsi_flag
            /\ n.v.log = v.log
        BY <2>1, <3>3 DEF Refused, Near, Alike, Still, Good, IsVolume
      <4>2. r \in {[v |-> n.v, d |-> d, res |-> "DENIED"], [v |-> n.v, d |-> d, res |-> "INT_ERR"]}
        BY <3>1, <4>1
      <4>3. SameSearch(d, d)
        BY <1>1 DEF SameSearch
      <4>4. NextState(r, v, d, stretch, q, q)
        BY <1>4, <4>1, <4>2, <4>3 DEF NextState, Answers
      <4>5. QED BY <4>4
    <3>4. ASSUME NEW q1, NEW q2, n.val \in Clusters, Grown(q1, q2, d.clust, n.val), Good(z, q2),
                 Marked(q, q1, n.val), z.wflag = FALSE
          PROVE  NextState(r, v, d, stretch, q, q2)
      <4>0. q1.b = q.b /\ q1.base = q.base /\ q1.dirs = q.dirs /\ q1.lost = q.lost \cup {n.val}
        BY <3>4 DEF Marked, Relinked
      <4>1. n.val # 0 /\ n.val # 1
        BY <3>4, FatAssumption DEF Clusters
      <4>2. r = At(z, n.val)
        BY <3>1, <4>1
      <4>3. Sector(z, n.val) = SectAt(q.b, n.val)
        BY <3>4, <4>0, SectorIs DEF Grown
      <4> HIDE DEF z
      <4>4. /\ r.v = z /\ r.res = "OK" /\ SameSearch(d, r.d) /\ r.d.dptr = ofs /\ r.d.clust = n.val
            /\ r.d.sect = Sector(z, n.val) /\ DOMAIN r = {"v", "d", "res"} /\ r = [x \in DOMAIN r |-> r[x]]
        <5> HIDE DEF At
        <5>1. QED BY <1>3, <4>2
      <4> HIDE DEF r
      <4>5. Within(q, q2) /\ n.val \in q2.dirs
        BY <1>1, <3>4, <4>0 DEF Within, Grown
      <4>6. q2.content[n.val] = NoEntries
        <5>1. n.val \in DOMAIN q2.content
          BY <3>4 DEF Good, IsShape, IsLink
        <5>2. q2.content = [q1.content EXCEPT ![n.val] = NoEntries]
          BY <3>4 DEF Grown
        <5>3. n.val \in DOMAIN q1.content
          BY <5>1, <5>2
        <5>4. QED BY <5>2, <5>3
      <4>7. Stands(r.d, q2)
        BY <1>1, <4>3, <4>4, <4>5 DEF Stands, SameSearch, Within
      <4>9. Passed(d, q) /\ ~IsEnd(EntryOf(d, q)) => Passed(r.d, q2)
        BY <1>1, <1>7, <1>9, <3>4, <4>4, PassedToNext DEF Passed, EntryOf
      <4>8. QED BY <2>3, <2>6, <3>4, <4>4, <4>5, <4>6, <4>7, <4>9 DEF NextState, Answers
    <3>5. QED BY <3>2, <3>3, <3>4
  <2>7. QED BY <2>2, <2>4, <2>5, <2>6
<1>8. QED BY <1>5, <1>6, <1>7

-----------------------------------------------------------------------------
\* The passes of a walk.
LEMMA WalkRuns ==
    ASSUME NEW v, NEW d, NEW goal
    PROVE  \E run : /\ run = [i \in 0..MAX_DIR |-> IF i = 0 THEN [v |-> v, d |-> d, res |-> "GO"]
                                 ELSE WalkRound(run[i - 1], goal)]
                   /\ Walk(v, d, goal) = run[MAX_DIR]
<1> DEFINE Begin == [v |-> v, d |-> d, res |-> "GO"]
           IsRun(run, n) == run = [i \in 0..n |-> IF i = 0 THEN Begin ELSE WalkRound(run[i - 1], goal)]
           S == {n \in 0..MAX_DIR : \E run : IsRun(run, n)}
<1>1. MAX_DIR \in Nat
  BY FatAssumption
<1> HIDE DEF Begin
<1>2. 0 \in S
  <2>1. IsRun([i \in 0..0 |-> Begin], 0)
    OBVIOUS
  <2>2. 0 \in 0..MAX_DIR
    BY <1>1
  <2> HIDE DEF IsRun
  <2>3. QED BY <2>1, <2>2
<1>3. ASSUME NEW n \in 0..MAX_DIR, n < MAX_DIR, n \in S PROVE n + 1 \in S
  <2>1. PICK run : IsRun(run, n)
    BY <1>3
  <2> DEFINE longer == [i \in 0..(n + 1) |-> IF i = n + 1 THEN WalkRound(run[n], goal) ELSE run[i]]
  <2>2. ASSUME NEW i \in 0..(n + 1)
        PROVE  longer[i] = IF i = 0 THEN Begin ELSE WalkRound(longer[i - 1], goal)
    <3>1. CASE i = n + 1
      <4>1. i # 0 /\ i - 1 = n /\ n \in 0..(n + 1) /\ n # n + 1
        BY <3>1
      <4>2. longer[i - 1] = run[n]
        BY <4>1
      <4>3. QED BY <3>1, <4>1, <4>2
    <3>2. CASE i = 0
      <4>1. i # n + 1 /\ i \in 0..n
        BY <3>2
      <4>2. longer[i] = run[i] /\ run[i] = Begin
        BY <2>1, <3>2, <4>1
      <4>3. QED BY <3>2, <4>2
    <3>3. CASE i \in 1..n
      <4>1. i # n + 1 /\ i # 0 /\ i - 1 \in 0..(n + 1) /\ i - 1 # n + 1 /\ i \in 0..n
        BY <3>3
      <4>2. longer[i] = run[i] /\ longer[i - 1] = run[i - 1]
        BY <4>1
      <4>3. run[i] = WalkRound(run[i - 1], goal)
        BY <2>1, <4>1
      <4>4. QED BY <4>1, <4>2, <4>3
    <3>4. QED BY <3>1, <3>2, <3>3
  <2>3. longer = [i \in 0..(n + 1) |-> longer[i]]
    OBVIOUS
  <2> HIDE DEF longer
  <2>4. IsRun(longer, n + 1)
    BY <2>2, <2>3
  <2>5. n + 1 \in 0..MAX_DIR
    BY <1>1, <1>3
  <2>6. QED BY <2>4, <2>5
<1>4. 0..MAX_DIR \subseteq S
  <2> HIDE DEF S
  <2>1. QED BY <1>1, <1>2, <1>3, Induct
<1>5. MAX_DIR \in S
  BY <1>1, <1>4
<1>6. \E run : run = [i \in 0..MAX_DIR |-> IF i = 0 THEN [v |-> v, d |-> d, res |-> "GO"]
                                 ELSE WalkRound(run[i - 1], goal)]
  BY <1>5 DEF Begin
<1> DEFINE made == CHOOSE run : run = [i \in 0..MAX_DIR |-> IF i = 0 THEN [v |-> v, d |-> d, res |-> "GO"]
                                 ELSE WalkRound(run[i - 1], goal)]
<1>7. made = [i \in 0..MAX_DIR |-> IF i = 0 THEN [v |-> v, d |-> d, res |-> "GO"]
                                 ELSE WalkRound(made[i - 1], goal)]
  BY <1>6
<1>8. Walk(v, d, goal) = made[MAX_DIR]
  BY DEF Walk
<1> HIDE DEF made
<1>9. QED BY <1>7, <1>8

\* What a walk from d has come to, with the volume in the shape q2.
Walking(s, d, goal, q, q2) ==
    /\ DOMAIN s = {"v", "d", "res"} /\ s.res \in Answers \cup {"GO"} /\ SameSearch(d, s.d)
    /\ Within(q, q2) /\ Good(s.v, q2) /\ s.v.wflag = FALSE /\ q2.due = 0
    /\ s.res = "GO" => /\ Stands(s.d, q2)
                       /\ s.v.fsi_flag = 0 \/ (goal = "free" /\ q2.content[s.d.clust] = NoEntries)
    /\ s.res = "OK" => /\ Stands(s.d, q2) /\ s.v.winsect = s.d.sect
                       /\ Stops(goal, d.fn, EntryOf(s.d, q2)) /\ s.d.attr = EntryOf(s.d, q2).attr
    /\ s.res \notin {"GO", "OK"} => s.v.fsi_flag = 0
    /\ goal = "free" /\ s.res \in {"GO", "OK"} => Passed(s.d, q2)
    /\ goal # "free" => q2 = q /\ Calm(s.v, q)

WalkState(s, d, goal, q, i) ==
    /\ \E q2 : Walking(s, d, goal, q, q2)
    /\ s.res = "GO" => s.d.dptr = i /\ i < MAX_DIR

\* The entries of a cleared cluster are free.
LEMMA NewEntriesAreFree ==
    ASSUME NEW d, d \in Nat
    PROVE  IsFree(NoEntries[d % DPS])
<1>1. d % DPS \in 0..DPS - 1 /\ 1 \in 1..BODY + EXT
  BY FatAssumption
<1>2. NoEntries[d % DPS] = NoEntry
  BY <1>1 DEF NoEntries
<1>3. QED BY <1>1, <1>2 DEF NoEntry, IsFree

\* The entry that the window shows is the one of the shape.
LEMMA EntryShown ==
    ASSUME NEW v, NEW q, NEW d, Good(v, q), Stands(d, q), v.winsect = d.sect
    PROVE  EntryAt(v, d) = EntryOf(d, q) /\ v.win = q.content[d.clust]
<1>1. d.clust \in Clusters
  BY ShapeFacts DEF Good, Stands
<1>2. v.win = q.content[d.clust]
  BY <1>1, InWindow DEF Stands
<1>3. QED BY <1>2 DEF EntryAt, EntryOf

\* A pass of a walk stays in the directory.
LEMMA WalkRoundKeeps ==
    ASSUME NEW s, NEW d, NEW goal, NEW q, NEW i \in Nat, WalkState(s, d, goal, q, i)
    PROVE  WalkState(WalkRound(s, goal), d, goal, q, i + 1)
<1> DEFINE w == MoveWindow(s.v, s.d.sect)
           e == EntryAt(w, s.d)
           n == DirNext(w, s.d, goal = "free")
           r == WalkRound(s, goal)
           found == [v |-> w, d |-> [s.d EXCEPT !.attr = e.attr], res |-> "OK"]
<1>1. PICK q2 : Walking(s, d, goal, q, q2)
  BY DEF WalkState
<1>2. CASE s.res # "GO"
  <2>1. r = s
    BY <1>2 DEF WalkRound
  <2>2. QED BY <1>1, <1>2, <2>1 DEF WalkState
<1>3. CASE s.res = "GO"
  <2>1. /\ SameSearch(d, s.d) /\ Within(q, q2) /\ Good(s.v, q2) /\ s.v.wflag = FALSE /\ q2.due = 0
        /\ Stands(s.d, q2) /\ s.d.dptr = i
        /\ s.v.fsi_flag = 0 \/ (goal = "free" /\ q2.content[s.d.clust] = NoEntries)
        /\ goal # "free" => q2 = q /\ Calm(s.v, q)
        /\ goal = "free" => Passed(s.d, q2)
    BY <1>1, <1>3 DEF Walking, WalkState
  <2>2. Good(w, q2) /\ Alike(s.v, w) /\ w.winsect = s.d.sect /\ ~w.wflag /\ w.log = s.v.log
    BY <2>1, WindowMoved
  <2> HIDE DEF w
  <2>3. w.wflag = FALSE /\ w.fsi_flag = s.v.fsi_flag
    <3>1. w.wflag \in BOOLEAN
      BY <2>2 DEF Good, IsVolume
    <3>2. QED BY <2>2, <3>1 DEF Alike
  <2>4. e = EntryOf(s.d, q2)
    BY <2>1, <2>2, EntryShown
  <2>5. s.d.fn = d.fn /\ DOMAIN s.d = DirFields
    BY <2>1 DEF SameSearch
  <2>6. goal # "free" => Calm(w, q)
    BY <2>1, <2>2, <2>3 DEF Calm
  <2> HIDE DEF e
  <2>7. CASE Stops(goal, s.d.fn, e)
    <3>1. r = found
      BY <1>3, <2>7 DEF WalkRound, w, e
    <3> DEFINE d2 == [s.d EXCEPT !.attr = e.attr]
    <3>2. /\ SameSearch(s.d, d2) /\ d2.sect = s.d.sect /\ d2.dptr = s.d.dptr /\ d2.clust = s.d.clust
          /\ d2.attr = e.attr /\ DOMAIN d2 = DirFields
      BY <2>5 DEF SameSearch, DirFields
    <3>3. r.v = w /\ r.d = d2 /\ r.res = "OK" /\ DOMAIN r = {"v", "d", "res"}
      BY <3>1
    <3> HIDE DEF d2, r
    <3>4. Stands(d2, q2) /\ SameSearch(d, d2) /\ EntryOf(d2, q2) = e
      BY <2>1, <2>4, <3>2 DEF Stands, SameSearch, EntryOf
    <3>7. goal = "free" => Passed(d2, q2)
      BY <2>1, <3>2 DEF Passed
    <3>5. Walking(r, d, goal, q, q2)
      BY <2>1, <2>2, <2>3, <2>5, <2>6, <2>7, <3>2, <3>3, <3>4, <3>7 DEF Walking, Answers
    <3>6. QED BY <3>3, <3>5 DEF WalkState, r
  <2>8. CASE ~Stops(goal, s.d.fn, e)
    <3>1. r = IF n.res = "OK" THEN [n EXCEPT !.res = "GO"] ELSE n
      BY <1>3, <2>8 DEF WalkRound, w, e
    <3>2. s.v.fsi_flag = 0
      <4>1. CASE goal = "free" /\ q2.content[s.d.clust] = NoEntries
        <5>1. e = NoEntries[i % DPS]
          BY <2>1, <2>4, <4>1 DEF EntryOf
        <5>2. IsFree(e)
          BY <5>1, NewEntriesAreFree
        <5>3. QED BY <2>8, <4>1, <5>2 DEF Stops
      <4>2. QED BY <2>1, <4>1
    <3>3. PICK q3 : NextState(n, w, s.d, goal = "free", q2, q3)
      <4>1. (goal = "free") \in BOOLEAN
        OBVIOUS
      <4>2. QED BY <2>1, <2>2, <2>3, <4>1, NextEntry
    <3> HIDE DEF n
    <3>4. Within(q, q3) /\ SameSearch(d, n.d)
      BY <2>1, <3>3 DEF NextState, Within, SameSearch
    <3>5. /\ r.v = n.v /\ r.d = n.d /\ DOMAIN r = {"v", "d", "res"}
          /\ r.res = IF n.res = "OK" THEN "GO" ELSE n.res
      BY <3>1, <3>3 DEF NextState
    <3>6. n.res \in Answers
      BY <3>3 DEF NextState
    <3> HIDE DEF r
    <3>7. r.res \in (Answers \ {"OK"}) \cup {"GO"} /\ (r.res = "GO" <=> n.res = "OK")
      BY <3>5, <3>6 DEF Answers
    <3>8. goal # "free" => q3 = q /\ Calm(r.v, q)
      <4>1. CASE goal # "free"
        <5>1. /\ q3 = q2 /\ n.v.fsi_flag = w.fsi_flag /\ n.v.log = w.log
              /\ n.v.wflag = FALSE /\ Good(n.v, q3)
          BY <3>3, <4>1 DEF NextState
        <5>2. q2 = q /\ w.log = <<>> /\ w.fsi_flag = 0 /\ q.due = 0 /\ q.lost = {}
          BY <2>1, <2>6, <4>1 DEF Calm
        <5>3. QED BY <3>5, <5>1, <5>2 DEF Calm
      <4>2. QED BY <4>1
    <3>9. /\ r.res = "GO" => /\ Stands(r.d, q3)
                             /\ r.v.fsi_flag = 0 \/ (goal = "free" /\ q3.content[r.d.clust] = NoEntries)
          /\ r.res # "GO" => r.v.fsi_flag = 0
      BY <2>3, <3>2, <3>3, <3>5, <3>7 DEF NextState
    <3>10. Good(r.v, q3) /\ r.v.wflag = FALSE /\ q3.due = 0
      BY <2>1, <3>3, <3>5 DEF NextState, Within
    <3>14. goal = "free" /\ r.res = "GO" => Passed(r.d, q3)
      <4>1. goal = "free" => ~IsEnd(EntryOf(s.d, q2))
        BY <2>4, <2>8 DEF Stops, IsFree, IsEnd
      <4>2. QED BY <2>1, <3>3, <3>5, <3>7, <4>1 DEF NextState
    <3>11. Walking(r, d, goal, q, q3)
      BY <3>4, <3>5, <3>7, <3>8, <3>9, <3>10, <3>14 DEF Walking
    <3>12. r.res = "GO" => r.d.dptr = i + 1 /\ i + 1 < MAX_DIR
      BY <2>1, <3>3, <3>5, <3>7 DEF NextState
    <3>13. QED BY <3>11, <3>12 DEF WalkState, r
  <2>9. QED BY <2>7, <2>8
<1>4. QED BY <1>2, <1>3

\* A walk from the beginning of a directory ends.
LEMMA Walked ==
    ASSUME NEW v, NEW q, NEW d, NEW goal, Calm(v, q), Stands(d, q), d.dptr = 0,
           goal = "free" => Passed(d, q)
    PROVE  \E q2 : Walking(Walk(v, d, goal), d, goal, q, q2) /\ Walk(v, d, goal).res \in Answers
<1> DEFINE Begin == [v |-> v, d |-> d, res |-> "GO"]
<1>1. PICK run : /\ run = [i \in 0..MAX_DIR |-> IF i = 0 THEN Begin ELSE WalkRound(run[i - 1], goal)]
                 /\ Walk(v, d, goal) = run[MAX_DIR]
  BY WalkRuns
<1> DEFINE S == {i \in 0..MAX_DIR : WalkState(run[i], d, goal, q, i)}
<1>2. MAX_DIR \in Nat /\ 0 < MAX_DIR
  BY FatAssumption
<1>3. WalkState(Begin, d, goal, q, 0)
  <2>1. SameSearch(d, d) /\ Within(q, q)
    BY DEF SameSearch, Within, Stands
  <2>2. Walking(Begin, d, goal, q, q)
    BY <2>1 DEF Walking, Calm
  <2>3. QED BY <1>2, <2>2 DEF WalkState
<1> HIDE DEF Begin
<1>4. 0 \in S
  BY <1>1, <1>2, <1>3
<1>5. ASSUME NEW i \in 0..MAX_DIR, i < MAX_DIR, i \in S PROVE i + 1 \in S
  <2>1. run[i + 1] = WalkRound(run[i], goal)
    BY <1>1, <1>2, <1>5
  <2>2. WalkState(run[i + 1], d, goal, q, i + 1)
    BY <2>1, <1>5, WalkRoundKeeps
  <2>3. QED BY <2>2, <1>2, <1>5
<1>6. MAX_DIR \in S
  <2> HIDE DEF S
  <2>1. 0..MAX_DIR \subseteq S
    BY <1>2, <1>4, <1>5, Induct
  <2>2. QED BY <2>1, <1>2
<1> DEFINE r == Walk(v, d, goal)
<1>7. WalkState(r, d, goal, q, MAX_DIR)
  BY <1>1, <1>6
<1> HIDE DEF r
<1>8. PICK q2 : Walking(r, d, goal, q, q2)
  BY <1>7 DEF WalkState
<1>9. r.res # "GO"
  BY <1>2, <1>7 DEF WalkState
<1>10. r.res \in Answers
  BY <1>8, <1>9 DEF Walking
<1>11. QED BY <1>8, <1>10 DEF r

-----------------------------------------------------------------------------
(* Names.                                                                   *)

\* A path has no NUL inside, and then none of its names has.
IsPath(p) == \E S : p \in Seq(S) /\ NUL \notin S

\* The paths the constants name are texts without a NUL.
LEMMA PlainIsPath ==
    ASSUME NEW p, Plain(p)
    PROVE  IsPath(p)
BY DEF Plain, IsPath

\* FirstOf finds a place in the sequence, or 0.
LEMMA FirstIs ==
    ASSUME NEW p, Len(p) \in Nat, NEW C
    PROVE  /\ FirstOf(p, C) \in 0..Len(p)
           /\ \A i \in 1..Len(p) : p[i] \in C => FirstOf(p, C) # 0 /\ FirstOf(p, C) <= i
<1> DEFINE F == {i \in 1..Len(p) : p[i] \in C}
<1>1. CASE F = {}
  BY <1>1 DEF FirstOf
<1>2. CASE F # {}
  <2>1. PICK m \in F : \A k \in F : m <= k
    <3>1. F \subseteq Nat
      OBVIOUS
    <3>2. QED BY <1>2, <3>1, LeastOf
  <2>2. p[m] \in C /\ m \in 1..Len(p) /\ \A k \in 1..m - 1 : p[k] \notin C
    BY <2>1
  <2>3. /\ FirstOf(p, C) \in 1..Len(p)
        /\ \A k \in 1..FirstOf(p, C) - 1 : p[k] \notin C
    BY <2>2 DEF FirstOf
  <2>4. QED BY <2>3
<1>3. QED BY <1>1, <1>2

\* What is cut from a path is a path.
LEMMA PartsOfPaths ==
    ASSUME NEW p, IsPath(p), NEW C
    PROVE  /\ IsPath(SkipSeparators(p)) /\ FirstOf(p, C) \in 0..Len(p) /\ IsPath(<<>>)
           /\ FirstOf(p, C) # 0 => IsPath(From(p, FirstOf(p, C) + 1)) /\ IsPath(From(p, FirstOf(p, C)))
                                 /\ IsPath(SubSeq(p, 1, FirstOf(p, C) - 1))
<1>1. PICK S : p \in Seq(S) /\ NUL \notin S
  BY DEF IsPath
<1>2. ASSUME NEW i \in 1..Len(p)
      PROVE  SubSeq(p, i, Len(p)) \in Seq(S) /\ SubSeq(p, i + 1, Len(p)) \in Seq(S)
  BY <1>1
<1>3. ASSUME NEW i \in 1..Len(p) PROVE SubSeq(p, 1, i - 1) \in Seq(S)
  BY <1>1
<1>4. <<>> \in Seq(S)
  OBVIOUS
<1>5. ASSUME NEW D PROVE FirstOf(p, D) \in 0..Len(p)
  <2>1. Len(p) \in Nat
    BY <1>1
  <2>2. QED BY <2>1, FirstIs
<1>6. SkipSeparators(p) \in Seq(S)
  <2> DEFINE i == FirstOf(p, Chars(p) \ Separators)
  <2>1. i \in 0..Len(p)
    BY <1>5
  <2> HIDE DEF i
  <2>2. SkipSeparators(p) = IF i = 0 THEN <<>> ELSE SubSeq(p, i, Len(p))
    BY DEF SkipSeparators, From, i
  <2>3. CASE i = 0
    BY <1>4, <2>2, <2>3
  <2>4. CASE i # 0
    <3>1. i \in 1..Len(p)
      BY <1>1, <2>1, <2>4
    <3>2. QED BY <1>2, <2>2, <2>4, <3>1
  <2>5. QED BY <2>3, <2>4
<1>7. FirstOf(p, C) # 0 => FirstOf(p, C) \in 1..Len(p)
  <2>1. Len(p) \in Nat /\ FirstOf(p, C) \in 0..Len(p)
    BY <1>1, <1>5
  <2>2. QED BY <2>1
<1>8. QED BY <1>1, <1>2, <1>3, <1>4, <1>5, <1>6, <1>7 DEF From, IsPath

\* No letter becomes a NUL or a dot.
LEMMA UpperIsLetter ==
    ASSUME NEW c, NEW x \in {NUL, "."}, c # x
    PROVE  Upper(c) # x
<1> DEFINE i == FirstOf(lower, {c})
<1>1. Len(lower) = 26
  BY DEF lower
<1>2. i \in 0..26
  <2>1. Len(lower) \in Nat
    BY <1>1
  <2> HIDE DEF lower
  <2>2. FirstOf(lower, {c}) \in 0..Len(lower)
    BY <2>1, FirstIs
  <2>3. QED BY <1>1, <2>2
<1> HIDE DEF i
<1>3. Upper(c) = IF i = 0 THEN c ELSE upper[i]
  BY DEF Upper, i
<1>4. ASSUME NEW k \in 1..26 PROVE upper[k] # x
  BY DEF upper, NUL
<1>5. QED BY <1>2, <1>3, <1>4

\* create_name never makes a name that marks its entry as free.
LEMMA NoNameIsFree ==
    ASSUME NEW body, NEW ext, IsPath(body), 1 <= Len(body) => body[1] # "."
    PROVE  FileName(body, ext)[1] \notin {NUL, DDEM, "."}
<1> DEFINE Padded(s, n) == [i \in 1..n |-> IF i <= Len(s) THEN Upper(s[i]) ELSE Blank]
           one == Padded(body, BODY)
           two == Padded(ext, EXT)
           S   == {one[i] : i \in 1..BODY} \cup {two[i] : i \in 1..EXT}
           sfn == one \o two
<1>1. PICK B : body \in Seq(B) /\ NUL \notin B
  BY DEF IsPath
<1>2. BODY \in Nat \ {0} /\ EXT \in Nat
  BY FatAssumption
<1>3. one[1] # NUL /\ one[1] # "."
  <2>1. one[1] = IF 1 <= Len(body) THEN Upper(body[1]) ELSE Blank
    BY <1>2
  <2>2. CASE 1 <= Len(body)
    <3>1. body[1] # NUL
      BY <1>1, <2>2
    <3>2. Upper(body[1]) # NUL
      BY <3>1, UpperIsLetter
    <3>3. Upper(body[1]) # "."
      BY <2>2, UpperIsLetter
    <3>4. QED BY <2>1, <2>2, <3>2, <3>3
  <2>3. CASE ~(1 <= Len(body))
    <3>1. one[1] = Blank
      BY <2>1, <2>3
    <3> HIDE DEF one
    <3>2. QED BY <3>1 DEF Blank, NUL
  <2>4. QED BY <2>2, <2>3
<1>4. one \in Seq(S) /\ Len(one) = BODY /\ two \in Seq(S)
  <2>1. one \in [1..BODY -> S] /\ two \in [1..EXT -> S]
    <3>1. DOMAIN one = 1..BODY /\ DOMAIN two = 1..EXT
      OBVIOUS
    <3> HIDE DEF one, two
    <3>2. \A i \in 1..BODY : one[i] \in S
      OBVIOUS
    <3>3. \A i \in 1..EXT : two[i] \in S
      OBVIOUS
    <3>4. one = [i \in 1..BODY |-> one[i]] /\ two = [i \in 1..EXT |-> two[i]]
      BY <3>1 DEF one, two
    <3>5. QED BY <3>2, <3>3, <3>4
  <2> HIDE DEF one, two, S
  <2>2. QED BY <1>2, <2>1
<1> HIDE DEF one, two, S
<1>5. sfn \in Seq(S) /\ Len(sfn) = BODY + EXT /\ sfn[1] = one[1]
  <2>1. Len(two) = EXT
    BY <1>2 DEF two
  <2>2. QED BY <1>2, <1>4, <2>1
<1>6. FileName(body, ext) = [sfn EXCEPT ![1] = IF @ = DDEM THEN RDDEM ELSE @]
  BY DEF FileName, one, two
<1>7. 1 \in DOMAIN sfn
  BY <1>2, <1>5
<1> HIDE DEF sfn
<1>8. FileName(body, ext)[1] = IF sfn[1] = DDEM THEN RDDEM ELSE sfn[1]
  BY <1>6, <1>7
<1>9. QED BY <1>3, <1>5, <1>8 DEF NUL, DDEM, RDDEM

\* Nor does it for a segment of a path, and what is left is a path.
LEMMA NameCreated ==
    ASSUME NEW p, IsPath(p)
    PROVE  LET n == CreateName(p) IN n.fn[1] \notin {NUL, DDEM, "."} /\ IsPath(n.rest)
<1> DEFINE stop == FirstOf(p, Separators \cup {Blank})
           seg  == IF stop = 0 THEN p ELSE SubSeq(p, 1, stop - 1)
           rest == IF stop = 0 THEN <<>> ELSE SkipSeparators(From(p, stop))
           dot  == FirstOf(seg, {"."})
           body == IF dot = 0 THEN seg ELSE SubSeq(seg, 1, dot - 1)
           ext  == IF dot = 0 THEN <<>> ELSE From(seg, dot + 1)
<1>1. IsPath(seg) /\ IsPath(rest)
  BY PartsOfPaths
<1> HIDE DEF seg, rest
<1>2. IsPath(body)
  BY <1>1, PartsOfPaths
<1>3. CreateName(p).fn = FileName(body, ext) /\ CreateName(p).rest = rest
  BY DEF CreateName, seg, rest
<1>5. 1 <= Len(body) => body[1] # "."
  <2>1. /\ Len(seg) \in Nat /\ dot \in 0..Len(seg)
        /\ \A i \in 1..Len(seg) : seg[i] \in {"."} => dot # 0 /\ dot <= i
    <3>1. Len(seg) \in Nat
      BY <1>1 DEF IsPath
    <3>2. QED BY <3>1, FirstIs
  <2> HIDE DEF dot
  <2>2. CASE dot = 0
    BY <2>1, <2>2
  <2>3. CASE dot # 0
    <3>1. PICK S : seg \in Seq(S)
      BY <1>1 DEF IsPath
    <3>2. /\ Len(SubSeq(seg, 1, dot - 1)) = dot - 1
          /\ dot > 1 => SubSeq(seg, 1, dot - 1)[1] = seg[1]
      BY <2>1, <2>3, <3>1
    <3>3. dot > 1 => seg[1] # "."
      BY <2>1
    <3>4. QED BY <2>1, <2>3, <3>2, <3>3
  <2>4. QED BY <2>2, <2>3
<1> HIDE DEF body, ext
<1>4. QED BY <1>1, <1>2, <1>3, <1>5, NoNameIsFree

-----------------------------------------------------------------------------
(* Following a path.                                                        *)

\* The segments of a path.
LEMMA SegmentRuns ==
    ASSUME NEW v, NEW d, NEW path, Len(path) \in Nat
    PROVE  \E run : /\ run = [i \in 0..Len(path) |-> IF i = 0 THEN [v |-> v, d |-> d, res |-> "GO", path |-> path]
                                 ELSE SegmentRound(run[i - 1])]
                   /\ FollowSegments(v, d, path) = [v |-> run[Len(path)].v, d |-> run[Len(path)].d, res |-> run[Len(path)].res]
<1> DEFINE Begin == [v |-> v, d |-> d, res |-> "GO", path |-> path]
           IsRun(run, n) == run = [i \in 0..n |-> IF i = 0 THEN Begin ELSE SegmentRound(run[i - 1])]
           S == {n \in 0..Len(path) : \E run : IsRun(run, n)}
<1>1. Len(path) \in Nat
  OBVIOUS
<1> HIDE DEF Begin
<1>2. 0 \in S
  <2>1. IsRun([i \in 0..0 |-> Begin], 0)
    OBVIOUS
  <2>2. 0 \in 0..Len(path)
    BY <1>1
  <2> HIDE DEF IsRun
  <2>3. QED BY <2>1, <2>2
<1>3. ASSUME NEW n \in 0..Len(path), n < Len(path), n \in S PROVE n + 1 \in S
  <2>1. PICK run : IsRun(run, n)
    BY <1>3
  <2> DEFINE longer == [i \in 0..(n + 1) |-> IF i = n + 1 THEN SegmentRound(run[n]) ELSE run[i]]
  <2>2. ASSUME NEW i \in 0..(n + 1)
        PROVE  longer[i] = IF i = 0 THEN Begin ELSE SegmentRound(longer[i - 1])
    <3>1. CASE i = n + 1
      <4>1. i # 0 /\ i - 1 = n /\ n \in 0..(n + 1) /\ n # n + 1
        BY <3>1
      <4>2. longer[i - 1] = run[n]
        BY <4>1
      <4>3. QED BY <3>1, <4>1, <4>2
    <3>2. CASE i = 0
      <4>1. i # n + 1 /\ i \in 0..n
        BY <3>2
      <4>2. longer[i] = run[i] /\ run[i] = Begin
        BY <2>1, <3>2, <4>1
      <4>3. QED BY <3>2, <4>2
    <3>3. CASE i \in 1..n
      <4>1. i # n + 1 /\ i # 0 /\ i - 1 \in 0..(n + 1) /\ i - 1 # n + 1 /\ i \in 0..n
        BY <3>3
      <4>2. longer[i] = run[i] /\ longer[i - 1] = run[i - 1]
        BY <4>1
      <4>3. run[i] = SegmentRound(run[i - 1])
        BY <2>1, <4>1
      <4>4. QED BY <4>1, <4>2, <4>3
    <3>4. QED BY <3>1, <3>2, <3>3
  <2>3. longer = [i \in 0..(n + 1) |-> longer[i]]
    OBVIOUS
  <2> HIDE DEF longer
  <2>4. IsRun(longer, n + 1)
    BY <2>2, <2>3
  <2>5. n + 1 \in 0..Len(path)
    BY <1>1, <1>3
  <2>6. QED BY <2>4, <2>5
<1>4. 0..Len(path) \subseteq S
  <2> HIDE DEF S
  <2>1. QED BY <1>1, <1>2, <1>3, Induct
<1>5. Len(path) \in S
  BY <1>1, <1>4
<1>6. \E run : run = [i \in 0..Len(path) |-> IF i = 0 THEN [v |-> v, d |-> d, res |-> "GO", path |-> path]
                                 ELSE SegmentRound(run[i - 1])]
  BY <1>5 DEF Begin
<1> DEFINE made == CHOOSE run : run = [i \in 0..Len(path) |-> IF i = 0 THEN [v |-> v, d |-> d, res |-> "GO", path |-> path]
                                 ELSE SegmentRound(run[i - 1])]
<1>7. made = [i \in 0..Len(path) |-> IF i = 0 THEN [v |-> v, d |-> d, res |-> "GO", path |-> path]
                                 ELSE SegmentRound(made[i - 1])]
  BY <1>6
<1>8. FollowSegments(v, d, path) = [v |-> made[Len(path)].v, d |-> made[Len(path)].d, res |-> made[Len(path)].res]
  BY DEF FollowSegments
<1> HIDE DEF made
<1>9. QED BY <1>7, <1>8

\* The first clusters of the directories.
DirHeads(q) == {c \in q.dirs : Begins(q.link, c)}

\* Nothing stands before the first entry of a directory.
LEMMA NothingBefore ==
    ASSUME NEW q, IsShape(q), NEW c \in DirHeads(q)
    PROVE  Earlier(q.content, q.dirs, q.first, q.nth, c, 0)
<1>1. LinksSound(q.link, q.dirs) /\ ChainsSound(q.link, q.dirs, q.first, q.nth)
  BY DEF IsShape, Sound
<1>2. c \in Clusters /\ q.first[c] = c /\ q.link[c] # 0 /\ q.nth[c] = 1
  BY <1>1 DEF LinksSound, ChainsSound, DirHeads, Begins
<1>3. \A d \in q.dirs : d \in Clusters /\ q.link[d] # 0 /\ q.nth[d] \in Nat \ {0}
  BY <1>1 DEF LinksSound, ChainsSound
<1>4. \A i \in Slots : ~(i < 0)
  BY FatAssumption DEF Slots
<1>5. QED BY <1>2, <1>3, <1>4 DEF Earlier, Before

\* dir_sdi stands at the first entry of the directory.
LEMMA WalkBegins ==
    ASSUME NEW v, NEW q, Good(v, q), NEW d, DOMAIN d = DirFields, d.sclust \in {0} \cup DirHeads(q)
    PROVE  LET s == DirSdi(v, d)
           IN  Stands(s, q) /\ s.dptr = 0 /\ s.sect # 0 /\ SameSearch(d, s) /\ s.attr = d.attr
               /\ Passed(s, q)
<1> DEFINE clst == IF d.sclust = 0 THEN ROOT ELSE d.sclust
           s    == DirSdi(v, d)
<1>1. clst \in q.dirs /\ clst \in Clusters /\ clst \in DirHeads(q) /\ IsShape(q)
  <2>1. ROOT \in DirHeads(q)
    BY DEF Good, IsShape, Sound, EntriesSound, DirHeads
  <2>2. QED BY <2>1, ShapeFacts DEF Good, DirHeads
<1> HIDE DEF clst
<1>2. Sector(v, clst) = SectAt(q.b, clst) /\ SectAt(q.b, clst) # 0
  BY <1>1, SectorIs
<1>3. s = [d EXCEPT !.dptr = 0, !.clust = clst, !.sect = Sector(v, clst)]
  BY DEF DirSdi, clst
<1>4. SameSearch(d, s) /\ s.dptr = 0 /\ s.clust = clst /\ s.sect = Sector(v, clst) /\ s.attr = d.attr
  BY <1>3 DEF SameSearch, DirFields
<1> HIDE DEF s
<1>6. Passed(s, q)
  <2>1. s.dptr % DPS = 0
    <3>1. 0 % DPS = 0
      BY FatAssumption
    <3>2. QED BY <1>4, <3>1
  <2>2. QED BY <1>1, <1>4, <2>1, NothingBefore DEF Passed
<1>5. QED BY <1>1, <1>2, <1>4, <1>6 DEF Stands, SameSearch, s

\* The entry at d is that of a file or directory, and d.attr what it is.
Found(v, d, q) ==
    /\ Stands(d, q) /\ v.winsect = d.sect /\ Live(EntryOf(d, q)) /\ d.attr = EntryOf(d, q).attr
    /\ EntryOf(d, q).name[1] # "."

InUse(fn) == fn[1] \notin {NUL, DDEM, "."}

\* dir_find changes nothing, and what it finds is a live entry of a directory.
LEMMA DirectorySearched ==
    ASSUME NEW v, NEW q, Calm(v, q), NEW d, DOMAIN d = DirFields, d.sclust \in {0} \cup DirHeads(q),
           InUse(d.fn)
    PROVE  LET r == DirFind(v, d)
           IN  /\ DOMAIN r = {"v", "d", "res"} /\ r.res \in Answers /\ SameSearch(d, r.d)
               /\ Calm(r.v, q)
               /\ r.res = "OK" => Found(r.v, r.d, q)
<1> DEFINE s == DirSdi(v, d)
           w == Walk(v, s, "name")
           r == DirFind(v, d)
<1>1. Stands(s, q) /\ s.dptr = 0 /\ s.sect # 0 /\ SameSearch(d, s)
  BY WalkBegins DEF Calm
<1>2. r = IF w.res = "OK" /\ ~IsNamed(EntryAt(w.v, w.d), d.fn) THEN [w EXCEPT !.res = "NO_FILE"] ELSE w
  BY <1>1 DEF DirFind
<1> HIDE DEF s
<1>3. PICK q2 : Walking(w, s, "name", q, q2) /\ w.res \in Answers
  <2>1. "name" # "free"
    OBVIOUS
  <2>2. QED BY <1>1, <2>1, Walked
<1>4. DOMAIN w = {"v", "d", "res"}
  BY <1>3 DEF Walking
<1> HIDE DEF w
<1>5. SameSearch(s, w.d) /\ Calm(w.v, q)
  BY <1>3 DEF Walking
<1>6. SameSearch(d, w.d)
  BY <1>1, <1>5 DEF SameSearch
<1>7. CASE w.res = "OK" /\ ~IsNamed(EntryAt(w.v, w.d), d.fn)
  <2>1. r.v = w.v /\ r.d = w.d /\ r.res = "NO_FILE" /\ DOMAIN r = DOMAIN w
    BY <1>2, <1>4, <1>7
  <2>2. QED BY <2>1, <1>4, <1>5, <1>6 DEF Answers
<1>8. CASE w.res = "OK" /\ IsNamed(EntryAt(w.v, w.d), d.fn)
  <2>1. Stands(w.d, q) /\ w.v.winsect = w.d.sect /\ w.d.attr = EntryOf(w.d, q).attr
    BY <1>3, <1>8 DEF Walking
  <2>2. EntryAt(w.v, w.d) = EntryOf(w.d, q)
    BY <1>5, <2>1, EntryShown DEF Calm
  <2>3. Live(EntryOf(w.d, q)) /\ EntryOf(w.d, q).name[1] # "."
    BY <1>8, <2>2 DEF IsNamed, Live, IsFree, InUse
  <2>4. r = w
    BY <1>2, <1>8
  <2>5. QED BY <1>3, <1>4, <1>5, <1>6, <2>1, <2>3, <2>4 DEF Found
<1>9. CASE w.res # "OK"
  BY <1>2, <1>3, <1>4, <1>5, <1>6, <1>9
<1>10. QED BY <1>7, <1>8, <1>9

SegmentState(s, q) ==
    /\ DOMAIN s = {"v", "d", "res", "path"} /\ IsPath(s.path) /\ Calm(s.v, q)
    /\ DOMAIN s.d = DirFields /\ s.d.sclust \in {0} \cup DirHeads(q) /\ s.d.noname = FALSE
    /\ s.res = "OK" => Found(s.v, s.d, q)
    /\ s.res = "NO_FILE" => InUse(s.d.fn)

\* The cluster of a directory's entry is that of a directory, or 0 for the root.
LEMMA DirectoryEntered ==
    ASSUME NEW q, IsShape(q), NEW v, NEW d, Found(v, d, q), IsDir(EntryOf(d, q))
    PROVE  EntryOf(d, q).clust \in {0} \cup DirHeads(q)
<1>1. Sound(q.link, q.content, q.dirs, q.first, q.nth)
  BY DEF IsShape
<1>2. d.clust \in q.dirs /\ d.dptr % DPS \in Slots
  BY FatAssumption DEF Found, Stands, Slots
<1>3. EntrySound(EntryOf(d, q), q.link, q.dirs, q.first, q.nth)
  BY <1>1, <1>2 DEF Sound, EntriesSound, EntryOf
<1>4. QED BY <1>3 DEF EntrySound, Found, Owns, DirHeads

\* A segment of a path leads from a directory to one.
LEMMA SegmentFollowed ==
    ASSUME NEW s, NEW q, SegmentState(s, q)
    PROVE  SegmentState(SegmentRound(s), q)
<1> DEFINE n  == CreateName(s.path)
           d1 == [s.d EXCEPT !.fn = n.fn, !.last = n.last]
           f  == DirFind(s.v, d1)
           e  == EntryAt(f.v, f.d)
           Descend(r) ==
              IF r.res = "NO_FILE" /\ ~n.last THEN [r EXCEPT !.res = "NO_PATH"]
              ELSE IF r.res # "OK" \/ n.last THEN r
              ELSE IF "DIR" \notin r.d.attr THEN [r EXCEPT !.res = "NO_PATH"]
              ELSE [r EXCEPT !.d.sclust = EntryAt(r.v, r.d).clust, !.res = "GO"]
           g  == Descend(f)
           On(r) == [v |-> r.v, d |-> r.d, res |-> r.res, path |-> n.rest]
           t  == SegmentRound(s)
<1>1. InUse(n.fn) /\ IsPath(n.rest) /\ n.res \in {"OK", "INVALID_NAME"}
  <2>1. n.res \in {"OK", "INVALID_NAME"}
    BY DEF CreateName
  <2>2. QED BY <2>1, NameCreated DEF SegmentState, InUse
<1>2. /\ t = IF s.res # "GO" THEN s ELSE IF n.res # "OK" THEN [s EXCEPT !.res = n.res] ELSE On(g)
  BY DEF SegmentRound, FollowSegment
<1> HIDE DEF n
<1>3. CASE s.res # "GO"
  BY <1>2, <1>3
<1>4. CASE s.res = "GO" /\ n.res # "OK"
  <2>1. t = [s EXCEPT !.res = "INVALID_NAME"]
    BY <1>1, <1>2, <1>4
  <2>2. t.v = s.v /\ t.d = s.d /\ t.path = s.path /\ t.res = "INVALID_NAME" /\ DOMAIN t = DOMAIN s
    BY <2>1 DEF SegmentState
  <2> HIDE DEF t
  <2>3. QED BY <2>2 DEF SegmentState, t
<1>5. CASE s.res = "GO" /\ n.res = "OK"
  <2>1. /\ DOMAIN d1 = DirFields /\ d1.fn = n.fn /\ d1.sclust \in {0} \cup DirHeads(q) /\ d1.noname = FALSE
        /\ Calm(s.v, q)
    BY DEF SegmentState, DirFields
  <2> HIDE DEF d1
  <2>2. /\ DOMAIN f = {"v", "d", "res"} /\ f.res \in Answers /\ SameSearch(d1, f.d)
        /\ Calm(f.v, q) /\ (f.res = "OK" => Found(f.v, f.d, q))
    BY <1>1, <2>1, DirectorySearched
  <2> HIDE DEF f
  <2>3. DOMAIN f.d = DirFields /\ f.d.fn = n.fn /\ f.d.sclust \in {0} \cup DirHeads(q) /\ f.d.noname = FALSE
    BY <2>1, <2>2 DEF SameSearch
  <2>4. t = [v |-> g.v, d |-> g.d, res |-> g.res, path |-> n.rest]
    BY <1>2, <1>5
  <2>5. /\ g.v = f.v /\ DOMAIN g.d = DirFields /\ g.d.fn = n.fn /\ g.d.noname = FALSE
        /\ g.d.sclust \in {0} \cup DirHeads(q) /\ (g.res = "OK" => Found(g.v, g.d, q))
    <3>1. CASE g.d = f.d /\ g.v = f.v /\ (g.res = "OK" => f.res = "OK")
      BY <2>2, <2>3, <3>1
    <3>2. CASE f.res = "NO_FILE" /\ ~n.last
      <4>1. g = [f EXCEPT !.res = "NO_PATH"]
        BY <3>2
      <4>2. g.d = f.d /\ g.v = f.v /\ g.res = "NO_PATH"
        BY <2>2, <4>1
      <4>3. QED BY <3>1, <4>2
    <3>3. CASE ~(f.res = "NO_FILE" /\ ~n.last) /\ (f.res # "OK" \/ n.last)
      <4>1. g = f
        BY <3>3
      <4>2. QED BY <3>1, <4>1
    <3>4. CASE f.res = "OK" /\ ~n.last /\ "DIR" \notin f.d.attr
      <4>1. g = [f EXCEPT !.res = "NO_PATH"]
        BY <3>4
      <4>2. g.d = f.d /\ g.v = f.v /\ g.res = "NO_PATH"
        BY <2>2, <4>1
      <4>3. QED BY <3>1, <4>2
    <3>5. CASE f.res = "OK" /\ ~n.last /\ "DIR" \in f.d.attr
      <4>1. g = [f EXCEPT !.d.sclust = e.clust, !.res = "GO"]
        BY <3>5
      <4>2. Found(f.v, f.d, q) /\ Good(f.v, q) /\ IsShape(q)
        BY <2>2, <3>5 DEF Calm, Good
      <4>3. e = EntryOf(f.d, q) /\ IsDir(EntryOf(f.d, q))
        BY <3>5, <4>2, EntryShown DEF Found, IsDir
      <4>4. e.clust \in {0} \cup DirHeads(q)
        BY <4>2, <4>3, DirectoryEntered
      <4> HIDE DEF e
      <4>5. g.v = f.v /\ g.d = [f.d EXCEPT !.sclust = e.clust] /\ g.res = "GO"
        BY <2>2, <4>1
      <4> HIDE DEF g
      <4>6. DOMAIN g.d = DirFields /\ g.d.fn = n.fn /\ g.d.noname = FALSE /\ g.d.sclust = e.clust
        BY <2>3, <4>5 DEF DirFields
      <4>7. QED BY <4>4, <4>5, <4>6
    <3>6. QED BY <3>2, <3>3, <3>4, <3>5
  <2> HIDE DEF g
  <2>6. t.v = g.v /\ t.d = g.d /\ t.res = g.res /\ t.path = n.rest /\ DOMAIN t = {"v", "d", "res", "path"}
    BY <2>4
  <2> HIDE DEF t
  <2>7. QED BY <1>1, <2>2, <2>5, <2>6 DEF SegmentState, t
<1>6. QED BY <1>3, <1>4, <1>5

\* What following a path comes to.
FollowedTo(r, q) ==
    /\ DOMAIN r = {"v", "d", "res"} /\ Calm(r.v, q)
    /\ DOMAIN r.d = DirFields /\ r.d.sclust \in {0} \cup DirHeads(q) /\ r.d.noname \in BOOLEAN
    /\ r.res = "OK" /\ ~r.d.noname => Found(r.v, r.d, q)
    /\ r.res = "NO_FILE" => InUse(r.d.fn)

\* And so do all segments.
LEMMA SegmentsFollowed ==
    ASSUME NEW v, NEW q, NEW d, NEW path, Calm(v, q), IsPath(path), DOMAIN d = DirFields,
           d.sclust = 0, d.noname = FALSE
    PROVE  FollowedTo(FollowSegments(v, d, path), q)
<1> DEFINE Begin == [v |-> v, d |-> d, res |-> "GO", path |-> path]
           N == Len(path)
           r == FollowSegments(v, d, path)
<1>0. N \in Nat
  BY DEF IsPath
<1>1. PICK run : /\ run = [i \in 0..N |-> IF i = 0 THEN Begin ELSE SegmentRound(run[i - 1])]
                 /\ r = [v |-> run[N].v, d |-> run[N].d, res |-> run[N].res]
  BY <1>0, SegmentRuns
<1> DEFINE S == {i \in 0..N : SegmentState(run[i], q)}
<1>2. SegmentState(Begin, q)
  BY DEF SegmentState
<1> HIDE DEF Begin, r, N
<1>3. 0 \in S
  BY <1>0, <1>1, <1>2
<1>4. ASSUME NEW i \in 0..N, i < N, i \in S PROVE i + 1 \in S
  <2>1. run[i + 1] = SegmentRound(run[i])
    BY <1>0, <1>1, <1>4
  <2>2. SegmentState(run[i + 1], q)
    BY <2>1, <1>4, SegmentFollowed
  <2>3. QED BY <2>2, <1>0, <1>4
<1>5. N \in S
  <2> HIDE DEF S
  <2>1. 0..N \subseteq S
    BY <1>0, <1>3, <1>4, Induct
  <2>2. QED BY <2>1, <1>0
<1>6. SegmentState(run[N], q)
  BY <1>5
<1>7. r.v = run[N].v /\ r.d = run[N].d /\ r.res = run[N].res /\ DOMAIN r = {"v", "d", "res"}
  BY <1>1
<1>8. FollowedTo(r, q)
  BY <1>6, <1>7 DEF FollowedTo, SegmentState
<1>9. QED BY <1>8 DEF r

\* follow_path changes nothing, and what it finds is a live entry of a directory.
LEMMA PathFollowed ==
    ASSUME NEW v, NEW q, NEW path, Calm(v, q), IsPath(path)
    PROVE  FollowedTo(FollowPath(v, path), q)
<1> DEFINE p == SkipSeparators(path)
           d == Directory(0)
           d1 == [d EXCEPT !.noname = TRUE]
           s == DirSdi(v, d1)
           r == FollowPath(v, path)
<1>1. /\ DOMAIN d = DirFields /\ d.sclust = 0 /\ d.noname = FALSE
      /\ DOMAIN d1 = DirFields /\ d1.sclust = 0 /\ d1.noname = TRUE
  BY DEF Directory, DirFields
<1> HIDE DEF d, d1
<1>2. IsPath(p)
  BY PartsOfPaths
<1>3. r = IF p = <<>> THEN [v |-> v, d |-> s, res |-> IF s.sect = 0 THEN "INT_ERR" ELSE "OK"]
          ELSE FollowSegments(v, d, p)
  BY DEF FollowPath, d1, d
<1> HIDE DEF p
<1>4. CASE p = <<>>
  <2>1. Stands(s, q) /\ SameSearch(d1, s)
    BY <1>1, WalkBegins DEF Calm
  <2> HIDE DEF s
  <2>2. DOMAIN s = DirFields /\ s.sclust = 0 /\ s.noname = TRUE
    BY <1>1, <2>1 DEF SameSearch
  <2>3. r = [v |-> v, d |-> s, res |-> IF s.sect = 0 THEN "INT_ERR" ELSE "OK"]
    BY <1>3, <1>4
  <2>4. r.v = v /\ r.d = s /\ r.res # "NO_FILE" /\ DOMAIN r = {"v", "d", "res"}
    BY <2>3
  <2> HIDE DEF r
  <2>5. QED BY <2>2, <2>4 DEF FollowedTo, r
<1>5. CASE p # <<>>
  BY <1>1, <1>2, <1>3, <1>5, SegmentsFollowed
<1>6. QED BY <1>4, <1>5

\* A call with a path: the drive, the volume, the path.
LEMMA PathLocated ==
    ASSUME NEW v, NEW q, NEW path, Calm(v, q), IsPath(path)
    PROVE  FollowedTo(Located(Opening(v, path)), q)
<1> DEFINE drive == Drive(path)
           colon == FirstOf(path, {":", Blank})
<1>1. IsPath(drive.path)
  <2>1. colon # 0 => IsPath(From(path, colon + 1))
    BY PartsOfPaths
  <2>2. drive.path = IF colon = 0 \/ path[colon] # ":" THEN path ELSE From(path, colon + 1)
    BY DEF Drive
  <2> HIDE DEF colon, drive
  <2>3. QED BY <2>1, <2>2
<1> HIDE DEF drive
<1>2. MountVolume(v) = [v |-> v, res |-> "OK"]
  BY DEF MountVolume, Calm, Good, IsVolume
<1>3. CASE drive.ok
  <2>1. Opening(v, path) = [v |-> v, path |-> drive.path, res |-> "OK"]
    BY <1>2, <1>3 DEF Opening, drive
  <2>2. Located(Opening(v, path)) = FollowPath(v, drive.path)
    BY <2>1 DEF Located
  <2>3. QED BY <1>1, <2>2, PathFollowed
<1>4. CASE ~drive.ok
  <2>1. Opening(v, path) = [v |-> v, path |-> path, res |-> "INVALID_DRIVE"]
    BY <1>4 DEF Opening, drive
  <2>2. Located(Opening(v, path)) = [v |-> v, d |-> Directory(0), res |-> "INVALID_DRIVE"]
    BY <2>1 DEF Located
  <2>3. DOMAIN Directory(0) = DirFields /\ Directory(0).sclust = 0 /\ Directory(0).noname = FALSE
    BY DEF Directory, DirFields
  <2> DEFINE r == Located(Opening(v, path))
  <2>4. r.v = v /\ r.d = Directory(0) /\ r.res = "INVALID_DRIVE" /\ DOMAIN r = {"v", "d", "res"}
    BY <2>2
  <2> HIDE DEF r
  <2>5. FollowedTo(r, q)
    BY <2>3, <2>4 DEF FollowedTo
  <2>6. QED BY <2>5 DEF r
<1>5. QED BY <1>3, <1>4

-----------------------------------------------------------------------------
(* An entry is written, and a file created or emptied.                      *)

EntryFields == {"name", "attr", "clust", "size"}

\* The entry of a file that may stand in a directory of the shape q.
Fits(e, q) ==
    /\ DOMAIN e = EntryFields /\ e.size \in Nat /\ Live(e) /\ ~IsDir(e) /\ e.name[1] # "."
    /\ \/ e.clust = 0 /\ e.size = 0
       \/ /\ Loose(q.link, q.content, q.dirs, e.clust)
          /\ SizeFits(q.link, q.first, q.nth, e.clust, e.size)

\* The chain that the entry e owns.
OwnedBy(e) == IF Owns(e) THEN {e.clust} ELSE {}

PutIn(q, q2, k, j, e) ==
    /\ IsShape(q2) /\ q2.b = q.b /\ q2.base = q.base /\ q2.due = q.due /\ q2.dirs = q.dirs /\ q2.link = q.link
    /\ q2.first = q.first /\ q2.nth = q.nth
    /\ q2.lost = (q.lost \ {e.clust}) \cup OwnedBy(q.content[k][j])
    /\ q2.content = [q.content EXCEPT ![k] = [q.content[k] EXCEPT ![j] = e]]

\* The entry j of k may be written: it is no entry behind the end.
InReach(q, k, j) == IsEnd(q.content[k][j]) => Earlier(q.content, q.dirs, q.first, q.nth, k, j)

\* An entry that fits, put in the place of one that may go; the chain of that one is loose then.
LEMMA EntryMayStand ==
    ASSUME NEW q, IsShape(q), NEW k \in q.dirs, NEW j \in Slots, NEW e, Fits(e, q), InReach(q, k, j)
    PROVE  \E q2 : /\ PutIn(q, q2, k, j, e)
                   /\ Owns(q.content[k][j]) /\ ~IsDir(q.content[k][j]) /\ q.content[k][j].clust # e.clust
                        => Loose(q2.link, q2.content, q2.dirs, q.content[k][j].clust)
<1> DEFINE content2 == [q.content EXCEPT ![k] = [q.content[k] EXCEPT ![j] = e]]
           lost2 == (q.lost \ {e.clust}) \cup OwnedBy(q.content[k][j])
           q2 == [b |-> q.b, base |-> q.base, due |-> q.due, lost |-> lost2, dirs |-> q.dirs,
                  link |-> q.link, content |-> content2,
                  first |-> q.first, nth |-> q.nth]
<1>1. /\ IsLink(q.link) /\ IsLink(q.content) /\ DOMAIN q.first = Clusters /\ DOMAIN q.nth = Clusters
      /\ Sound(q.link, q.content, q.dirs, q.first, q.nth) /\ q.b \in Nat /\ q.due \in Int
  BY DEF IsShape
<1>2. /\ DOMAIN e = {"name", "attr", "clust", "size"} /\ e.size \in Nat /\ Live(e) /\ ~IsDir(e)
      /\ \/ e.clust = 0 /\ e.size = 0
         \/ Loose(q.link, q.content, q.dirs, e.clust) /\ SizeFits(q.link, q.first, q.nth, e.clust, e.size)
  BY DEF Fits, EntryFields
<1>3. /\ Sound(q.link, content2, q.dirs, q.first, q.nth)
      /\ Owns(q.content[k][j]) /\ ~IsDir(q.content[k][j]) /\ q.content[k][j].clust # e.clust
            => Loose(q.link, content2, q.dirs, q.content[k][j].clust)
      /\ Untended(q.link, content2, q.dirs)
            \subseteq (Untended(q.link, q.content, q.dirs) \ {e.clust})
                      \cup (IF Owns(q.content[k][j]) THEN {q.content[k][j].clust} ELSE {})
      /\ \A level : Tidy(q.content, q.dirs, q.first, q.nth, level) /\ e.name[1] # "."
                     /\ (IsEnd(q.content[k][j]) => Earlier(q.content, q.dirs, q.first, q.nth, k, j))
            => Tidy(content2, q.dirs, q.first, q.nth, level)
  BY <1>1, <1>2, EntrySet
<1>4. IsLink(content2)
  BY <1>1 DEF IsLink
<1> HIDE DEF content2
<1>9. Tended(q2)
  <2>1. SUFFICES ASSUME q.base.whole
                 PROVE  /\ Tidy(content2, q.dirs, q.first, q.nth, q.base.level)
                        /\ Untended(q.link, content2, q.dirs) \subseteq lost2
    BY DEF Tended
  <2>2. /\ Tidy(q.content, q.dirs, q.first, q.nth, q.base.level)
        /\ Untended(q.link, q.content, q.dirs) \subseteq q.lost
    BY <2>1 DEF IsShape, Tended
  <2>3. e.name[1] # "."
    BY DEF Fits
  <2>4. QED BY <1>3, <2>2, <2>3 DEF InReach, OwnedBy
<1>5. IsShape(q2)
  BY <1>1, <1>3, <1>4, <1>9 DEF IsShape
<1>6. PutIn(q, q2, k, j, e)
  BY <1>5 DEF PutIn, content2
<1>7. q2.link = q.link /\ q2.content = content2 /\ q2.dirs = q.dirs
  OBVIOUS
<1> HIDE DEF q2
<1>8. QED BY <1>3, <1>6, <1>7

\* The entry j of the window's sector is changed to e.
Entering(v, w, q, k, j, e) ==
    /\ Good(v, q) /\ k \in q.dirs /\ j \in Slots /\ v.winsect = SectAt(q.b, k) /\ Fits(e, q)
    /\ InReach(q, k, j)
    /\ w = [v EXCEPT !.win[j] = e, !.wflag = TRUE]

\* The same in the window.
LEMMA EntryPut ==
    ASSUME NEW v, NEW w, NEW q, NEW k, NEW j, NEW e, Entering(v, w, q, k, j, e)
    PROVE  \E q2 : /\ PutIn(q, q2, k, j, e) /\ Good(w, q2) /\ Alike(v, w) /\ w.winsect = v.winsect
                   /\ q2.content[k][j] = e
                   /\ Owns(q.content[k][j]) /\ ~IsDir(q.content[k][j]) /\ q.content[k][j].clust # e.clust
                        => Loose(q2.link, q2.content, q2.dirs, q.content[k][j].clust)
<1>1. /\ Good(v, q) /\ k \in q.dirs /\ j \in Slots /\ v.winsect = SectAt(q.b, k) /\ Fits(e, q)
      /\ InReach(q, k, j)
      /\ w = [v EXCEPT !.win[j] = e, !.wflag = TRUE] /\ IsShape(q)
  BY DEF Entering, Good
<1>2. k \in Clusters /\ DOMAIN q.content = Clusters /\ DOMAIN q.content[k] = Slots
  BY <1>1, ShapeFacts
<1>3. v.win = q.content[k]
  BY <1>1, <1>2, InWindow
<1> DEFINE x == [q.content[k] EXCEPT ![j] = e]
<1>4. w = [v EXCEPT !.win = x, !.wflag = TRUE]
  BY <1>1, <1>3
<1>5. PICK q2 :
         /\ PutIn(q, q2, k, j, e)
         /\ Owns(q.content[k][j]) /\ ~IsDir(q.content[k][j]) /\ q.content[k][j].clust # e.clust
                        => Loose(q2.link, q2.content, q2.dirs, q.content[k][j].clust)
  BY <1>1, EntryMayStand
<1>6. Refilled(q, q2, k, x)
  BY <1>5 DEF PutIn, Refilled
<1>7. q2.content[k][j] = e
  BY <1>1, <1>2, <1>5 DEF PutIn
<1> HIDE DEF x
<1>8. Good(w, q2) /\ Alike(v, w) /\ w.winsect = v.winsect
  <2>1. Changed(v, w, q, q2, k, x)
    BY <1>1, <1>4, <1>6 DEF Changed
  <2>2. QED BY <2>1, EntryWritten
<1>9. QED BY <1>5, <1>7, <1>8

\* The window shows the entry of a file without clusters, or of one to be emptied.
Shown(v, d, q) ==
    /\ Good(v, q) /\ Stands(d, q) /\ v.winsect = d.sect /\ q.due = 0 /\ q.lost = {}
    /\ Live(EntryOf(d, q)) /\ ~IsDir(EntryOf(d, q)) /\ EntryOf(d, q).name[1] # "."

Settled(v, q) == Good(v, q) /\ v.wflag = FALSE /\ v.fsi_flag = 0 /\ q.due = 0 /\ q.lost = {}

OnDisk(q, q2) == q2.b = q.b /\ q2.base = q.base /\ q2.due = q.due

\* What creating a file comes to.
CreatedIn(r, q, q2) ==
    /\ OnDisk(q, q2)
    /\ r.res # "OK" => Settled(r.v, q2)
    /\ r.res = "OK" => Shown(r.v, r.d, q2)

\* dir_register puts an entry without a cluster in a free place, or refuses.
LEMMA Registered ==
    ASSUME NEW v, NEW q, Calm(v, q), NEW d, DOMAIN d = DirFields, d.sclust \in {0} \cup DirHeads(q),
           InUse(d.fn)
    PROVE  LET r == DirRegister(v, d)
           IN  DOMAIN r = {"v", "d", "res"} /\ \E q2 : CreatedIn(r, q, q2)
<1> DEFINE s == DirSdi(v, d)
           w == Walk(v, s, "free")
           a == DirAlloc(v, d)
           e == [NoEntry EXCEPT !.name = d.fn]
           u == SetEntry(MoveWindow(a.v, a.d.sect), a.d, [NoEntry EXCEPT !.name = d.fn])
           r == DirRegister(v, d)
<1>0. d.fn = d.fn
  OBVIOUS
<1>1. Stands(s, q) /\ s.dptr = 0 /\ s.sect # 0 /\ SameSearch(d, s) /\ Passed(s, q)
  BY WalkBegins DEF Calm
<1>2. a = IF w.res = "NO_FILE" THEN [w EXCEPT !.res = "DENIED"] ELSE w
  BY <1>1 DEF DirAlloc
<1> HIDE DEF s
<1>3. PICK q2 : Walking(w, s, "free", q, q2) /\ w.res \in Answers
  BY <1>1, Walked
<1>4. /\ DOMAIN w = {"v", "d", "res"} /\ SameSearch(s, w.d) /\ Within(q, q2) /\ Good(w.v, q2)
      /\ w.v.wflag = FALSE /\ q2.due = 0 /\ q2.lost = {}
      /\ w.res = "OK" => /\ Stands(w.d, q2) /\ w.v.winsect = w.d.sect
                         /\ Passed(w.d, q2) /\ IsFree(EntryOf(w.d, q2))
      /\ w.res # "OK" => w.v.fsi_flag = 0
  <2>1. q.lost = {}
    BY DEF Calm
  <2>2. QED BY <1>3, <2>1 DEF Walking, Answers, Within, Stops
<1> HIDE DEF w
<1>5. /\ DOMAIN a = {"v", "d", "res"} /\ a.v = w.v /\ a.d = w.d /\ (a.res = "OK" <=> w.res = "OK")
  BY <1>2, <1>4
<1>6. a.d.fn = d.fn
  BY <1>1, <1>4, <1>5 DEF SameSearch
<1>7. r = IF a.res # "OK" THEN a ELSE [a EXCEPT !.v = u]
  BY DEF DirRegister
<1> HIDE DEF a
<1>8. CASE a.res # "OK"
  <2>1. r = a /\ Settled(r.v, q2) /\ OnDisk(q, q2)
    BY <1>4, <1>5, <1>7, <1>8 DEF Settled, OnDisk, Within
  <2>2. CreatedIn(r, q, q2)
    BY <1>8, <2>1 DEF CreatedIn
  <2>3. QED BY <1>5, <2>1, <2>2
<1>9. CASE a.res = "OK"
  <2> DEFINE k == a.d.clust
             j == a.d.dptr % DPS
             x == MoveWindow(a.v, a.d.sect)
  <2>1. Stands(a.d, q2) /\ a.v.winsect = a.d.sect /\ Good(a.v, q2) /\ OnDisk(q, q2) /\ q2.due = 0
        /\ Passed(a.d, q2) /\ IsFree(EntryOf(a.d, q2))
    BY <1>4, <1>5, <1>9 DEF OnDisk, Within
  <2>2. x = a.v
    BY <2>1 DEF MoveWindow
  <2>3. u = [a.v EXCEPT !.win[j] = e, !.wflag = TRUE]
    BY <1>6, <2>2 DEF SetEntry
  <2>4. DOMAIN e = EntryFields /\ e.name = d.fn /\ e.attr = {} /\ e.clust = 0 /\ e.size = 0
    BY DEF NoEntry, EntryFields
  <2> HIDE DEF e
  <2>5. Fits(e, q2)
    BY <2>4 DEF Fits, Live, IsFree, IsDir, InUse
  <2>6. j \in Slots /\ k \in q2.dirs /\ a.d.sect = SectAt(q2.b, k)
    <3>1. a.d.dptr \in Nat /\ k \in q2.dirs /\ a.d.sect = SectAt(q2.b, k)
      BY <2>1 DEF Stands
    <3>2. DPS \in Nat \ {0}
      BY FatAssumption
    <3>3. QED BY <3>1, <3>2 DEF Slots
  <2>14. InReach(q2, k, j) /\ OwnedBy(q2.content[k][j]) = {}
    BY <2>1 DEF InReach, OwnedBy, Owns, Live, Passed, EntryOf
  <2> HIDE DEF u, x
  <2>7. Entering(a.v, u, q2, k, j, e)
    BY <2>1, <2>3, <2>5, <2>6, <2>14 DEF Entering
  <2> HIDE DEF k, j
  <2>8. PICK q3 : PutIn(q2, q3, k, j, e) /\ Good(u, q3) /\ u.winsect = a.v.winsect /\ q3.content[k][j] = e
    BY <2>7, EntryPut
  <2>9. r.v = u /\ r.d = a.d /\ r.res = "OK" /\ DOMAIN r = {"v", "d", "res"}
    <3> HIDE DEF r
    <3>1. r = [a EXCEPT !.v = u]
      BY <1>7, <1>9, Zenon
    <3>2. QED BY <1>5, <1>9, <3>1
  <2> HIDE DEF r
  <2>10. Stands(r.d, q3) /\ r.v.winsect = r.d.sect /\ EntryOf(r.d, q3) = e /\ OnDisk(q, q3)
         /\ q3.due = 0 /\ q3.lost = {}
    <3>1. /\ q3.b = q2.b /\ q3.base = q2.base /\ q3.due = q2.due /\ q3.dirs = q2.dirs
          /\ q3.lost = (q2.lost \ {e.clust}) \cup OwnedBy(q2.content[k][j])
      BY <2>8 DEF PutIn
    <3>2. Stands(a.d, q3)
      BY <2>1, <3>1 DEF Stands
    <3>3. EntryOf(a.d, q3) = q3.content[k][j]
      BY DEF EntryOf, k, j
    <3>4. OnDisk(q, q3)
      BY <2>1, <3>1 DEF OnDisk
    <3>5. q3.due = 0 /\ q3.lost = {}
      BY <1>4, <2>1, <2>14, <3>1
    <3>6. r.v.winsect = r.d.sect
      BY <2>1, <2>8, <2>9
    <3>7. QED BY <2>8, <2>9, <3>2, <3>3, <3>4, <3>5, <3>6
  <2>11. Shown(r.v, r.d, q3)
    BY <2>5, <2>8, <2>9, <2>10 DEF Shown, Fits
  <2>12. CreatedIn(r, q, q3)
    BY <2>9, <2>10, <2>11 DEF CreatedIn
  <2>13. QED BY <2>9, <2>12 DEF r
<1>10. QED BY <1>8, <1>9

\* What is known of an entry that is shown.
LEMMA ShownEntry ==
    ASSUME NEW v, NEW d, NEW q, Shown(v, d, q)
    PROVE  /\ DOMAIN EntryOf(d, q) = EntryFields /\ EntryAt(v, d) = EntryOf(d, q)
           /\ d.clust \in q.dirs /\ d.dptr % DPS \in Slots
           /\ EntryOf(d, q) = q.content[d.clust][d.dptr % DPS]
<1>1. Good(v, q) /\ Stands(d, q) /\ v.winsect = d.sect
  BY DEF Shown
<1>2. Sound(q.link, q.content, q.dirs, q.first, q.nth)
  BY <1>1 DEF Good, IsShape
<1>3. d.clust \in q.dirs /\ d.dptr % DPS \in Slots
  BY <1>1, FatAssumption DEF Stands, Slots
<1>4. EntrySound(EntryOf(d, q), q.link, q.dirs, q.first, q.nth)
  BY <1>2, <1>3 DEF Sound, EntriesSound, EntryOf
<1>5. EntryAt(v, d) = EntryOf(d, q)
  BY <1>1, EntryShown
<1>6. QED BY <1>3, <1>4, <1>5 DEF EntrySound, EntryFields, EntryOf

\* The window shows the entry of a file that has no clusters.
ShownEmpty(v, d, q) == Shown(v, d, q) /\ EntryOf(d, q).clust = 0 /\ EntryOf(d, q).size = 0

\* The entry is emptied, and then the chain is freed: the shape holds throughout.
LEMMA Truncated ==
    ASSUME NEW v, NEW d, NEW q, Shown(v, d, q)
    PROVE  LET t == Truncate(v, d)
           IN  t.res = "OK" /\ \E q2 : OnDisk(q, q2) /\ ShownEmpty(t.v, d, q2)
<1> DEFINE k  == d.clust
           j  == d.dptr % DPS
           e  == EntryAt(v, d)
           e2 == [e EXCEPT !.attr = {"ARC"}, !.clust = 0, !.size = 0]
           w  == SetEntry(v, d, e2)
           r  == RemoveChain(w, e.clust)
           m  == MoveWindow(r.v, w.winsect)
           n  == [m EXCEPT !.last_clst = e.clust - 1]
           t  == Truncate(v, d)
<1>1. /\ Good(v, q) /\ Stands(d, q) /\ v.winsect = d.sect /\ Live(e) /\ ~IsDir(e)
      /\ q.due = 0 /\ q.lost = {} /\ e.name[1] # "."
      /\ DOMAIN e = EntryFields /\ k \in q.dirs /\ j \in Slots /\ e = q.content[k][j]
  <2>1. /\ DOMAIN EntryOf(d, q) = EntryFields /\ e = EntryOf(d, q) /\ k \in q.dirs /\ j \in Slots
        /\ EntryOf(d, q) = q.content[k][j]
    BY ShownEntry
  <2> HIDE DEF e, k, j
  <2>2. /\ Good(v, q) /\ Stands(d, q) /\ v.winsect = d.sect /\ q.due = 0 /\ q.lost = {}
        /\ Live(EntryOf(d, q)) /\ ~IsDir(EntryOf(d, q)) /\ EntryOf(d, q).name[1] # "."
    BY DEF Shown
  <2>3. QED BY <2>1, <2>2
<1>2. t = IF e.clust = 0 THEN [v |-> w, res |-> "OK"]
          ELSE IF ~r.ok THEN [v |-> r.v, res |-> "INT_ERR"] ELSE [v |-> n, res |-> "OK"]
  <2> HIDE DEF j, k
  <2>1. QED BY DEF Truncate
<1>4. w = [v EXCEPT !.win[j] = e2, !.wflag = TRUE]
  <2> HIDE DEF e2
  <2>1. QED BY DEF SetEntry
<1> HIDE DEF e, k, j, w, r, m, n, t
<1>3. DOMAIN e2 = EntryFields /\ e2.name = e.name /\ e2.attr = {"ARC"} /\ e2.clust = 0 /\ e2.size = 0
  BY <1>1 DEF EntryFields
<1> HIDE DEF e2
<1>14. Live(e2) /\ ~IsDir(e2)
  <2>1. Live(e) /\ e2.name = e.name /\ e2.attr = {"ARC"}
    BY <1>1, <1>3
  <2>2. Live(e2)
    BY <2>1 DEF Live, IsFree, IsEnd
  <2>3. ~IsDir(e2)
    BY <2>1 DEF IsDir
  <2>4. QED BY <2>2, <2>3
<1>5. Fits(e2, q)
  <2>1. DOMAIN e2 = EntryFields /\ e2.size \in Nat /\ e2.name[1] # "." /\ e2.clust = 0 /\ e2.size = 0
    BY <1>1, <1>3
  <2>2. QED BY <1>14, <2>1 DEF Fits
<1>13. InReach(q, k, j)
  BY <1>1 DEF InReach, Live, IsFree, IsEnd
<1>6. Entering(v, w, q, k, j, e2)
  <2>1. v.winsect = SectAt(q.b, k)
    BY <1>1 DEF Stands, k
  <2>2. QED BY <1>1, <1>4, <1>5, <1>13, <2>1 DEF Entering
<1>7. PICK q1 : /\ PutIn(q, q1, k, j, e2) /\ Good(w, q1) /\ w.winsect = v.winsect /\ q1.content[k][j] = e2
                /\ Owns(q.content[k][j]) /\ ~IsDir(q.content[k][j]) /\ q.content[k][j].clust # e2.clust
                     => Loose(q1.link, q1.content, q1.dirs, q.content[k][j].clust)
  BY <1>6, EntryPut
<1>8. /\ Stands(d, q1) /\ EntryOf(d, q1) = e2 /\ OnDisk(q, q1)
  <2>1. q1.b = q.b /\ q1.base = q.base /\ q1.due = q.due /\ q1.dirs = q.dirs
    BY <1>7 DEF PutIn
  <2>2. EntryOf(d, q1) = q1.content[k][j]
    BY DEF EntryOf, k, j
  <2>3. Stands(d, q1)
    BY <1>1, <2>1 DEF Stands
  <2>4. OnDisk(q, q1)
    BY <2>1 DEF OnDisk
  <2>5. QED BY <1>7, <2>2, <2>3, <2>4
<1>9. Live(e2) /\ ~IsDir(e2) /\ e2.name[1] # "." /\ q1.lost = OwnedBy(e)
  <2>1. q1.lost = (q.lost \ {e2.clust}) \cup OwnedBy(q.content[k][j])
    BY <1>7 DEF PutIn
  <2>2. q1.lost = OwnedBy(e)
    BY <1>1, <2>1
  <2>3. QED BY <1>1, <1>3, <1>14, <2>2
<1>10. CASE e.clust = 0
  <2>0. q1.due = 0 /\ q1.lost = {}
    <3>1. q1.due = q.due
      BY <1>7 DEF PutIn
    <3>2. OwnedBy(e) = {}
      BY <1>10 DEF OwnedBy, Owns
    <3>3. QED BY <1>1, <1>9, <3>1, <3>2
  <2>1. ShownEmpty(w, d, q1)
    <3>1. w.winsect = d.sect /\ Good(w, q1)
      BY <1>1, <1>7
    <3>2. Shown(w, d, q1)
      BY <1>8, <1>9, <2>0, <3>1 DEF Shown
    <3>3. QED BY <1>3, <1>8, <3>2 DEF ShownEmpty
  <2>2. t.v = w /\ t.res = "OK"
    BY <1>2, <1>10
  <2>3. QED BY <1>8, <2>1, <2>2 DEF t
<1>11. CASE e.clust # 0
  <2>1. Owns(e)
    BY <1>1, <1>11 DEF Owns
  <2>14. /\ Owns(q.content[k][j]) /\ ~IsDir(q.content[k][j]) /\ q.content[k][j].clust = e.clust
         /\ e.clust # e2.clust
    BY <1>1, <1>3, <1>11, <2>1
  <2>2. Loose(q1.link, q1.content, q1.dirs, e.clust)
    <3>1. Loose(q1.link, q1.content, q1.dirs, q.content[k][j].clust)
      BY <1>7, <2>14
    <3>2. QED BY <2>14, <3>1
  <2>0. q1.due = 0 /\ q1.lost = {e.clust}
    <3>1. q1.due = q.due
      BY <1>7 DEF PutIn
    <3>2. OwnedBy(e) = {e.clust}
      BY <2>1 DEF OwnedBy
    <3>3. QED BY <1>1, <1>9, <3>1, <3>2
  <2>3. r.ok = TRUE /\ \E q2 : Kept(q1, q2) /\ Good(r.v, q2) /\ q2.lost = {}
    <3>1. Good(w, q1)
      BY <1>7
    <3>2. QED BY <2>0, <2>2, <3>1, ChainRemoved DEF r
  <2>4. PICK q2 : Kept(q1, q2) /\ Good(r.v, q2) /\ q2.lost = {}
    BY <2>3
  <2>5. Good(m, q2) /\ m.winsect = w.winsect
    BY <2>4, WindowMoved DEF m
  <2>6. DOMAIN m = Fields /\ m.fsi_flag \in {0, 1} /\ q2.due = 0
    BY <2>0, <2>4, <2>5 DEF Good, IsVolume, Kept
  <2>7. Recounted(m, n, q2)
    <3>1. q2.base.whole => m.free_clst = m.free_clst + q2.due
      BY <2>4, <2>5, <2>6, FreeAreCounted DEF Good, Tallied, Kept, IsShape
    <3>2. QED BY <3>1, <2>6 DEF n, Recounted, CountsDue, Fields
  <2> DEFINE q3 == [q2 EXCEPT !.due = 0]
  <2>8. Good(n, q3) /\ n.winsect = w.winsect
    BY <2>5, <2>7, CountsChanged DEF Recounted
  <2>13. Kept(q1, q3) /\ q3.due = 0 /\ q3.b = q2.b /\ q3.lost = {}
    BY <2>0, <2>4, <2>8 DEF Good, Kept, IsShape
  <2> HIDE DEF q3
  <2>9. t.v = n /\ t.res = "OK"
    BY <1>2, <1>11, <2>3
  <2>10. Stands(d, q3) /\ EntryOf(d, q3) = e2 /\ OnDisk(q, q3)
    <3>1. /\ q3.b = q1.b /\ q3.base = q1.base /\ q3.dirs = q1.dirs /\ q3.content = q1.content
      BY <2>13 DEF Kept
    <3>2. Stands(d, q3)
      BY <1>8, <3>1 DEF Stands
    <3>3. EntryOf(d, q3) = EntryOf(d, q1)
      BY <3>1 DEF EntryOf
    <3>4. OnDisk(q, q3)
      BY <1>1, <1>8, <2>13, <3>1 DEF OnDisk
    <3>5. QED BY <1>8, <3>2, <3>3, <3>4
  <2>11. ShownEmpty(n, d, q3)
    <3>1. n.winsect = d.sect
      BY <1>1, <1>7, <2>8
    <3>2. Shown(n, d, q3)
      BY <1>9, <2>8, <2>10, <2>13, <3>1 DEF Shown
    <3>3. QED BY <1>3, <2>10, <3>2 DEF ShownEmpty
  <2>12. QED BY <2>9, <2>10, <2>11 DEF t
<1>12. QED BY <1>10, <1>11

\* What opening a file to be created comes to.
CreatedEmpty(r, q, q2) ==
    /\ OnDisk(q, q2)
    /\ r.res # "OK" => Settled(r.v, q2)
    /\ r.res = "OK" => ShownEmpty(r.v, r.d, q2)

\* f_open to create: a file without clusters, new or emptied, or a refusal.
LEMMA OpenedToCreate ==
    ASSUME NEW f, NEW q, FollowedTo(f, q)
    PROVE  \E q2 : CreatedEmpty(OpenToCreate(f), q, q2)
<1> DEFINE g == IF f.res = "NO_FILE" THEN DirRegister(f.v, f.d) ELSE f
           t == Truncate(g.v, g.d)
           r == OpenToCreate(f)
<1>1. /\ DOMAIN f = {"v", "d", "res"} /\ Calm(f.v, q) /\ Settled(f.v, q) /\ OnDisk(q, q)
      /\ DOMAIN f.d = DirFields /\ f.d.sclust \in {0} \cup DirHeads(q) /\ f.d.noname \in BOOLEAN
      /\ (f.res = "OK" /\ ~f.d.noname => Found(f.v, f.d, q))
      /\ (f.res = "NO_FILE" => InUse(f.d.fn))
  BY DEF FollowedTo, Calm, Settled, OnDisk
<1>2. r = IF f.res = "OK" /\ f.d.noname THEN [f EXCEPT !.res = "INVALID_NAME"]
          ELSE IF f.res = "OK" /\ f.d.attr \cap {"RDO", "DIR"} # {} THEN [f EXCEPT !.res = "DENIED"]
          ELSE IF g.res # "OK" THEN g ELSE [g EXCEPT !.v = t.v, !.res = t.res]
  BY DEF OpenToCreate
<1>3. CASE f.res = "OK" /\ (f.d.noname \/ f.d.attr \cap {"RDO", "DIR"} # {})
  <2>1. r \in {[f EXCEPT !.res = "INVALID_NAME"], [f EXCEPT !.res = "DENIED"]}
    BY <1>2, <1>3
  <2>2. r.v = f.v /\ r.res # "OK"
    BY <1>1, <2>1
  <2>3. CreatedEmpty(r, q, q)
    BY <1>1, <2>2 DEF CreatedEmpty
  <2>4. QED BY <2>3
<1>4. CASE ~(f.res = "OK" /\ (f.d.noname \/ f.d.attr \cap {"RDO", "DIR"} # {}))
  <2>1. r = IF g.res # "OK" THEN g ELSE [g EXCEPT !.v = t.v, !.res = t.res]
    BY <1>2, <1>4
  <2>2. DOMAIN g = {"v", "d", "res"} /\ \E q1 : CreatedIn(g, q, q1)
    <3>1. CASE f.res = "NO_FILE"
      BY <1>1, <3>1, Registered
    <3>2. CASE f.res = "OK"
      <4>1. Found(f.v, f.d, q) /\ ~("DIR" \in f.d.attr)
        BY <1>1, <1>4, <3>2
      <4>2. Shown(f.v, f.d, q)
        BY <1>1, <4>1 DEF Shown, Found, IsDir, Calm
      <4>3. g = f
        BY <3>2
      <4>4. CreatedIn(f, q, q)
        BY <1>1, <3>2, <4>2 DEF CreatedIn
      <4>5. QED BY <1>1, <4>3, <4>4
    <3>3. CASE f.res # "NO_FILE" /\ f.res # "OK"
      <4>1. g = f
        BY <3>3
      <4>2. CreatedIn(f, q, q)
        BY <1>1, <3>3 DEF CreatedIn
      <4>3. QED BY <1>1, <4>1, <4>2
    <3>4. QED BY <3>1, <3>2, <3>3
  <2> HIDE DEF g
  <2>3. PICK q1 : CreatedIn(g, q, q1)
    BY <2>2
  <2>4. CASE g.res # "OK"
    <3>1. CreatedEmpty(r, q, q1)
      BY <2>1, <2>3, <2>4 DEF CreatedIn, CreatedEmpty
    <3>2. QED BY <3>1
  <2>5. CASE g.res = "OK"
    <3>1. Shown(g.v, g.d, q1) /\ OnDisk(q, q1)
      BY <2>3, <2>5 DEF CreatedIn
    <3>2. PICK q2 : t.res = "OK" /\ OnDisk(q1, q2) /\ ShownEmpty(t.v, g.d, q2)
      BY <3>1, Truncated
    <3> HIDE DEF t
    <3>3. r.v = t.v /\ r.d = g.d /\ r.res = "OK"
      BY <2>1, <2>2, <2>5, <3>2
    <3> HIDE DEF r
    <3>4. CreatedEmpty(r, q, q2)
      BY <3>1, <3>2, <3>3 DEF CreatedEmpty, OnDisk
    <3>5. QED BY <3>4 DEF r
  <2>6. QED BY <2>4, <2>5
<1>5. QED BY <1>3, <1>4

FileFields == {"valid", "sclust", "objsize", "flag", "fptr", "clust", "sect", "buf", "dir_sect", "dir_ptr"}

\* The entry j of the cluster k is that of a file.
Home(q, k, j) ==
    k \in q.dirs /\ j \in Slots /\ DOMAIN q.content[k][j] = EntryFields
    /\ Live(q.content[k][j]) /\ ~IsDir(q.content[k][j]) /\ q.content[k][j].name[1] # "."
    /\ q.content[k][j].clust = 0

\* An open file that is to be written, and was not closed yet.
Handle(fp, q, k, j) ==
    /\ DOMAIN fp = FileFields /\ fp.valid = TRUE /\ "MODIFIED" \in fp.flag
    /\ fp.dir_sect = SectAt(q.b, k) /\ fp.dir_ptr = j

\* The file object that f_open returns for it.
LEMMA Created ==
    ASSUME NEW v, NEW q, NEW path, Calm(v, q), IsPath(path)
    PROVE  LET o == FOpen(v, path, {"W", "CREATE"})
           IN  /\ o.res # "OK" => \E q2 : OnDisk(q, q2) /\ Settled(o.v, q2)
               /\ o.res = "OK" => \E q2, k, j :
                    /\ OnDisk(q, q2) /\ Good(o.v, q2) /\ q2.due = 0 /\ q2.lost = {}
                    /\ o.v.winsect \in Windowed(q2) /\ Home(q2, k, j)
                    /\ Handle(o.fp, q2, k, j) /\ "DIRTY" \notin o.fp.flag
                    /\ o.fp.sclust = 0 /\ o.fp.objsize = 0 /\ o.fp.fptr = 0
<1> DEFINE mode == {"W", "CREATE"}
           f == Located(Opening(v, path))
           r == OpenToCreate(f)
           e == EntryAt(r.v, r.d)
           fp == [NoFile EXCEPT !.valid = TRUE, !.sclust = e.clust, !.objsize = e.size,
                           !.flag = IF "CREATE" \in mode THEN {"W", "MODIFIED"} ELSE mode,
                           !.dir_sect = r.v.winsect, !.dir_ptr = r.d.dptr % DPS]
           o == FOpen(v, path, mode)
<1>1. o = [v |-> r.v, res |-> r.res, fp |-> IF r.res = "OK" THEN fp ELSE NoFile]
  BY DEF FOpen, OpenAs
<1>2. FollowedTo(f, q)
  BY PathLocated
<1> HIDE DEF f
<1>3. PICK q2 : CreatedEmpty(r, q, q2)
  BY <1>2, OpenedToCreate
<1> HIDE DEF r
<1>4. CASE r.res # "OK"
  BY <1>1, <1>3, <1>4 DEF CreatedEmpty
<1>5. CASE r.res = "OK"
  <2> DEFINE k == r.d.clust
             j == r.d.dptr % DPS
  <2>1. /\ OnDisk(q, q2) /\ Shown(r.v, r.d, q2) /\ EntryOf(r.d, q2).clust = 0 /\ EntryOf(r.d, q2).size = 0
    BY <1>3, <1>5 DEF CreatedEmpty, ShownEmpty
  <2>2. /\ DOMAIN EntryOf(r.d, q2) = EntryFields /\ e = EntryOf(r.d, q2)
        /\ k \in q2.dirs /\ j \in Slots /\ EntryOf(r.d, q2) = q2.content[k][j]
    <3> HIDE DEF k, j
    <3>1. Shown(r.v, r.d, q2)
      BY <2>1
    <3>2. /\ DOMAIN EntryOf(r.d, q2) = EntryFields /\ EntryAt(r.v, r.d) = EntryOf(r.d, q2)
          /\ r.d.clust \in q2.dirs /\ r.d.dptr % DPS \in Slots
          /\ EntryOf(r.d, q2) = q2.content[r.d.clust][r.d.dptr % DPS]
      BY <3>1, ShownEntry
    <3>3. QED BY <3>2 DEF k, j
  <2> HIDE DEF e, k, j
  <2>3. Good(r.v, q2) /\ q2.due = 0 /\ q2.lost = {} /\ r.v.winsect = SectAt(q2.b, k) /\ Live(e) /\ ~IsDir(e)
        /\ e.name[1] # "."
    <3>1. /\ Good(r.v, q2) /\ Stands(r.d, q2) /\ r.v.winsect = r.d.sect /\ q2.due = 0 /\ q2.lost = {}
          /\ Live(EntryOf(r.d, q2)) /\ ~IsDir(EntryOf(r.d, q2)) /\ EntryOf(r.d, q2).name[1] # "."
      BY <2>1 DEF Shown
    <3>2. r.v.winsect = SectAt(q2.b, k)
      BY <3>1 DEF Stands, k
    <3>3. QED BY <2>2, <3>1, <3>2
  <2>4. Home(q2, k, j)
    BY <2>1, <2>2, <2>3 DEF Home
  <2>5. r.v.winsect \in Windowed(q2)
    BY <2>2, <2>3 DEF Windowed
  <2>6. /\ DOMAIN fp = FileFields /\ fp.valid = TRUE /\ fp.flag = {"W", "MODIFIED"} /\ fp.sclust = e.clust
        /\ fp.objsize = e.size /\ fp.fptr = 0 /\ fp.dir_sect = r.v.winsect /\ fp.dir_ptr = j
    BY DEF NoFile, FileFields, j
  <2> HIDE DEF fp
  <2>7. Handle(fp, q2, k, j) /\ "DIRTY" \notin fp.flag /\ fp.sclust = 0 /\ fp.objsize = 0 /\ fp.fptr = 0
    BY <2>1, <2>2, <2>3, <2>6 DEF Handle
  <2>8. o.v = r.v /\ o.fp = fp /\ o.res = "OK"
    BY <1>1, <1>5
  <2> HIDE DEF o
  <2>9. QED BY <2>1, <2>3, <2>4, <2>5, <2>7, <2>8 DEF o
<1>6. QED BY <1>4, <1>5

-----------------------------------------------------------------------------
(* A file is written, sector by sector.                                     *)

\* The sectors that f_write writes to.
LEMMA WriteRuns ==
    ASSUME NEW v, NEW fp, NEW data, Len(data) \in Nat
    PROVE  \E run : /\ run = [i \in 0..Len(data) |-> IF i = 0 THEN [v |-> v, fp |-> fp, data |-> data, res |-> "OK", more |-> TRUE]
                                 ELSE WriteRound(run[i - 1])]
                   /\ WriteLoop(v, fp, data) = run[Len(data)]
<1> DEFINE Begin == [v |-> v, fp |-> fp, data |-> data, res |-> "OK", more |-> TRUE]
           IsRun(run, n) == run = [i \in 0..n |-> IF i = 0 THEN Begin ELSE WriteRound(run[i - 1])]
           S == {n \in 0..Len(data) : \E run : IsRun(run, n)}
<1>1. Len(data) \in Nat
  OBVIOUS
<1> HIDE DEF Begin
<1>2. 0 \in S
  <2>1. IsRun([i \in 0..0 |-> Begin], 0)
    OBVIOUS
  <2>2. 0 \in 0..Len(data)
    BY <1>1
  <2> HIDE DEF IsRun
  <2>3. QED BY <2>1, <2>2
<1>3. ASSUME NEW n \in 0..Len(data), n < Len(data), n \in S PROVE n + 1 \in S
  <2>1. PICK run : IsRun(run, n)
    BY <1>3
  <2> DEFINE longer == [i \in 0..(n + 1) |-> IF i = n + 1 THEN WriteRound(run[n]) ELSE run[i]]
  <2>2. ASSUME NEW i \in 0..(n + 1)
        PROVE  longer[i] = IF i = 0 THEN Begin ELSE WriteRound(longer[i - 1])
    <3>1. CASE i = n + 1
      <4>1. i # 0 /\ i - 1 = n /\ n \in 0..(n + 1) /\ n # n + 1
        BY <3>1
      <4>2. longer[i - 1] = run[n]
        BY <4>1
      <4>3. QED BY <3>1, <4>1, <4>2
    <3>2. CASE i = 0
      <4>1. i # n + 1 /\ i \in 0..n
        BY <3>2
      <4>2. longer[i] = run[i] /\ run[i] = Begin
        BY <2>1, <3>2, <4>1
      <4>3. QED BY <3>2, <4>2
    <3>3. CASE i \in 1..n
      <4>1. i # n + 1 /\ i # 0 /\ i - 1 \in 0..(n + 1) /\ i - 1 # n + 1 /\ i \in 0..n
        BY <3>3
      <4>2. longer[i] = run[i] /\ longer[i - 1] = run[i - 1]
        BY <4>1
      <4>3. run[i] = WriteRound(run[i - 1])
        BY <2>1, <4>1
      <4>4. QED BY <4>1, <4>2, <4>3
    <3>4. QED BY <3>1, <3>2, <3>3
  <2>3. longer = [i \in 0..(n + 1) |-> longer[i]]
    OBVIOUS
  <2> HIDE DEF longer
  <2>4. IsRun(longer, n + 1)
    BY <2>2, <2>3
  <2>5. n + 1 \in 0..Len(data)
    BY <1>1, <1>3
  <2>6. QED BY <2>4, <2>5
<1>4. 0..Len(data) \subseteq S
  <2> HIDE DEF S
  <2>1. QED BY <1>1, <1>2, <1>3, Induct
<1>5. Len(data) \in S
  BY <1>1, <1>4
<1>6. \E run : run = [i \in 0..Len(data) |-> IF i = 0 THEN [v |-> v, fp |-> fp, data |-> data, res |-> "OK", more |-> TRUE]
                                 ELSE WriteRound(run[i - 1])]
  BY <1>5 DEF Begin
<1> DEFINE made == CHOOSE run : run = [i \in 0..Len(data) |-> IF i = 0 THEN [v |-> v, fp |-> fp, data |-> data, res |-> "OK", more |-> TRUE]
                                 ELSE WriteRound(run[i - 1])]
<1>7. made = [i \in 0..Len(data) |-> IF i = 0 THEN [v |-> v, fp |-> fp, data |-> data, res |-> "OK", more |-> TRUE]
                                 ELSE WriteRound(made[i - 1])]
  BY <1>6
<1>8. WriteLoop(v, fp, data) = made[Len(data)]
  BY DEF WriteLoop
<1> HIDE DEF made
<1>9. QED BY <1>7, <1>8

\* The sectors that hold n bytes.
Full(n) == (n + SS - 1) \div SS

\* A number by the size of a sector.
LEMMA Divided ==
    ASSUME NEW x \in Nat
    PROVE  x = SS * (x \div SS) + (x % SS) /\ x \div SS \in Nat /\ x % SS \in 0..SS - 1
BY FatAssumption

\* The quotient is known from the remainder.
LEMMA QuotientIs ==
    ASSUME NEW a \in Nat, NEW r \in 0..SS - 1
    PROVE  (SS * a + r) \div SS = a
<1>1. SS \in Nat /\ SS > 0 /\ SS * a \in Nat /\ r \in Nat /\ r < SS
  BY FatAssumption
<1> DEFINE x == SS * a + r
           b == x \div SS
<1>2. x \in Nat
  BY <1>1
<1>3. SS * a + r = SS * b + (x % SS) /\ b \in Nat /\ x % SS \in 0..SS - 1
  BY <1>2, Divided
<1> HIDE DEF b
<1>4. PICK t \in 0..SS - 1 : SS * a + r = SS * b + t
  BY <1>3
<1>5. SS * b \in Nat
  BY <1>1, <1>3
<1>6. ASSUME a >= b + 1 PROVE FALSE
  <2>1. SS * a >= SS * (b + 1)
    BY <1>1, <1>3, <1>6
  <2>2. SS * (b + 1) = SS * b + SS
    BY <1>1, <1>3
  <2>3. QED BY <2>1, <2>2, <1>1, <1>4, <1>5
<1>7. ASSUME b >= a + 1 PROVE FALSE
  <2>1. SS * b >= SS * (a + 1)
    BY <1>1, <1>3, <1>7
  <2>2. SS * (a + 1) = SS * a + SS
    BY <1>1
  <2>3. QED BY <2>1, <2>2, <1>1, <1>4, <1>5
<1>8. a = b
  BY <1>3, <1>6, <1>7
<1>9. QED BY <1>8 DEF b

\* A sector is begun at its first byte, and no other byte begins one.
LEMMA FullOf ==
    ASSUME NEW f \in Nat
    PROVE  /\ Full(0) = 0
           /\ \A n \in 1..SS : f % SS = 0 => Full(f + n) = Full(f) + 1
           /\ \A n \in 1..SS - (f % SS) : f % SS # 0 => Full(f + n) = Full(f)
<1> DEFINE a == f \div SS
           o == f % SS
<1>1. SS \in Nat /\ SS > 0
  BY FatAssumption
<1>2. f = SS * a + o /\ a \in Nat /\ o \in 0..SS - 1
  BY Divided
<1> HIDE DEF a, o
<1>3. SS * a \in Nat /\ SS * (a + 1) = SS * a + SS /\ SS * 0 = 0
  BY <1>1, <1>2
<1>4. Full(0) = 0
  <2>1. 0 + SS - 1 = SS * 0 + (SS - 1) /\ SS - 1 \in 0..SS - 1
    BY <1>1, <1>3
  <2>2. (SS * 0 + (SS - 1)) \div SS = 0
    BY <2>1, QuotientIs
  <2>3. QED BY <2>1, <2>2 DEF Full
<1>5. ASSUME o = 0 PROVE Full(f) = a
  <2>1. f + SS - 1 = SS * a + (SS - 1) /\ SS - 1 \in 0..SS - 1
    BY <1>1, <1>2, <1>3, <1>5
  <2>2. (SS * a + (SS - 1)) \div SS = a
    BY <2>1, <1>2, QuotientIs
  <2>3. QED BY <2>1, <2>2 DEF Full
<1>6. ASSUME o = 0, NEW n \in 1..SS PROVE Full(f + n) = a + 1
  <2>1. f + n + SS - 1 = SS * (a + 1) + (n - 1) /\ n - 1 \in 0..SS - 1 /\ a + 1 \in Nat
    BY <1>1, <1>2, <1>3, <1>6
  <2>2. (SS * (a + 1) + (n - 1)) \div SS = a + 1
    BY <2>1, QuotientIs
  <2>3. QED BY <2>1, <2>2 DEF Full
<1>7. ASSUME o # 0, NEW n \in 0..SS - o PROVE Full(f + n) = a + 1
  <2>1. f + n + SS - 1 = SS * (a + 1) + (o + n - 1) /\ o + n - 1 \in 0..SS - 1 /\ a + 1 \in Nat
    BY <1>1, <1>2, <1>3, <1>7
  <2>2. (SS * (a + 1) + (o + n - 1)) \div SS = a + 1
    BY <2>1, QuotientIs
  <2>3. QED BY <2>1, <2>2 DEF Full
<1>8. o # 0 => Full(f) = a + 1
  <2>1. 0 \in 0..SS - o /\ f + 0 = f
    BY <1>1, <1>2
  <2>2. QED BY <2>1, <1>7
<1>9. 1..SS - o \subseteq 0..SS - o
  BY <1>1, <1>2
<1>10. QED BY <1>4, <1>5, <1>6, <1>7, <1>8, <1>9 DEF o

-----------------------------------------------------------------------------
(* What the clusters of a file hold.                                        *)

\* q2 is q but for what clusters of files hold.
DataChanged(q, q2) ==
    /\ IsShape(q2) /\ q2.b = q.b /\ q2.base = q.base /\ q2.due = q.due /\ q2.dirs = q.dirs /\ q2.link = q.link
    /\ q2.first = q.first /\ q2.nth = q.nth /\ q2.lost = q.lost
    /\ \A c \in q.dirs : q2.content[c] = q.content[c]

\* What a cluster of a file holds may change.
LEMMA DataKept ==
    ASSUME NEW q, IsShape(q), NEW k \in Clusters, k \notin q.dirs, NEW x
    PROVE  \E q2 : Refilled(q, q2, k, x) /\ DataChanged(q, q2)
<1> DEFINE content2 == [q.content EXCEPT ![k] = x]
           q2 == [b |-> q.b, base |-> q.base, due |-> q.due, lost |-> q.lost, dirs |-> q.dirs,
                  link |-> q.link, content |-> content2,
                  first |-> q.first, nth |-> q.nth]
<1>1. /\ IsLink(q.link) /\ IsLink(q.content) /\ DOMAIN q.first = Clusters /\ DOMAIN q.nth = Clusters
      /\ Sound(q.link, q.content, q.dirs, q.first, q.nth) /\ q.b \in Nat /\ q.due \in Int
  BY DEF IsShape
<1>2. \A c \in q.dirs : content2[c] = q.content[c]
  BY <1>1 DEF Sound, LinksSound, IsLink
<1>3. Sound(q.link, content2, q.dirs, q.first, q.nth)
  BY <1>1, <1>2, DataSound
<1>4. IsLink(content2)
  BY <1>1 DEF IsLink
<1> HIDE DEF content2
<1>9. Tended(q2)
  <2>1. SUFFICES ASSUME q.base.whole
                 PROVE  /\ Tidy(content2, q.dirs, q.first, q.nth, q.base.level)
                        /\ Untended(q.link, content2, q.dirs) \subseteq q.lost
    BY DEF Tended
  <2>2. /\ Tidy(q.content, q.dirs, q.first, q.nth, q.base.level)
        /\ Untended(q.link, q.content, q.dirs) \subseteq q.lost
    BY <2>1 DEF IsShape, Tended
  <2>3. Tidy(content2, q.dirs, q.first, q.nth, q.base.level)
    BY <1>2, <2>2, TidyAlike
  <2>4. Untended(q.link, content2, q.dirs) \subseteq Untended(q.link, q.content, q.dirs)
    BY <1>2 DEF Untended
  <2>5. QED BY <2>2, <2>3, <2>4
<1>5. IsShape(q2)
  BY <1>1, <1>3, <1>4, <1>9 DEF IsShape
<1>6. Refilled(q, q2, k, x)
  BY <1>5 DEF Refilled, content2
<1>7. DataChanged(q, q2)
  BY <1>2, <1>5 DEF DataChanged
<1>8. QED BY <1>6, <1>7

\* The chain of an open file has the clusters that its bytes so far need.
Chained(fp, q) ==
    /\ fp.clust \in Clusters \ q.dirs /\ q.link[fp.clust] = EOC
    /\ q.first[fp.clust] = fp.sclust /\ q.nth[fp.clust] = Full(fp.fptr)
    /\ Loose(q.link, q.content, q.dirs, fp.sclust)

\* What the buffer holds goes to a cluster of no directory.
Buffered(fp, q) ==
    "DIRTY" \in fp.flag => \E c \in Clusters \ q.dirs : fp.sect = SectAt(q.b, c)

Opened(v, fp, q, k, j) ==
    /\ Good(v, q) /\ v.winsect \in Windowed(q) /\ Home(q, k, j) /\ Handle(fp, q, k, j)
    /\ Buffered(fp, q) /\ q.due = 0 /\ q.lost \subseteq {fp.sclust} \ {0}

\* Such a change leaves entries, chains and the open file as they are.
LEMMA TouchedLeaves ==
    ASSUME NEW q, IsShape(q), NEW q2, DataChanged(q, q2)
    PROVE  /\ Windowed(q2) = Windowed(q) /\ OnDisk(q, q2)
           /\ \A k, j : Home(q, k, j) => Home(q2, k, j)
           /\ \A fp, k, j : Handle(fp, q, k, j) => Handle(fp, q2, k, j)
           /\ \A fp : Chained(fp, q) => Chained(fp, q2)
           /\ \A fp : Buffered(fp, q) => Buffered(fp, q2)
<1>1. /\ q2.b = q.b /\ q2.base = q.base /\ q2.due = q.due /\ q2.dirs = q.dirs /\ q2.link = q.link
      /\ q2.first = q.first /\ q2.nth = q.nth /\ q2.lost = q.lost /\ \A c \in q.dirs : q2.content[c] = q.content[c]
  BY DEF DataChanged
<1>2. Windowed(q2) = Windowed(q)
  BY <1>1 DEF Windowed, Table
<1>3. \A c : Loose(q.link, q.content, q.dirs, c) => Loose(q2.link, q2.content, q2.dirs, c)
  BY <1>1 DEF Loose
<1>4. \A fp : Chained(fp, q) => Chained(fp, q2)
  BY <1>1, <1>3 DEF Chained
<1>5. QED BY <1>1, <1>2, <1>4 DEF OnDisk, Home, Handle, Buffered

\* A sector of a file is written past the window.
LEMMA SectorWritten ==
    ASSUME NEW v, NEW fp, NEW q, NEW k, NEW j, Opened(v, fp, q, k, j), NEW c \in Clusters \ q.dirs, NEW x
    PROVE  LET w == DiskWrite(v, SectAt(q.b, c), x)
           IN  \E q2 : DataChanged(q, q2) /\ Opened(w, fp, q2, k, j)
<1> DEFINE w == DiskWrite(v, SectAt(q.b, c), x)
<1>1. Good(v, q) /\ IsShape(q) /\ v.winsect \in Windowed(q) /\ c \in Clusters /\ c \notin q.dirs
  BY DEF Opened, Good
<1>2. PICK q2 : Refilled(q, q2, c, x) /\ DataChanged(q, q2)
  BY <1>1, DataKept
<1>3. Good(w, q2) /\ w.winsect = v.winsect
  BY <1>1, <1>2, DataWritten
<1> HIDE DEF w
<1>4. /\ Windowed(q2) = Windowed(q) /\ (Home(q, k, j) => Home(q2, k, j))
      /\ (Handle(fp, q, k, j) => Handle(fp, q2, k, j)) /\ (Buffered(fp, q) => Buffered(fp, q2))
      /\ q2.due = q.due /\ q2.lost = q.lost
  BY <1>1, <1>2, TouchedLeaves DEF OnDisk, DataChanged
<1>5. Opened(w, fp, q2, k, j)
  BY <1>3, <1>4 DEF Opened
<1>6. QED BY <1>2, <1>5 DEF w

\* The fields that writing back the buffer changes.
SameFile(fp, fp2) ==
    /\ DOMAIN fp2 = DOMAIN fp /\ fp2.valid = fp.valid /\ fp2.sclust = fp.sclust /\ fp2.objsize = fp.objsize
    /\ fp2.fptr = fp.fptr /\ fp2.clust = fp.clust
    /\ fp2.dir_sect = fp.dir_sect /\ fp2.dir_ptr = fp.dir_ptr

\* A dirty buffer goes to its sector.
LEMMA BufferFlushed ==
    ASSUME NEW s, {"v", "fp"} \subseteq DOMAIN s, NEW q, NEW k, NEW j, Opened(s.v, s.fp, q, k, j)
    PROVE  LET f == FlushBuf(s)
           IN  /\ DOMAIN f = DOMAIN s /\ \A x \in DOMAIN s \ {"v", "fp"} : f[x] = s[x]
               /\ SameFile(s.fp, f.fp) /\ "DIRTY" \notin f.fp.flag
               /\ \E q2 : DataChanged(q, q2) /\ Opened(f.v, f.fp, q2, k, j)
<1>1. CASE "DIRTY" \notin s.fp.flag
  <2>1. FlushBuf(s) = s
    BY <1>1 DEF FlushBuf
  <2>2. DataChanged(q, q)
    BY DEF DataChanged, Opened, Good
  <2>3. QED BY <1>1, <2>1, <2>2 DEF SameFile
<1>2. CASE "DIRTY" \in s.fp.flag
  <2> DEFINE w == DiskWrite(s.v, s.fp.sect, s.fp.buf)
             g == [s.fp EXCEPT !.flag = @ \ {"DIRTY"}]
             f == FlushBuf(s)
  <2>1. f = [s EXCEPT !.v = w, !.fp.flag = @ \ {"DIRTY"}]
    BY <1>2 DEF FlushBuf
  <2>2. f.v = w /\ f.fp = g /\ DOMAIN f = DOMAIN s /\ \A x \in DOMAIN s \ {"v", "fp"} : f[x] = s[x]
    BY <2>1
  <2>3. PICK c \in Clusters \ q.dirs : s.fp.sect = SectAt(q.b, c)
    BY <1>2 DEF Opened, Buffered
  <2>4. PICK q2 : DataChanged(q, q2) /\ Opened(w, s.fp, q2, k, j)
    BY <2>3, SectorWritten
  <2>5. DOMAIN s.fp = FileFields /\ s.fp.valid = TRUE /\ "MODIFIED" \in s.fp.flag
    BY DEF Opened, Handle
  <2>6. SameFile(s.fp, g) /\ g.flag = s.fp.flag \ {"DIRTY"}
    BY <2>5 DEF SameFile, FileFields
  <2> HIDE DEF w, g, f
  <2>7. Opened(w, g, q2, k, j)
    BY <2>4, <2>5, <2>6 DEF Opened, Handle, Buffered, SameFile
  <2>8. QED BY <2>2, <2>4, <2>6, <2>7 DEF f
<1>3. QED BY <1>1, <1>2

StateFields == {"v", "fp", "data", "res", "more"}

IsText(data) == \E S : data \in Seq(S)

\* f_write between two passes.
Writing(s, q, k, j) ==
    /\ DOMAIN s = StateFields /\ Opened(s.v, s.fp, q, k, j) /\ IsText(s.data)
    /\ s.fp.fptr \in Nat /\ s.fp.objsize = s.fp.fptr

WriteState(s, q, k, j) ==
    /\ Writing(s, q, k, j)
    /\ s.fp.fptr = 0 => s.fp.sclust = 0
    /\ s.fp.fptr # 0 => Chained(s.fp, q)
    /\ s.fp.fptr % SS # 0 => "DIRTY" \in s.fp.flag

\* f_write at the boundary of a cluster: the cluster that it enters is the chain's last.
Entered(s, q, k, j) ==
    /\ Writing(s, q, k, j) /\ s.fp.fptr % SS = 0 /\ s.data # <<>>
    /\ s.fp.clust \in Clusters \ q.dirs /\ q.link[s.fp.clust] = EOC
    /\ q.first[s.fp.clust] = s.fp.sclust /\ q.nth[s.fp.clust] = Full(s.fp.fptr) + 1
    /\ Loose(q.link, q.content, q.dirs, s.fp.sclust)

\* What is left of a text is a text.
LEMMA TextLeft ==
    ASSUME NEW data, IsText(data), NEW n \in 0..Len(data)
    PROVE  IsText(SubSeq(data, n + 1, Len(data)))
<1>1. PICK S : data \in Seq(S)
  BY DEF IsText
<1>2. SubSeq(data, n + 1, Len(data)) \in Seq(S)
  BY <1>1
<1>3. QED BY <1>2 DEF IsText

\* A text that is not empty has a character.
LEMMA TextLength ==
    ASSUME NEW data, IsText(data)
    PROVE  Len(data) \in Nat /\ (data # <<>> => Len(data) > 0)
<1>1. PICK S : data \in Seq(S)
  BY DEF IsText
<1>2. QED BY <1>1

\* What stays the same when bytes are put to the file.
SameChain(fp, fp2) ==
    /\ DOMAIN fp2 = DOMAIN fp /\ fp2.valid = fp.valid /\ fp2.sclust = fp.sclust
    /\ fp2.clust = fp.clust /\ fp2.dir_sect = fp.dir_sect /\ fp2.dir_ptr = fp.dir_ptr
    /\ fp2.sect = fp.sect

\* The bookkeeping of a pass of f_write.
LEMMA BytesCounted ==
    ASSUME NEW s, NEW q, NEW k, NEW j, Writing(s, q, k, j), NEW n \in 0..Len(s.data)
    PROVE  LET w == Wrote(s, n)
           IN  /\ DOMAIN w = StateFields /\ w.v = s.v /\ w.res = s.res /\ w.more = s.more
               /\ IsText(w.data) /\ SameChain(s.fp, w.fp) /\ w.fp.flag = s.fp.flag
               /\ w.fp.fptr = s.fp.fptr + n /\ w.fp.objsize = s.fp.fptr + n
<1> DEFINE g == [s.fp EXCEPT !.fptr = @ + n, !.objsize = IF s.fp.fptr + n > @ THEN s.fp.fptr + n ELSE @]
           w == Wrote(s, n)
<1>1. /\ DOMAIN s = StateFields /\ DOMAIN s.fp = FileFields /\ s.fp.fptr \in Nat
      /\ s.fp.objsize = s.fp.fptr /\ IsText(s.data) /\ Len(s.data) \in Nat
  BY TextLength DEF Writing, Opened, Handle
<1>2. /\ DOMAIN w = StateFields /\ w.v = s.v /\ w.res = s.res /\ w.more = s.more
      /\ w.data = SubSeq(s.data, n + 1, Len(s.data)) /\ w.fp = g
  BY <1>1 DEF Wrote, StateFields
<1>3. /\ DOMAIN g = DOMAIN s.fp /\ g.fptr = s.fp.fptr + n
      /\ g.objsize = IF s.fp.fptr + n > s.fp.objsize THEN s.fp.fptr + n ELSE s.fp.objsize
      /\ SameChain(s.fp, g) /\ g.flag = s.fp.flag
  BY <1>1 DEF FileFields, SameChain
<1>4. g.objsize = s.fp.fptr + n
  BY <1>1, <1>3
<1>5. IsText(w.data)
  BY <1>1, <1>2, TextLeft
<1> HIDE DEF g, w
<1>6. QED BY <1>2, <1>3, <1>4, <1>5 DEF w

\* A pass that ends in the buffer.
LEMMA BytesPut ==
    ASSUME NEW s, NEW q, NEW k, NEW j, Writing(s, q, k, j), s.data # <<>>
    PROVE  LET w == PutBytes(s)
           IN  /\ DOMAIN w = StateFields /\ w.v = s.v /\ w.res = s.res /\ w.more = s.more
               /\ IsText(w.data) /\ SameChain(s.fp, w.fp) /\ w.fp.flag = s.fp.flag \cup {"DIRTY"}
               /\ \E n \in 1..SS - (s.fp.fptr % SS) : w.fp.fptr = s.fp.fptr + n /\ w.fp.objsize = s.fp.fptr + n
<1> DEFINE ofs == s.fp.fptr % SS
           n   == Least(SS - ofs, Len(s.data))
           u   == Wrote(s, n)
           x   == [i \in 1..SS |-> IF i \in ofs + 1..ofs + n THEN s.data[i - ofs] ELSE u.fp.buf[i]]
           g   == [u.fp EXCEPT !.buf = x, !.flag = @ \cup {"DIRTY"}]
           w   == PutBytes(s)
<1>1. /\ s.fp.fptr \in Nat /\ IsText(s.data) /\ Len(s.data) \in Nat /\ Len(s.data) > 0
      /\ DOMAIN s.fp = FileFields
  BY TextLength DEF Writing, Opened, Handle
<1>2. ofs \in 0..SS - 1 /\ SS \in Nat
  BY <1>1, FatAssumption
<1>3. n \in 1..SS - ofs /\ n \in 0..Len(s.data)
  <2> HIDE DEF ofs
  <2>1. QED BY <1>1, <1>2 DEF Least
<1>4. w = [u EXCEPT !.fp.buf = [i \in 1..SS |-> IF i \in ofs + 1..ofs + n THEN s.data[i - ofs] ELSE @[i]],
                    !.fp.flag = @ \cup {"DIRTY"}]
  BY DEF PutBytes
<1> HIDE DEF n
<1>5. /\ DOMAIN u = StateFields /\ u.v = s.v /\ u.res = s.res /\ u.more = s.more
      /\ IsText(u.data) /\ SameChain(s.fp, u.fp) /\ u.fp.flag = s.fp.flag
      /\ u.fp.fptr = s.fp.fptr + n /\ u.fp.objsize = s.fp.fptr + n
  BY <1>3, BytesCounted
<1> HIDE DEF u
<1>6. /\ DOMAIN w = StateFields /\ w.v = u.v /\ w.res = u.res /\ w.more = u.more /\ w.data = u.data
      /\ w.fp = g
  BY <1>4, <1>5 DEF StateFields
<1> HIDE DEF w, x
<1>7. /\ DOMAIN g = DOMAIN u.fp /\ g.fptr = u.fp.fptr /\ g.objsize = u.fp.objsize
      /\ g.flag = u.fp.flag \cup {"DIRTY"} /\ SameChain(u.fp, g)
  BY <1>1, <1>5 DEF FileFields, SameChain
<1> HIDE DEF g
<1>8. SameChain(s.fp, g)
  BY <1>5, <1>7 DEF SameChain
<1>9. QED BY <1>3, <1>5, <1>6, <1>7, <1>8 DEF w

\* At the boundary of a sector the buffer is written back, and holds the new sector unless that is whole.
LEMMA SectorEntered ==
    ASSUME NEW t, NEW q, NEW k, NEW j, Entered(t, q, k, j)
    PROVE  LET z == WriteSector(t, Len(t.data))
           IN  \E q2 : /\ DataChanged(q, q2) /\ Entered(z, q2, k, j) /\ z.data = t.data
                       /\ Len(t.data) < SS => z.fp.sect = SectAt(q2.b, z.fp.clust)
<1> DEFINE f == FlushBuf(t)
           btw == Len(t.data)
           c == t.fp.clust
           sect == Sector(f.v, f.fp.clust)
           fill == f.fp.sect # sect /\ f.fp.fptr < f.fp.objsize
           z == WriteSector(t, btw)
<1>1. z = IF btw >= SS THEN [f EXCEPT !.v = DiskWrite(@, sect, SubSeq(f.data, 1, SS))]
          ELSE [f EXCEPT !.fp.buf = IF fill THEN f.v.disk[sect] ELSE @, !.fp.sect = sect]
  BY DEF WriteSector
<1>2. /\ DOMAIN t = StateFields /\ Opened(t.v, t.fp, q, k, j) /\ DOMAIN t.fp = FileFields
      /\ c \in Clusters \ q.dirs /\ btw \in Nat
  BY TextLength DEF Entered, Writing, Opened, Handle
<1>3. {"v", "fp"} \subseteq DOMAIN t
  BY <1>2 DEF StateFields
<1>4. /\ DOMAIN f = DOMAIN t /\ \A x \in DOMAIN t \ {"v", "fp"} : f[x] = t[x]
      /\ SameFile(t.fp, f.fp) /\ "DIRTY" \notin f.fp.flag
      /\ \E q1 : DataChanged(q, q1) /\ Opened(f.v, f.fp, q1, k, j)
  BY <1>2, <1>3, BufferFlushed
<1> HIDE DEF f
<1>5. DOMAIN f = StateFields /\ f.data = t.data /\ f.res = t.res /\ f.more = t.more
  BY <1>2, <1>4 DEF StateFields
<1>6. PICK q1 : DataChanged(q, q1) /\ Opened(f.v, f.fp, q1, k, j)
  BY <1>4
<1>7. q1.dirs = q.dirs /\ q1.b = q.b /\ IsShape(q1) /\ f.fp.clust = c /\ f.v.volbase = q1.b
  BY <1>4, <1>6 DEF DataChanged, SameFile, Opened, Good, IsVolume
<1>8. sect = SectAt(q1.b, c)
  BY <1>2, <1>7 DEF Sector, SectAt, Clusters
<1> HIDE DEF sect, c, btw, fill
<1>9. Entered(f, q1, k, j)
  <2>1. Writing(f, q1, k, j)
    BY <1>4, <1>5, <1>6 DEF Entered, Writing, SameFile
  <2>2. \A h : Loose(q.link, q.content, q.dirs, h) => Loose(q1.link, q1.content, q1.dirs, h)
    BY <1>6 DEF DataChanged, Loose
  <2>3. QED BY <1>4, <1>5, <1>6, <2>1, <2>2 DEF Entered, DataChanged, SameFile
<1>10. CASE btw >= SS
  <2> DEFINE x == SubSeq(f.data, 1, SS)
             w == DiskWrite(f.v, SectAt(q1.b, c), x)
  <2>1. z = [f EXCEPT !.v = w]
    BY <1>1, <1>8, <1>10
  <2>2. c \in Clusters \ q1.dirs
    BY <1>2, <1>7
  <2>3. PICK q2 : DataChanged(q1, q2) /\ Opened(w, f.fp, q2, k, j)
    BY <1>6, <2>2, SectorWritten
  <2> HIDE DEF w, z
  <2>4. z.v = w /\ z.fp = f.fp /\ z.data = f.data /\ DOMAIN z = StateFields
    BY <1>5, <2>1 DEF StateFields
  <2>5. Writing(z, q2, k, j)
    BY <1>9, <2>3, <2>4 DEF Entered, Writing
  <2>6. \A h : Loose(q1.link, q1.content, q1.dirs, h) => Loose(q2.link, q2.content, q2.dirs, h)
    BY <2>3 DEF DataChanged, Loose
  <2>7. Entered(z, q2, k, j)
    BY <1>9, <2>3, <2>4, <2>5, <2>6 DEF Entered, DataChanged
  <2>8. DataChanged(q, q2)
    BY <1>6, <2>3 DEF DataChanged
  <2>9. ~(Len(t.data) < SS)
    BY <1>2, <1>10, FatAssumption DEF btw
  <2>10. QED BY <1>5, <2>4, <2>7, <2>8, <2>9 DEF z, btw
<1>11. CASE ~(btw >= SS)
  <2> DEFINE x == IF fill THEN f.v.disk[sect] ELSE f.fp.buf
             g == [f.fp EXCEPT !.buf = x, !.sect = sect]
  <2>1. z = [f EXCEPT !.fp.buf = IF fill THEN f.v.disk[sect] ELSE @, !.fp.sect = sect]
    BY <1>1, <1>11
  <2> HIDE DEF z
  <2>2. z.v = f.v /\ z.fp = g /\ z.data = f.data /\ DOMAIN z = StateFields
    BY <1>5, <2>1 DEF StateFields
  <2>3. DOMAIN f.fp = FileFields
    BY <1>6 DEF Opened, Handle
  <2>4. SameFile(f.fp, g) /\ g.flag = f.fp.flag /\ g.sect = SectAt(q1.b, c)
    BY <1>8, <2>3 DEF SameFile, FileFields
  <2> HIDE DEF g
  <2>5. Opened(f.v, g, q1, k, j)
    BY <1>4, <1>6, <2>4 DEF Opened, Handle, Buffered, SameFile
  <2>6. Entered(z, q1, k, j)
    BY <1>9, <2>2, <2>4, <2>5 DEF Entered, Writing, SameFile
  <2>7. z.fp.sect = SectAt(q1.b, z.fp.clust)
    BY <1>7, <2>2, <2>4 DEF SameFile
  <2>8. QED BY <1>5, <1>6, <2>2, <2>6, <2>7 DEF z, btw
<1>12. QED BY <1>10, <1>11

\* The pass from the boundary of a cluster, once the cluster is entered.
LEMMA SectorPassed ==
    ASSUME NEW t, NEW q, NEW k, NEW j, Entered(t, q, k, j)
    PROVE  LET z == WriteSector(t, Len(t.data))
               w == IF Len(t.data) >= SS THEN Wrote(z, SS) ELSE PutBytes(z)
           IN  \E q2 : OnDisk(q, q2) /\ WriteState(w, q2, k, j)
<1> DEFINE z == WriteSector(t, Len(t.data))
           w == IF Len(t.data) >= SS THEN Wrote(z, SS) ELSE PutBytes(z)
<1>1. PICK q2 : /\ DataChanged(q, q2) /\ Entered(z, q2, k, j) /\ z.data = t.data
                /\ Len(t.data) < SS => z.fp.sect = SectAt(q2.b, z.fp.clust)
  BY SectorEntered
<1> HIDE DEF z
<1>2. /\ OnDisk(q, q2) /\ Writing(z, q2, k, j) /\ z.data # <<>> /\ z.fp.fptr % SS = 0 /\ z.fp.fptr \in Nat
      /\ Len(t.data) \in Nat /\ Len(t.data) > 0 /\ SS \in Nat /\ SS > 0
  BY <1>1, TextLength, FatAssumption DEF OnDisk, DataChanged, Entered, Writing
<1>3. /\ DOMAIN w = StateFields /\ w.v = z.v /\ IsText(w.data) /\ SameChain(z.fp, w.fp)
      /\ "MODIFIED" \in w.fp.flag
      /\ \E n \in 1..SS : /\ w.fp.fptr = z.fp.fptr + n /\ w.fp.objsize = w.fp.fptr
                          /\ w.fp.fptr % SS # 0 => "DIRTY" \in w.fp.flag
      /\ "DIRTY" \in w.fp.flag => \/ "DIRTY" \in z.fp.flag
                                  \/ z.fp.sect = SectAt(q2.b, z.fp.clust)
  <2>0. "MODIFIED" \in z.fp.flag
    BY <1>2 DEF Writing, Opened, Handle
  <2>1. CASE Len(t.data) >= SS
    <3>1. w = Wrote(z, SS) /\ SS \in 0..Len(z.data) /\ SS \in 1..SS
      BY <1>1, <1>2, <2>1
    <3> HIDE DEF w
    <3>2. /\ DOMAIN w = StateFields /\ w.v = z.v /\ IsText(w.data) /\ SameChain(z.fp, w.fp)
          /\ w.fp.flag = z.fp.flag /\ w.fp.fptr = z.fp.fptr + SS /\ w.fp.objsize = z.fp.fptr + SS
      BY <1>2, <3>1, BytesCounted
    <3>3. (z.fp.fptr + SS) % SS = 0
      <4>1. z.fp.fptr = SS * (z.fp.fptr \div SS) + 0 /\ z.fp.fptr \div SS \in Nat
        BY <1>2, Divided
      <4> DEFINE a == z.fp.fptr \div SS
                 y == z.fp.fptr + SS
      <4> HIDE DEF a
      <4>2. a \in Nat /\ z.fp.fptr = SS * a
        <5>1. SS * a \in Nat /\ a \in Nat /\ z.fp.fptr = SS * a + 0
          BY <1>2, <4>1 DEF a
        <5>2. QED BY <5>1
      <4>8. SS * (a + 1) = SS * a + SS /\ SS * (a + 1) \in Nat
        BY <1>2, <4>2
      <4>3. y = SS * (a + 1) + 0 /\ 0 \in 0..SS - 1 /\ a + 1 \in Nat /\ y \in Nat
        BY <1>2, <4>2, <4>8
      <4> HIDE DEF y
      <4>4. y \div SS = a + 1
        BY <4>3, QuotientIs
      <4>5. y = SS * (y \div SS) + (y % SS) /\ y % SS \in 0..SS - 1
        BY <4>3, Divided
      <4>6. y % SS = 0
        <5> DEFINE m == y % SS
        <5>1. m \in Int /\ y = SS * (a + 1) + m /\ y = SS * (a + 1)
          BY <4>2, <4>3, <4>4, <4>5, <4>8, <1>2
        <5> HIDE DEF m
        <5>2. m = 0
          BY <4>8, <5>1
        <5>3. QED BY <5>2 DEF m
      <4>7. QED BY <4>6 DEF y
    <3>4. QED BY <2>0, <3>1, <3>2, <3>3
  <2>2. CASE ~(Len(t.data) >= SS)
    <3>1. w = PutBytes(z) /\ Len(t.data) < SS
      BY <1>2, <2>2
    <3> HIDE DEF w
    <3>2. /\ DOMAIN w = StateFields /\ w.v = z.v /\ IsText(w.data) /\ SameChain(z.fp, w.fp)
          /\ w.fp.flag = z.fp.flag \cup {"DIRTY"}
          /\ \E n \in 1..SS - (z.fp.fptr % SS) : w.fp.fptr = z.fp.fptr + n /\ w.fp.objsize = z.fp.fptr + n
      BY <1>2, <3>1, BytesPut
    <3>3. PICK n \in 1..SS : w.fp.fptr = z.fp.fptr + n /\ w.fp.objsize = z.fp.fptr + n
      BY <1>2, <3>2
    <3>4. QED BY <1>1, <2>0, <3>1, <3>2, <3>3
  <2>3. QED BY <2>1, <2>2
<1> HIDE DEF w
<1>4. PICK n \in 1..SS : /\ w.fp.fptr = z.fp.fptr + n /\ w.fp.objsize = w.fp.fptr
                         /\ w.fp.fptr % SS # 0 => "DIRTY" \in w.fp.flag
  BY <1>3
<1>5. Full(w.fp.fptr) = Full(z.fp.fptr) + 1 /\ w.fp.fptr \in Nat /\ w.fp.fptr # 0
  <2>1. z.fp.fptr \in Nat /\ z.fp.fptr % SS = 0
    BY <1>2
  <2>2. Full(z.fp.fptr + n) = Full(z.fp.fptr) + 1
    BY <2>1, FullOf
  <2>3. z.fp.fptr + n \in Nat /\ z.fp.fptr + n # 0
    BY <1>2, <2>1
  <2>4. QED BY <1>4, <2>2, <2>3
<1>6. Chained(w.fp, q2)
  BY <1>1, <1>3, <1>5 DEF Entered, Chained, SameChain
<1>7. Opened(w.v, w.fp, q2, k, j)
  <2>1. Handle(w.fp, q2, k, j)
    BY <1>2, <1>3 DEF Writing, Opened, Handle, SameChain
  <2>2. z.fp.clust \in Clusters \ q2.dirs
    BY <1>1 DEF Entered
  <2>3. Buffered(w.fp, q2)
    BY <1>2, <1>3, <2>2 DEF Writing, Opened, Buffered, SameChain
  <2>4. QED BY <1>2, <1>3, <2>1, <2>3 DEF Writing, Opened, SameChain
<1>8. WriteState(w, q2, k, j)
  BY <1>3, <1>4, <1>5, <1>6, <1>7 DEF WriteState, Writing
<1>9. QED BY <1>2, <1>8 DEF w, z

\* A pass inside a sector.
LEMMA MiddlePassed ==
    ASSUME NEW s, NEW q, NEW k, NEW j, WriteState(s, q, k, j), s.data # <<>>, s.fp.fptr % SS # 0
    PROVE  WriteState(PutBytes(s), q, k, j)
<1> DEFINE w == PutBytes(s)
<1>1. /\ DOMAIN w = StateFields /\ w.v = s.v /\ w.res = s.res /\ w.more = s.more
      /\ IsText(w.data) /\ SameChain(s.fp, w.fp) /\ w.fp.flag = s.fp.flag \cup {"DIRTY"}
      /\ \E n \in 1..SS - (s.fp.fptr % SS) : w.fp.fptr = s.fp.fptr + n /\ w.fp.objsize = s.fp.fptr + n
  BY BytesPut DEF WriteState
<1> HIDE DEF w
<1>2. PICK n \in 1..SS - (s.fp.fptr % SS) : w.fp.fptr = s.fp.fptr + n /\ w.fp.objsize = s.fp.fptr + n
  BY <1>1
<1>3. /\ s.fp.fptr \in Nat /\ Opened(s.v, s.fp, q, k, j) /\ "DIRTY" \in s.fp.flag
      /\ SS \in Nat /\ SS > 0
  BY FatAssumption DEF WriteState, Writing
<1>4. Full(w.fp.fptr) = Full(s.fp.fptr)
  BY <1>2, <1>3, FullOf
<1>5. s.fp.fptr # 0
  <2>1. 0 % SS = 0
    BY <1>3
  <2>2. QED BY <2>1
<1>6. w.fp.fptr \in Nat /\ w.fp.fptr # 0
  BY <1>2, <1>3
<1>7. Chained(w.fp, q)
  BY <1>1, <1>4, <1>5 DEF WriteState, Chained, SameChain
<1>8. Opened(w.v, w.fp, q, k, j)
  BY <1>1, <1>3 DEF Opened, Handle, Buffered, SameChain
<1>9. Writing(w, q, k, j)
  BY <1>1, <1>2, <1>6, <1>8 DEF Writing
<1>10. QED BY <1>1, <1>6, <1>7, <1>9 DEF WriteState, w

\* f_write stops for want of a cluster.
Stopped(s, r, w, q) ==
    /\ Refused(s.v, q, r)
    /\ w \in {[s EXCEPT !.v = r.v, !.more = FALSE],
              [s EXCEPT !.v = r.v, !.more = FALSE, !.res = "INT_ERR"]}

\* A pass that gets no cluster ends the loop.
LEMMA WriteStopped ==
    ASSUME NEW s, NEW q, NEW k, NEW j, WriteState(s, q, k, j), NEW r, NEW w, Stopped(s, r, w, q)
    PROVE  WriteState(w, q, k, j)
<1>1. DOMAIN s = StateFields /\ Opened(s.v, s.fp, q, k, j)
  BY DEF WriteState, Writing
<1>2. w.v = r.v /\ w.fp = s.fp /\ w.data = s.data /\ DOMAIN w = StateFields
  BY <1>1 DEF Stopped, StateFields
<1>3. Good(r.v, q) /\ r.v.winsect \in Windowed(q)
  BY <1>1 DEF Stopped, Opened, Refused, Near, Windowed
<1>4. Opened(w.v, w.fp, q, k, j)
  BY <1>1, <1>2, <1>3 DEF Opened
<1>5. QED BY <1>2, <1>4 DEF WriteState, Writing

\* f_write enters the cluster n that its chain has gained.
LEMMA ClusterEntered ==
    ASSUME NEW s, NEW q, NEW k, NEW j, WriteState(s, q, k, j), s.data # <<>>, s.fp.fptr % SS = 0,
           NEW r, NEW q2, NEW h,
           Gained(q, q2, r.val, h, Full(s.fp.fptr) + 1), Good(r.v, q2), r.v.winsect \in Table(q2),
           h = IF s.fp.sclust = 0 THEN r.val ELSE s.fp.sclust
    PROVE  Entered([Enter(s, r.val) EXCEPT !.v = r.v], q2, k, j)
<1> DEFINE g == [s.fp EXCEPT !.clust = r.val, !.sclust = IF @ = 0 THEN r.val ELSE @]
           t == [Enter(s, r.val) EXCEPT !.v = r.v]
<1>1. /\ DOMAIN s = StateFields /\ Opened(s.v, s.fp, q, k, j) /\ DOMAIN s.fp = FileFields
  BY DEF WriteState, Writing, Opened, Handle
<1>2. DOMAIN t = StateFields /\ t.v = r.v /\ t.fp = g /\ t.data = s.data
  BY <1>1 DEF Enter, StateFields
<1>3. /\ DOMAIN g = FileFields /\ g.clust = r.val /\ g.sclust = h /\ g.valid = s.fp.valid
      /\ g.objsize = s.fp.objsize /\ g.fptr = s.fp.fptr /\ g.flag = s.fp.flag /\ g.sect = s.fp.sect
      /\ g.dir_sect = s.fp.dir_sect /\ g.dir_ptr = s.fp.dir_ptr
  BY <1>1 DEF FileFields
<1> HIDE DEF t, g
<1>4. q2.b = q.b /\ q2.dirs = q.dirs /\ q2.content = q.content
  BY DEF Gained
<1>5. Home(q2, k, j) /\ Handle(g, q2, k, j) /\ Buffered(g, q2)
  BY <1>1, <1>3, <1>4 DEF Opened, Home, Handle, Buffered
<1>10. q2.lost \subseteq {h} \ {0}
  <2>1. q2.lost \subseteq q.lost \cup {h} /\ q.lost \subseteq {s.fp.sclust} \ {0} /\ h \in Clusters
    BY <1>1 DEF Gained, Opened, Loose
  <2>2. QED BY <2>1, EocIsNone
<1>6. Opened(r.v, g, q2, k, j)
  BY <1>1, <1>3, <1>5, <1>4, <1>10 DEF Opened, Windowed, Gained
<1>7. Writing(t, q2, k, j)
  BY <1>2, <1>3, <1>6 DEF WriteState, Writing
<1>8. Entered(t, q2, k, j)
  BY <1>2, <1>3, <1>7, <1>4 DEF Entered, Gained
<1>9. QED BY <1>8 DEF t

\* A pass of f_write keeps the state of the loop.
LEMMA RoundWritten ==
    ASSUME NEW s, NEW q, NEW k, NEW j, WriteState(s, q, k, j)
    PROVE  \E q2 : OnDisk(q, q2) /\ WriteState(WriteRound(s), q2, k, j)
<1> DEFINE c == IF s.fp.fptr = 0 THEN 0 ELSE s.fp.clust
           next == IF s.fp.fptr = 0 /\ s.fp.sclust # 0 THEN [v |-> s.v, val |-> s.fp.sclust]
                   ELSE CreateChain(s.v, c)
           r == CreateChain(s.v, c)
           t == [Enter(s, r.val) EXCEPT !.v = r.v]
           z == WriteSector(t, Len(t.data))
           on == IF Len(t.data) >= SS THEN Wrote(z, SS) ELSE PutBytes(z)
           w == WriteRound(s)
<1>1. OnDisk(q, q)
  BY DEF OnDisk
<1>2. CASE ~s.more \/ s.data = <<>>
  <2>1. w = s
    BY <1>2 DEF WriteRound
  <2>2. QED BY <1>1, <2>1
<1>3. CASE s.more /\ s.data # <<>> /\ s.fp.fptr % SS # 0
  <2>1. w = PutBytes(s)
    BY <1>3 DEF WriteRound
  <2>2. WriteState(w, q, k, j)
    BY <2>1, <1>3, MiddlePassed
  <2>3. QED BY <1>1, <2>2
<1>4. CASE s.more /\ s.data # <<>> /\ s.fp.fptr % SS = 0
  <2>1. next = r
    BY DEF WriteState
  <2>2. w = IF next.val = 0 THEN [s EXCEPT !.v = next.v, !.more = FALSE]
            ELSE IF next.val = 1 THEN [s EXCEPT !.v = next.v, !.more = FALSE, !.res = "INT_ERR"]
            ELSE IF Len([Enter(s, next.val) EXCEPT !.v = next.v].data) >= SS
                 THEN Wrote(WriteSector([Enter(s, next.val) EXCEPT !.v = next.v],
                                        Len([Enter(s, next.val) EXCEPT !.v = next.v].data)), SS)
                 ELSE PutBytes(WriteSector([Enter(s, next.val) EXCEPT !.v = next.v],
                                        Len([Enter(s, next.val) EXCEPT !.v = next.v].data)))
    BY <1>4 DEF WriteRound
  <2> HIDE DEF next, w
  <2>3. w = IF r.val = 0 THEN [s EXCEPT !.v = r.v, !.more = FALSE]
            ELSE IF r.val = 1 THEN [s EXCEPT !.v = r.v, !.more = FALSE, !.res = "INT_ERR"]
            ELSE on
    BY <2>1, <2>2
  <2>4. Good(s.v, q) /\ s.fp.fptr \in Nat /\ q.due = 0
    BY DEF WriteState, Writing, Opened
  <2>5. \/ Refused(s.v, q, r)
        \/ \E q2, h : /\ Gained(q, q2, r.val, h, Full(s.fp.fptr) + 1) /\ Good(r.v, q2)
                      /\ r.v.winsect \in Table(q2)
                      /\ h = IF s.fp.sclust = 0 THEN r.val ELSE s.fp.sclust
    <3>1. CASE s.fp.fptr = 0
      <4>1. c = 0 /\ s.fp.sclust = 0
        BY <3>1 DEF WriteState
      <4>2. Full(s.fp.fptr) + 1 = 1
        BY <3>1, FullOf
      <4>3. r = CreateChain(s.v, 0)
        BY <4>1
      <4> HIDE DEF r
      <4>4. \/ Refused(s.v, q, r)
            \/ \E q2 : Gained(q, q2, r.val, r.val, 1) /\ Good(r.v, q2) /\ r.v.winsect \in Table(q2)
        BY <2>4, <4>3, ChainBegun
      <4>5. QED BY <4>1, <4>2, <4>4
    <3>2. CASE s.fp.fptr # 0
      <4>1. /\ c = s.fp.clust /\ c \in Clusters \ q.dirs /\ q.link[c] = EOC
            /\ q.first[c] = s.fp.sclust /\ q.nth[c] = Full(s.fp.fptr)
            /\ Loose(q.link, q.content, q.dirs, q.first[c])
        BY <3>2 DEF WriteState, Chained
      <4>2. s.fp.sclust # 0
        BY <4>1, EocIsNone DEF Loose
      <4> HIDE DEF c
      <4>3. \/ Refused(s.v, q, r)
            \/ \E q2 : /\ Gained(q, q2, r.val, q.first[c], q.nth[c] + 1)
                       /\ Good(r.v, q2) /\ r.v.winsect \in Table(q2)
        BY <2>4, <4>1, FileExtended
      <4> HIDE DEF r
      <4>4. QED BY <4>1, <4>2, <4>3
    <3>3. QED BY <3>1, <3>2
  <2> HIDE DEF c
  <2>6. CASE Refused(s.v, q, r)
    <3>1. r.val \in {0, 1}
      BY <2>6 DEF Refused
    <3> HIDE DEF r, on
    <3>2. w \in {[s EXCEPT !.v = r.v, !.more = FALSE],
                 [s EXCEPT !.v = r.v, !.more = FALSE, !.res = "INT_ERR"]}
      BY <2>3, <3>1
    <3> HIDE DEF w
    <3>5. Stopped(s, r, w, q)
      BY <2>6, <3>2 DEF Stopped
    <3>3. WriteState(w, q, k, j)
      BY <3>5, WriteStopped
    <3>4. QED BY <1>1, <3>3 DEF w
  <2>7. ASSUME NEW q2, NEW h, Gained(q, q2, r.val, h, Full(s.fp.fptr) + 1), Good(r.v, q2),
               r.v.winsect \in Table(q2), h = IF s.fp.sclust = 0 THEN r.val ELSE s.fp.sclust
        PROVE  \E q3 : OnDisk(q, q3) /\ WriteState(w, q3, k, j)
    <3> HIDE DEF r
    <3>1. Entered(t, q2, k, j)
      BY <2>7, <1>4, ClusterEntered
    <3>2. r.val \in Clusters /\ OnDisk(q, q2)
      BY <2>7 DEF Gained, OnDisk
    <3>3. r.val # 0 /\ r.val # 1
      BY <3>2, FatAssumption DEF Clusters
    <3> HIDE DEF t
    <3>4. PICK q3 : OnDisk(q2, q3) /\ WriteState(on, q3, k, j)
      BY <3>1, SectorPassed
    <3> HIDE DEF on
    <3>5. w = on
      BY <2>3, <3>3
    <3>6. QED BY <3>2, <3>4, <3>5 DEF OnDisk
  <2>8. QED BY <2>5, <2>6, <2>7 DEF w
<1>5. QED BY <1>2, <1>3, <1>4

\* f_write, of a file just created.
LEMMA Written ==
    ASSUME NEW v, NEW fp, NEW data, NEW q, NEW k, NEW j, Opened(v, fp, q, k, j), IsText(data),
           fp.sclust = 0, fp.objsize = 0, fp.fptr = 0
    PROVE  LET w == FWrite(v, fp, data)
           IN  \E q2 : /\ OnDisk(q, q2) /\ Opened(w.v, w.fp, q2, k, j) /\ w.fp.fptr \in Nat
                       /\ w.fp.objsize = w.fp.fptr
                       /\ w.fp.fptr = 0 => w.fp.sclust = 0
                       /\ w.fp.fptr # 0 => Chained(w.fp, q2)
<1> DEFINE start == [v |-> v, fp |-> fp, data |-> data, res |-> "OK", more |-> TRUE]
           N == Len(data)
           w == FWrite(v, fp, data)
<1>1. N \in Nat
  BY TextLength
<1>2. PICK run : /\ run = [i \in 0..N |-> IF i = 0 THEN start ELSE WriteRound(run[i - 1])]
                 /\ WriteLoop(v, fp, data) = run[N]
  BY <1>1, WriteRuns
<1> DEFINE S == {n \in 0..N : \E q2 : OnDisk(q, q2) /\ WriteState(run[n], q2, k, j)}
<1>3. 0 \in S
  <2>1. run[0] = start /\ 0 \in 0..N
    BY <1>1, <1>2
  <2>2. start.fp = fp /\ start.v = v /\ start.data = data /\ DOMAIN start = StateFields
    BY DEF StateFields
  <2> HIDE DEF start
  <2>3. 0 % SS = 0
    BY FatAssumption
  <2>4. WriteState(start, q, k, j)
    BY <2>2, <2>3 DEF WriteState, Writing
  <2>5. QED BY <2>1, <2>4 DEF OnDisk
<1>4. ASSUME NEW n \in 0..N, n < N, n \in S PROVE n + 1 \in S
  <2>1. PICK q1 : OnDisk(q, q1) /\ WriteState(run[n], q1, k, j)
    BY <1>4
  <2>2. n + 1 \in 0..N /\ n + 1 # 0 /\ n + 1 - 1 = n
    BY <1>1, <1>4
  <2>3. run[n + 1] = WriteRound(run[n])
    <3>1. run[n + 1] = WriteRound(run[n + 1 - 1])
      <4> HIDE DEF start, N
      <4>1. QED BY <1>2, <2>2
    <3>2. QED BY <2>2, <3>1
  <2>4. PICK q2 : OnDisk(q1, q2) /\ WriteState(run[n + 1], q2, k, j)
    BY <2>1, <2>3, RoundWritten
  <2>5. OnDisk(q, q2)
    BY <2>1, <2>4 DEF OnDisk
  <2>6. QED BY <2>2, <2>4, <2>5
<1>5. N \in S
  <2> HIDE DEF S, N
  <2>1. 0..N \subseteq S
    BY <1>1, <1>3, <1>4, Induct
  <2>2. QED BY <1>1, <2>1
<1> DEFINE s == run[N]
<1>6. PICK q2 : OnDisk(q, q2) /\ WriteState(s, q2, k, j)
  BY <1>5
<1>7. /\ w.v = s.v
      /\ w.fp = IF s.res = "OK" THEN [s.fp EXCEPT !.flag = @ \cup {"MODIFIED"}] ELSE s.fp
  BY <1>2 DEF FWrite
<1> HIDE DEF s, w
<1>8. /\ Opened(s.v, s.fp, q2, k, j) /\ DOMAIN s.fp = FileFields /\ "MODIFIED" \in s.fp.flag
      /\ s.fp.fptr \in Nat /\ s.fp.objsize = s.fp.fptr
      /\ s.fp.fptr = 0 => s.fp.sclust = 0
      /\ s.fp.fptr # 0 => Chained(s.fp, q2)
  BY <1>6 DEF WriteState, Writing, Opened, Handle
<1>9. /\ SameFile(s.fp, w.fp) /\ w.fp.flag = s.fp.flag /\ w.fp.sect = s.fp.sect
  BY <1>7, <1>8 DEF SameFile, FileFields
<1>10. Opened(w.v, w.fp, q2, k, j)
  BY <1>7, <1>8, <1>9 DEF Opened, Handle, Buffered, SameFile
<1>11. Chained(s.fp, q2) => Chained(w.fp, q2)
  BY <1>9 DEF Chained, SameFile
<1>12. QED BY <1>6, <1>8, <1>9, <1>10, <1>11 DEF SameFile, w

-----------------------------------------------------------------------------
(* Closing: the file gets its size, and is whole.                           *)

\* Of two ends of the same chain, each is the other.
LEMMA SizeOf ==
    ASSUME NEW q, IsShape(q), NEW fp, Chained(fp, q)
    PROVE  SizeFits(q.link, q.first, q.nth, fp.sclust, fp.fptr)
<1>1. ChainsSound(q.link, q.dirs, q.first, q.nth)
  BY DEF IsShape, Sound
<1>2. SUFFICES ASSUME NEW d \in Clusters, q.link[d] = EOC, q.first[d] = fp.sclust
               PROVE  q.nth[d] = Full(fp.fptr)
  BY DEF SizeFits, Full
<1>3. fp.clust \in Clusters /\ q.link[fp.clust] = EOC /\ q.first[fp.clust] = fp.sclust
  BY DEF Chained
<1>4. q.nth[d] \in Nat /\ q.nth[fp.clust] \in Nat
  BY <1>1, <1>2, <1>3, EocIsNone DEF ChainsSound
<1>5. q.nth[d] <= q.nth[fp.clust] /\ q.nth[fp.clust] <= q.nth[d]
  BY <1>1, <1>2, <1>3, EocIsNone DEF ChainsSound
<1>6. q.nth[d] = q.nth[fp.clust]
  BY <1>4, <1>5
<1>7. QED BY <1>6 DEF Chained

\* f_close of a file that was written: nothing waits any more.
LEMMA Closed ==
    ASSUME NEW v, NEW fp, NEW q, NEW k, NEW j, Opened(v, fp, q, k, j), fp.fptr \in Nat,
           fp.objsize = fp.fptr, fp.fptr = 0 => fp.sclust = 0, fp.fptr # 0 => Chained(fp, q)
    PROVE  \E q2 : OnDisk(q, q2) /\ Settled(FClose(v, fp), q2)
<1> DEFINE s == [v |-> v, fp |-> fp]
           f == FlushBuf(s)
           u == f.v
           m == MoveWindow(u, fp.dir_sect)
           w == [m EXCEPT !.win[fp.dir_ptr] =
                            [m.win[fp.dir_ptr] EXCEPT !.attr = @ \cup {"ARC"}, !.clust = fp.sclust,
                                                      !.size = fp.objsize],
                          !.wflag = TRUE]
           e == m.win[j]
           e2 == [e EXCEPT !.attr = @ \cup {"ARC"}, !.clust = fp.sclust, !.size = fp.objsize]
<1>1. /\ DOMAIN fp = FileFields /\ fp.valid = TRUE /\ "MODIFIED" \in fp.flag
      /\ fp.dir_sect = SectAt(q.b, k) /\ fp.dir_ptr = j /\ IsShape(q)
      /\ k \in q.dirs /\ j \in Slots
  BY DEF Opened, Handle, Home, Good
<1>2. FClose(v, fp) = SyncFs(w)
  BY <1>1 DEF FClose, FSync
<1>3. \E q2 : DataChanged(q, q2) /\ Opened(f.v, f.fp, q2, k, j)
  <2>1. {"v", "fp"} \subseteq DOMAIN s /\ s.v = v /\ s.fp = fp
    OBVIOUS
  <2> HIDE DEF s
  <2>2. Opened(s.v, s.fp, q, k, j)
    BY <2>1
  <2>3. QED BY <2>1, <2>2, BufferFlushed
<1> HIDE DEF f
<1>4. PICK q1 : DataChanged(q, q1) /\ Opened(f.v, f.fp, q1, k, j)
  BY <1>3
<1>5. /\ OnDisk(q, q1) /\ q1.b = q.b /\ q1.dirs = q.dirs /\ IsShape(q1) /\ Good(u, q1) /\ Home(q1, k, j)
      /\ (Chained(fp, q) => Chained(fp, q1))
  BY <1>1, <1>4, TouchedLeaves DEF DataChanged, Opened
<1>6. Good(m, q1) /\ m.winsect = SectAt(q1.b, k)
  BY <1>1, <1>5, WindowMoved
<1> HIDE DEF m, u
<1>7. /\ e = q1.content[k][j] /\ DOMAIN e = EntryFields /\ Live(e) /\ ~IsDir(e)
      /\ e.name[1] # "." /\ e.clust = 0
  <2>1. k \in Clusters
    BY <1>1, ShapeFacts
  <2>2. m.win = q1.content[k]
    BY <1>6, <2>1, InWindow
  <2>3. QED BY <1>5, <2>2 DEF Home
<1>8. w = [m EXCEPT !.win[j] = e2, !.wflag = TRUE]
  BY <1>1
<1> HIDE DEF w, e
<1>9. /\ DOMAIN e2 = EntryFields /\ e2.name = e.name /\ e2.attr = e.attr \cup {"ARC"}
      /\ e2.clust = fp.sclust /\ e2.size = fp.objsize
  BY <1>7 DEF EntryFields
<1> HIDE DEF e2
<1>10. Live(e2) /\ ~IsDir(e2) /\ e2.name[1] # "."
  BY <1>7, <1>9 DEF Live, IsFree, IsDir
<1>11. Fits(e2, q1)
  <2>1. CASE fp.fptr = 0
    BY <1>9, <1>10, <2>1 DEF Fits
  <2>2. CASE fp.fptr # 0
    <3>1. Chained(fp, q1)
      BY <1>5, <2>2
    <3>2. SizeFits(q1.link, q1.first, q1.nth, fp.sclust, fp.fptr)
      BY <1>5, <3>1, SizeOf
    <3>3. QED BY <1>9, <1>10, <3>1, <3>2 DEF Fits, Chained
  <2>3. QED BY <2>1, <2>2
<1>18. InReach(q1, k, j) /\ OwnedBy(q1.content[k][j]) = {}
  BY <1>7 DEF InReach, Live, IsFree, IsEnd, OwnedBy, Owns
<1>12. Entering(m, w, q1, k, j, e2)
  BY <1>1, <1>5, <1>6, <1>8, <1>11, <1>18 DEF Entering
<1>13. PICK q2 : PutIn(q1, q2, k, j, e2) /\ Good(w, q2)
  BY <1>12, EntryPut
<1>14. Good(SyncFs(w), q2) /\ SyncFs(w).wflag = FALSE /\ SyncFs(w).fsi_flag = 0
  BY <1>13, FsSynced
<1>15. OnDisk(q, q2)
  BY <1>5, <1>13 DEF OnDisk, PutIn
<1>17. q.due = 0 /\ q2.lost = {}
  BY <1>4, <1>9, <1>13, <1>18 DEF Opened, DataChanged, PutIn
<1>16. QED BY <1>2, <1>17, <1>14, <1>15 DEF Settled, OnDisk

\* SYSCALL_WRITEFILE leaves nothing to be written.
LEMMA FileSaved ==
    ASSUME NEW v, NEW q, Calm(v, q), NEW path, IsPath(path), NEW data, IsText(data)
    PROVE  \E q2 : OnDisk(q, q2) /\ Settled(WriteFileCall(v, path, data).v, q2)
<1> DEFINE o == FOpen(v, path, {"W", "CREATE"})
           w == FWrite(o.v, o.fp, data)
           c == WriteFileCall(v, path, data)
<1>1. c.v = IF o.res = "OK" THEN FClose(w.v, w.fp) ELSE o.v
  BY DEF WriteFileCall
<1>2. /\ o.res # "OK" => \E q2 : OnDisk(q, q2) /\ Settled(o.v, q2)
      /\ o.res = "OK" => \E q2, k, j :
                    /\ OnDisk(q, q2) /\ Good(o.v, q2) /\ q2.lost = {}
                    /\ o.v.winsect \in Windowed(q2) /\ Home(q2, k, j)
                    /\ Handle(o.fp, q2, k, j) /\ "DIRTY" \notin o.fp.flag
                    /\ o.fp.sclust = 0 /\ o.fp.objsize = 0 /\ o.fp.fptr = 0
  BY Created
<1> HIDE DEF o, c
<1>3. CASE o.res # "OK"
  BY <1>1, <1>2, <1>3 DEF c
<1>4. CASE o.res = "OK"
  <2>1. PICK q1, k, j :
                    /\ OnDisk(q, q1) /\ Good(o.v, q1) /\ q1.lost = {} /\ o.v.winsect \in Windowed(q1) /\ Home(q1, k, j)
                    /\ Handle(o.fp, q1, k, j) /\ "DIRTY" \notin o.fp.flag
                    /\ o.fp.sclust = 0 /\ o.fp.objsize = 0 /\ o.fp.fptr = 0
    BY <1>2, <1>4
  <2>2. Opened(o.v, o.fp, q1, k, j)
    BY <2>1 DEF Opened, Buffered, OnDisk, Calm
  <2>3. PICK q2 : /\ OnDisk(q1, q2) /\ Opened(w.v, w.fp, q2, k, j) /\ w.fp.fptr \in Nat
                  /\ w.fp.objsize = w.fp.fptr
                  /\ w.fp.fptr = 0 => w.fp.sclust = 0
                  /\ w.fp.fptr # 0 => Chained(w.fp, q2)
    BY <2>1, <2>2, Written
  <2> HIDE DEF w
  <2>4. PICK q3 : OnDisk(q2, q3) /\ Settled(FClose(w.v, w.fp), q3)
    BY <2>3, Closed
  <2>5. OnDisk(q, q3) /\ c.v = FClose(w.v, w.fp)
    BY <1>1, <1>4, <2>1, <2>3, <2>4 DEF OnDisk
  <2>6. QED BY <2>4, <2>5 DEF c
<1>5. QED BY <1>3, <1>4

-----------------------------------------------------------------------------
(* The loops as functions from the number of passes.                        *)

\* run is what is read, entry after entry, up to the index.
ListingRun(run, v, d, index) ==
    /\ run = [i \in 0..index |-> IF i = 0 THEN FReadDir(v, d) ELSE ReadAgain(run[i - 1])]
    /\ ReadUpTo(v, d, index).v = run[index].v

\* There is such a function.
LEMMA ListingRuns ==
    ASSUME NEW v, NEW d, NEW index \in Nat
    PROVE  \E run : ListingRun(run, v, d, index)
<1> DEFINE Begin == FReadDir(v, d)
           IsRun(run, n) == run = [i \in 0..n |-> IF i = 0 THEN Begin ELSE ReadAgain(run[i - 1])]
           S == {n \in 0..index : \E run : IsRun(run, n)}
<1>1. index \in Nat
  OBVIOUS
<1> HIDE DEF Begin
<1>2. 0 \in S
  <2>1. IsRun([i \in 0..0 |-> Begin], 0)
    OBVIOUS
  <2>2. 0 \in 0..index
    BY <1>1
  <2> HIDE DEF IsRun
  <2>3. QED BY <2>1, <2>2
<1>3. ASSUME NEW n \in 0..index, n < index, n \in S PROVE n + 1 \in S
  <2>1. PICK run : IsRun(run, n)
    BY <1>3
  <2> DEFINE longer == [i \in 0..(n + 1) |-> IF i = n + 1 THEN ReadAgain(run[n]) ELSE run[i]]
  <2>2. ASSUME NEW i \in 0..(n + 1)
        PROVE  longer[i] = IF i = 0 THEN Begin ELSE ReadAgain(longer[i - 1])
    <3>1. CASE i = n + 1
      <4>1. i # 0 /\ i - 1 = n /\ n \in 0..(n + 1) /\ n # n + 1
        BY <3>1
      <4>2. longer[i - 1] = run[n]
        BY <4>1
      <4>3. QED BY <3>1, <4>1, <4>2
    <3>2. CASE i = 0
      <4>1. i # n + 1 /\ i \in 0..n
        BY <3>2
      <4>2. longer[i] = run[i] /\ run[i] = Begin
        BY <2>1, <3>2, <4>1
      <4>3. QED BY <3>2, <4>2
    <3>3. CASE i \in 1..n
      <4>1. i # n + 1 /\ i # 0 /\ i - 1 \in 0..(n + 1) /\ i - 1 # n + 1 /\ i \in 0..n
        BY <3>3
      <4>2. longer[i] = run[i] /\ longer[i - 1] = run[i - 1]
        BY <4>1
      <4>3. run[i] = ReadAgain(run[i - 1])
        BY <2>1, <4>1
      <4>4. QED BY <4>1, <4>2, <4>3
    <3>4. QED BY <3>1, <3>2, <3>3
  <2>3. longer = [i \in 0..(n + 1) |-> longer[i]]
    OBVIOUS
  <2> HIDE DEF longer
  <2>4. IsRun(longer, n + 1)
    BY <2>2, <2>3
  <2>5. n + 1 \in 0..index
    BY <1>1, <1>3
  <2>6. QED BY <2>4, <2>5
<1>4. 0..index \subseteq S
  <2> HIDE DEF S
  <2>1. QED BY <1>1, <1>2, <1>3, Induct
<1>5. index \in S
  BY <1>1, <1>4
<1>6. \E run : run = [i \in 0..index |-> IF i = 0 THEN FReadDir(v, d)
                                 ELSE ReadAgain(run[i - 1])]
  BY <1>5 DEF Begin
<1> DEFINE made == CHOOSE run : run = [i \in 0..index |-> IF i = 0 THEN FReadDir(v, d)
                                 ELSE ReadAgain(run[i - 1])]
<1>7. made = [i \in 0..index |-> IF i = 0 THEN FReadDir(v, d)
                                 ELSE ReadAgain(made[i - 1])]
  BY <1>6
<1>8. ReadUpTo(v, d, index).v = made[index].v
  BY DEF ReadUpTo
<1> HIDE DEF made
<1>9. ListingRun(made, v, d, index)
  BY <1>7, <1>8 DEF ListingRun
<1>10. QED BY <1>9

\* The calls that ls makes.
LEMMA ListRuns ==
    ASSUME NEW v, NEW path
    PROVE  \E run : /\ run = [i \in 0..(MAX_DIR + 1) |-> IF i = 0 THEN [v |-> v, listed |-> <<>>, more |-> TRUE]
                                 ELSE ListRound(run[i - 1], path, i - 1)]
                   /\ ListLoop(v, path) = run[MAX_DIR + 1]
<1> DEFINE Begin == [v |-> v, listed |-> <<>>, more |-> TRUE]
           IsRun(run, n) == run = [i \in 0..n |-> IF i = 0 THEN Begin ELSE ListRound(run[i - 1], path, i - 1)]
           S == {n \in 0..(MAX_DIR + 1) : \E run : IsRun(run, n)}
<1>1. (MAX_DIR + 1) \in Nat
  BY FatAssumption
<1> HIDE DEF Begin
<1>2. 0 \in S
  <2>1. IsRun([i \in 0..0 |-> Begin], 0)
    OBVIOUS
  <2>2. 0 \in 0..(MAX_DIR + 1)
    BY <1>1
  <2> HIDE DEF IsRun
  <2>3. QED BY <2>1, <2>2
<1>3. ASSUME NEW n \in 0..(MAX_DIR + 1), n < (MAX_DIR + 1), n \in S PROVE n + 1 \in S
  <2>1. PICK run : IsRun(run, n)
    BY <1>3
  <2> DEFINE longer == [i \in 0..(n + 1) |-> IF i = n + 1 THEN ListRound(run[n], path, n + 1 - 1) ELSE run[i]]
  <2>2. ASSUME NEW i \in 0..(n + 1)
        PROVE  longer[i] = IF i = 0 THEN Begin ELSE ListRound(longer[i - 1], path, i - 1)
    <3>1. CASE i = n + 1
      <4>1. i # 0 /\ i - 1 = n /\ n \in 0..(n + 1) /\ n # n + 1
        BY <3>1
      <4>2. longer[i - 1] = run[n]
        BY <4>1
      <4>3. QED BY <3>1, <4>1, <4>2
    <3>2. CASE i = 0
      <4>1. i # n + 1 /\ i \in 0..n
        BY <3>2
      <4>2. longer[i] = run[i] /\ run[i] = Begin
        BY <2>1, <3>2, <4>1
      <4>3. QED BY <3>2, <4>2
    <3>3. CASE i \in 1..n
      <4>1. i # n + 1 /\ i # 0 /\ i - 1 \in 0..(n + 1) /\ i - 1 # n + 1 /\ i \in 0..n
        BY <3>3
      <4>2. longer[i] = run[i] /\ longer[i - 1] = run[i - 1]
        BY <4>1
      <4>3. run[i] = ListRound(run[i - 1], path, i - 1)
        BY <2>1, <4>1
      <4>4. QED BY <4>1, <4>2, <4>3
    <3>4. QED BY <3>1, <3>2, <3>3
  <2>3. longer = [i \in 0..(n + 1) |-> longer[i]]
    OBVIOUS
  <2> HIDE DEF longer
  <2>4. IsRun(longer, n + 1)
    BY <2>2, <2>3
  <2>5. n + 1 \in 0..(MAX_DIR + 1)
    BY <1>1, <1>3
  <2>6. QED BY <2>4, <2>5
<1>4. 0..(MAX_DIR + 1) \subseteq S
  <2> HIDE DEF S
  <2>1. QED BY <1>1, <1>2, <1>3, Induct
<1>5. (MAX_DIR + 1) \in S
  BY <1>1, <1>4
<1>6. \E run : run = [i \in 0..(MAX_DIR + 1) |-> IF i = 0 THEN [v |-> v, listed |-> <<>>, more |-> TRUE]
                                 ELSE ListRound(run[i - 1], path, i - 1)]
  BY <1>5 DEF Begin
<1> DEFINE made == CHOOSE run : run = [i \in 0..(MAX_DIR + 1) |-> IF i = 0 THEN [v |-> v, listed |-> <<>>, more |-> TRUE]
                                 ELSE ListRound(run[i - 1], path, i - 1)]
<1>7. made = [i \in 0..(MAX_DIR + 1) |-> IF i = 0 THEN [v |-> v, listed |-> <<>>, more |-> TRUE]
                                 ELSE ListRound(made[i - 1], path, i - 1)]
  BY <1>6
<1>8. ListLoop(v, path) = made[MAX_DIR + 1]
  BY DEF ListLoop
<1> HIDE DEF made
<1>9. QED BY <1>7, <1>8

\* The sectors that f_read reads.
LEMMA ReadRuns ==
    ASSUME NEW v, NEW fp, NEW btr, btr \in Nat
    PROVE  \E run : /\ run = [i \in 0..btr |-> IF i = 0 THEN [v |-> v, fp |-> fp, data |-> <<>>, res |-> "OK", btr |-> btr]
                                 ELSE ReadRound(run[i - 1])]
                   /\ ReadLoop(v, fp, btr) = run[btr]
<1> DEFINE Begin == [v |-> v, fp |-> fp, data |-> <<>>, res |-> "OK", btr |-> btr]
           IsRun(run, n) == run = [i \in 0..n |-> IF i = 0 THEN Begin ELSE ReadRound(run[i - 1])]
           S == {n \in 0..btr : \E run : IsRun(run, n)}
<1>1. btr \in Nat
  OBVIOUS
<1> HIDE DEF Begin
<1>2. 0 \in S
  <2>1. IsRun([i \in 0..0 |-> Begin], 0)
    OBVIOUS
  <2>2. 0 \in 0..btr
    BY <1>1
  <2> HIDE DEF IsRun
  <2>3. QED BY <2>1, <2>2
<1>3. ASSUME NEW n \in 0..btr, n < btr, n \in S PROVE n + 1 \in S
  <2>1. PICK run : IsRun(run, n)
    BY <1>3
  <2> DEFINE longer == [i \in 0..(n + 1) |-> IF i = n + 1 THEN ReadRound(run[n]) ELSE run[i]]
  <2>2. ASSUME NEW i \in 0..(n + 1)
        PROVE  longer[i] = IF i = 0 THEN Begin ELSE ReadRound(longer[i - 1])
    <3>1. CASE i = n + 1
      <4>1. i # 0 /\ i - 1 = n /\ n \in 0..(n + 1) /\ n # n + 1
        BY <3>1
      <4>2. longer[i - 1] = run[n]
        BY <4>1
      <4>3. QED BY <3>1, <4>1, <4>2
    <3>2. CASE i = 0
      <4>1. i # n + 1 /\ i \in 0..n
        BY <3>2
      <4>2. longer[i] = run[i] /\ run[i] = Begin
        BY <2>1, <3>2, <4>1
      <4>3. QED BY <3>2, <4>2
    <3>3. CASE i \in 1..n
      <4>1. i # n + 1 /\ i # 0 /\ i - 1 \in 0..(n + 1) /\ i - 1 # n + 1 /\ i \in 0..n
        BY <3>3
      <4>2. longer[i] = run[i] /\ longer[i - 1] = run[i - 1]
        BY <4>1
      <4>3. run[i] = ReadRound(run[i - 1])
        BY <2>1, <4>1
      <4>4. QED BY <4>1, <4>2, <4>3
    <3>4. QED BY <3>1, <3>2, <3>3
  <2>3. longer = [i \in 0..(n + 1) |-> longer[i]]
    OBVIOUS
  <2> HIDE DEF longer
  <2>4. IsRun(longer, n + 1)
    BY <2>2, <2>3
  <2>5. n + 1 \in 0..btr
    BY <1>1, <1>3
  <2>6. QED BY <2>4, <2>5
<1>4. 0..btr \subseteq S
  <2> HIDE DEF S
  <2>1. QED BY <1>1, <1>2, <1>3, Induct
<1>5. btr \in S
  BY <1>1, <1>4
<1>6. \E run : run = [i \in 0..btr |-> IF i = 0 THEN [v |-> v, fp |-> fp, data |-> <<>>, res |-> "OK", btr |-> btr]
                                 ELSE ReadRound(run[i - 1])]
  BY <1>5 DEF Begin
<1> DEFINE made == CHOOSE run : run = [i \in 0..btr |-> IF i = 0 THEN [v |-> v, fp |-> fp, data |-> <<>>, res |-> "OK", btr |-> btr]
                                 ELSE ReadRound(run[i - 1])]
<1>7. made = [i \in 0..btr |-> IF i = 0 THEN [v |-> v, fp |-> fp, data |-> <<>>, res |-> "OK", btr |-> btr]
                                 ELSE ReadRound(made[i - 1])]
  BY <1>6
<1>8. ReadLoop(v, fp, btr) = made[btr]
  BY DEF ReadLoop
<1> HIDE DEF made
<1>9. QED BY <1>7, <1>8

\* run is what f_lseek does, cluster after cluster.
SeekingRun(run, v, fp, ofs, n) ==
    /\ run = [i \in 0..n |-> IF i = 0 THEN [v |-> v, fp |-> fp, res |-> "OK"]
                             ELSE SeekRound(run[i - 1])]
    /\ SeekLoop(v, fp, ofs) = IF run[n].res = "OK"
                              THEN [run[n] EXCEPT !.fp.fptr = @ + ofs - n * SS] ELSE run[n]

\* The clusters that f_lseek passes.
LEMMA SeekRuns ==
    ASSUME NEW v, NEW fp, NEW ofs, (ofs - 1) \div SS \in Nat
    PROVE  \E run : SeekingRun(run, v, fp, ofs, (ofs - 1) \div SS)
<1> DEFINE Begin == [v |-> v, fp |-> fp, res |-> "OK"]
           IsRun(run, n) == run = [i \in 0..n |-> IF i = 0 THEN Begin ELSE SeekRound(run[i - 1])]
           S == {n \in 0..((ofs - 1) \div SS) : \E run : IsRun(run, n)}
<1>1. ((ofs - 1) \div SS) \in Nat
  OBVIOUS
<1> HIDE DEF Begin
<1>2. 0 \in S
  <2>1. IsRun([i \in 0..0 |-> Begin], 0)
    OBVIOUS
  <2>2. 0 \in 0..((ofs - 1) \div SS)
    BY <1>1
  <2> HIDE DEF IsRun
  <2>3. QED BY <2>1, <2>2
<1>3. ASSUME NEW n \in 0..((ofs - 1) \div SS), n < ((ofs - 1) \div SS), n \in S PROVE n + 1 \in S
  <2>1. PICK run : IsRun(run, n)
    BY <1>3
  <2> DEFINE longer == [i \in 0..(n + 1) |-> IF i = n + 1 THEN SeekRound(run[n]) ELSE run[i]]
  <2>2. ASSUME NEW i \in 0..(n + 1)
        PROVE  longer[i] = IF i = 0 THEN Begin ELSE SeekRound(longer[i - 1])
    <3>1. CASE i = n + 1
      <4>1. i # 0 /\ i - 1 = n /\ n \in 0..(n + 1) /\ n # n + 1
        BY <3>1
      <4>2. longer[i - 1] = run[n]
        BY <4>1
      <4>3. QED BY <3>1, <4>1, <4>2
    <3>2. CASE i = 0
      <4>1. i # n + 1 /\ i \in 0..n
        BY <3>2
      <4>2. longer[i] = run[i] /\ run[i] = Begin
        BY <2>1, <3>2, <4>1
      <4>3. QED BY <3>2, <4>2
    <3>3. CASE i \in 1..n
      <4>1. i # n + 1 /\ i # 0 /\ i - 1 \in 0..(n + 1) /\ i - 1 # n + 1 /\ i \in 0..n
        BY <3>3
      <4>2. longer[i] = run[i] /\ longer[i - 1] = run[i - 1]
        BY <4>1
      <4>3. run[i] = SeekRound(run[i - 1])
        BY <2>1, <4>1
      <4>4. QED BY <4>1, <4>2, <4>3
    <3>4. QED BY <3>1, <3>2, <3>3
  <2>3. longer = [i \in 0..(n + 1) |-> longer[i]]
    OBVIOUS
  <2> HIDE DEF longer
  <2>4. IsRun(longer, n + 1)
    BY <2>2, <2>3
  <2>5. n + 1 \in 0..((ofs - 1) \div SS)
    BY <1>1, <1>3
  <2>6. QED BY <2>4, <2>5
<1>4. 0..((ofs - 1) \div SS) \subseteq S
  <2> HIDE DEF S
  <2>1. QED BY <1>1, <1>2, <1>3, Induct
<1>5. ((ofs - 1) \div SS) \in S
  BY <1>1, <1>4
<1>6. \E run : run = [i \in 0..((ofs - 1) \div SS) |-> IF i = 0 THEN [v |-> v, fp |-> fp, res |-> "OK"]
                                 ELSE SeekRound(run[i - 1])]
  BY <1>5 DEF Begin
<1> DEFINE made == CHOOSE run : run = [i \in 0..((ofs - 1) \div SS) |-> IF i = 0 THEN [v |-> v, fp |-> fp, res |-> "OK"]
                                 ELSE SeekRound(run[i - 1])]
<1>7. made = [i \in 0..((ofs - 1) \div SS) |-> IF i = 0 THEN [v |-> v, fp |-> fp, res |-> "OK"]
                                 ELSE SeekRound(made[i - 1])]
  BY <1>6
<1>8. SeekLoop(v, fp, ofs) =
          (IF made[(ofs - 1) \div SS].res = "OK"
           THEN [made[(ofs - 1) \div SS] EXCEPT !.fp.fptr = @ + ofs - ((ofs - 1) \div SS) * SS]
           ELSE made[(ofs - 1) \div SS])
  BY DEF SeekLoop
<1> HIDE DEF made
<1>9. SeekingRun(made, v, fp, ofs, (ofs - 1) \div SS)
  BY <1>7, <1>8 DEF SeekingRun
<1>10. QED BY <1>9

\* run is what the loader reads, segment after segment.
LoadingRun(run, v, fp, m) ==
    /\ run = [i \in 0..m |-> IF i = 0 THEN [v |-> v, fp |-> fp, image |-> <<>>, more |-> TRUE]
                             ELSE SegmentLoad(run[i - 1], i - 1)]
    /\ LoadSegments(v, fp, m) = run[m]

\* The segments of a program.
LEMMA LoadRuns ==
    ASSUME NEW v, NEW fp, NEW m \in Nat
    PROVE  \E run : LoadingRun(run, v, fp, m)
<1> DEFINE Begin == [v |-> v, fp |-> fp, image |-> <<>>, more |-> TRUE]
           IsRun(run, n) == run = [i \in 0..n |-> IF i = 0 THEN Begin ELSE SegmentLoad(run[i - 1], i - 1)]
           S == {n \in 0..m : \E run : IsRun(run, n)}
<1>1. m \in Nat
  OBVIOUS
<1> HIDE DEF Begin
<1>2. 0 \in S
  <2>1. IsRun([i \in 0..0 |-> Begin], 0)
    OBVIOUS
  <2>2. 0 \in 0..m
    BY <1>1
  <2> HIDE DEF IsRun
  <2>3. QED BY <2>1, <2>2
<1>3. ASSUME NEW n \in 0..m, n < m, n \in S PROVE n + 1 \in S
  <2>1. PICK run : IsRun(run, n)
    BY <1>3
  <2> DEFINE longer == [i \in 0..(n + 1) |-> IF i = n + 1 THEN SegmentLoad(run[n], n + 1 - 1) ELSE run[i]]
  <2>2. ASSUME NEW i \in 0..(n + 1)
        PROVE  longer[i] = IF i = 0 THEN Begin ELSE SegmentLoad(longer[i - 1], i - 1)
    <3>1. CASE i = n + 1
      <4>1. i # 0 /\ i - 1 = n /\ n \in 0..(n + 1) /\ n # n + 1
        BY <3>1
      <4>2. longer[i - 1] = run[n]
        BY <4>1
      <4>3. QED BY <3>1, <4>1, <4>2
    <3>2. CASE i = 0
      <4>1. i # n + 1 /\ i \in 0..n
        BY <3>2
      <4>2. longer[i] = run[i] /\ run[i] = Begin
        BY <2>1, <3>2, <4>1
      <4>3. QED BY <3>2, <4>2
    <3>3. CASE i \in 1..n
      <4>1. i # n + 1 /\ i # 0 /\ i - 1 \in 0..(n + 1) /\ i - 1 # n + 1 /\ i \in 0..n
        BY <3>3
      <4>2. longer[i] = run[i] /\ longer[i - 1] = run[i - 1]
        BY <4>1
      <4>3. run[i] = SegmentLoad(run[i - 1], i - 1)
        BY <2>1, <4>1
      <4>4. QED BY <4>1, <4>2, <4>3
    <3>4. QED BY <3>1, <3>2, <3>3
  <2>3. longer = [i \in 0..(n + 1) |-> longer[i]]
    OBVIOUS
  <2> HIDE DEF longer
  <2>4. IsRun(longer, n + 1)
    BY <2>2, <2>3
  <2>5. n + 1 \in 0..m
    BY <1>1, <1>3
  <2>6. QED BY <2>4, <2>5
<1>4. 0..m \subseteq S
  <2> HIDE DEF S
  <2>1. QED BY <1>1, <1>2, <1>3, Induct
<1>5. m \in S
  BY <1>1, <1>4
<1>6. \E run : run = [i \in 0..m |-> IF i = 0 THEN [v |-> v, fp |-> fp, image |-> <<>>, more |-> TRUE]
                                 ELSE SegmentLoad(run[i - 1], i - 1)]
  BY <1>5 DEF Begin
<1> DEFINE made == CHOOSE run : run = [i \in 0..m |-> IF i = 0 THEN [v |-> v, fp |-> fp, image |-> <<>>, more |-> TRUE]
                                 ELSE SegmentLoad(run[i - 1], i - 1)]
<1>7. made = [i \in 0..m |-> IF i = 0 THEN [v |-> v, fp |-> fp, image |-> <<>>, more |-> TRUE]
                                 ELSE SegmentLoad(made[i - 1], i - 1)]
  BY <1>6
<1>8. LoadSegments(v, fp, m) = made[m]
  BY DEF LoadSegments
<1> HIDE DEF made
<1>9. LoadingRun(made, v, fp, m)
  BY <1>7, <1>8 DEF LoadingRun
<1>10. QED BY <1>9

-----------------------------------------------------------------------------
(* What only reads leaves the disk and the window's state as they are.      *)

\* Moving the window of a calm volume leaves it calm.
LEMMA WindowCalm ==
    ASSUME NEW v, NEW q, Calm(v, q), NEW s
    PROVE  Calm(MoveWindow(v, s), q)
<1>1. Good(v, q) /\ v.wflag = FALSE /\ v.fsi_flag = 0 /\ v.log = <<>>
  BY DEF Calm
<1> DEFINE w == MoveWindow(v, s)
<1>2. Good(w, q) /\ Alike(v, w) /\ (~v.wflag => ~w.wflag /\ w.disk = v.disk /\ w.log = v.log)
  BY <1>1, WindowMoved
<1> HIDE DEF w
<1>3. w.wflag \in BOOLEAN
  BY <1>2 DEF Good, IsVolume
<1>4. Calm(w, q)
  BY <1>1, <1>2, <1>3 DEF Calm, Alike
<1>5. QED BY <1>4 DEF w

\* So does reading a link,
LEMMA LinkCalm ==
    ASSUME NEW v, NEW q, Calm(v, q), NEW c
    PROVE  Calm(GetFat(v, c).v, q)
<1>1. GetFat(v, c).v \in {v, MoveWindow(v, FatSector(v, c))}
  BY DEF GetFat
<1>2. QED BY <1>1, WindowCalm

\* and going to the next entry without stretching the table,
LEMMA NextCalm ==
    ASSUME NEW v, NEW q, Calm(v, q), NEW d
    PROVE  DOMAIN DirNext(v, d, FALSE) = {"v", "d", "res"} /\ Calm(DirNext(v, d, FALSE).v, q)
<1> DEFINE g == GetFat(v, d.clust)
           n == DirNext(v, d, FALSE)
<1>1. DOMAIN n = {"v", "d", "res"} /\ n.v \in {v, g.v}
  BY DEF DirNext
<1>2. Calm(g.v, q)
  BY LinkCalm
<1> HIDE DEF n, g
<1>3. QED BY <1>1, <1>2 DEF n

\* A walk or a listing between two passes.
Reading(s, q) == DOMAIN s = {"v", "d", "res"} /\ Calm(s.v, q)

\* and a pass of dir_read,
LEMMA WalkRoundCalm ==
    ASSUME NEW s, NEW q, Reading(s, q)
    PROVE  Reading(WalkRound(s, "next"), q)
<1> DEFINE w == MoveWindow(s.v, s.d.sect)
           e == EntryAt(w, s.d)
           n == DirNext(w, s.d, FALSE)
           r == WalkRound(s, "next")
<1>1. r = IF s.res # "GO" THEN s
          ELSE IF Stops("next", s.d.fn, e)
          THEN [v |-> w, d |-> [s.d EXCEPT !.attr = e.attr], res |-> "OK"]
          ELSE IF n.res = "OK" THEN [n EXCEPT !.res = "GO"] ELSE n
  BY DEF WalkRound
<1>2. Calm(w, q)
  BY WindowCalm DEF Reading
<1> HIDE DEF w
<1>3. DOMAIN n = {"v", "d", "res"} /\ Calm(n.v, q)
  BY <1>2, NextCalm
<1> HIDE DEF n, e, r
<1>4. QED BY <1>1, <1>2, <1>3 DEF Reading, r

\* and all of them,
LEMMA NextRead ==
    ASSUME NEW v, NEW q, Calm(v, q), NEW d
    PROVE  Reading(Walk(v, d, "next"), q)
<1>1. PICK run : /\ run = [i \in 0..MAX_DIR |-> IF i = 0 THEN [v |-> v, d |-> d, res |-> "GO"]
                                               ELSE WalkRound(run[i - 1], "next")]
                 /\ Walk(v, d, "next") = run[MAX_DIR]
  BY WalkRuns
<1> DEFINE start == [v |-> v, d |-> d, res |-> "GO"]
           S == {n \in 0..MAX_DIR : Reading(run[n], q)}
<1>2. MAX_DIR \in Nat
  BY FatAssumption
<1>3. 0 \in S
  <2>1. run[0] = start /\ 0 \in 0..MAX_DIR
    BY <1>1, <1>2
  <2>2. Reading(start, q)
    BY DEF Reading
  <2>3. QED BY <2>1, <2>2
<1>4. ASSUME NEW n \in 0..MAX_DIR, n < MAX_DIR, n \in S PROVE n + 1 \in S
  <2>1. n + 1 \in 0..MAX_DIR /\ n + 1 # 0 /\ n + 1 - 1 = n
    BY <1>2, <1>4
  <2>2. run[n + 1] = WalkRound(run[n + 1 - 1], "next")
    BY <1>1, <2>1
  <2>3. Reading(run[n + 1], q)
    BY <1>4, <2>1, <2>2, WalkRoundCalm
  <2>4. QED BY <2>1, <2>3
<1>5. MAX_DIR \in S
  <2> HIDE DEF S
  <2>1. 0..MAX_DIR \subseteq S
    BY <1>2, <1>3, <1>4, Induct
  <2>2. QED BY <1>2, <2>1
<1>6. QED BY <1>1, <1>5

\* and f_readdir, wherever the directory object stands,
LEMMA EntryRead ==
    ASSUME NEW v, NEW q, Calm(v, q), NEW d
    PROVE  LET r == FReadDir(v, d) IN DOMAIN r = {"v", "d", "fno", "res"} /\ Calm(r.v, q)
<1> DEFINE w == Walk(v, d, "next")
           r == DirRead(v, d)
           n == DirNext(r.v, r.d, FALSE)
           f == FReadDir(v, d)
<1>1. Reading(w, q)
  BY NextRead
<1> HIDE DEF w
<1>2. \/ r = [v |-> v, d |-> d, res |-> "NO_FILE"]
      \/ r = [w EXCEPT !.d.sect = 0]
      \/ r = [w EXCEPT !.d.sect = 0, !.res = "NO_FILE"]
      \/ r = w
  BY DEF DirRead, w
<1>3. Calm(r.v, q)
  <2>1. DOMAIN w = {"v", "d", "res"} /\ Calm(w.v, q)
    BY <1>1 DEF Reading
  <2> DEFINE x == [w.d EXCEPT !.sect = 0]
  <2>2. \/ r = [v |-> v, d |-> d, res |-> "NO_FILE"]
        \/ r = [w EXCEPT !.d = x]
        \/ r = [w EXCEPT !.d = x, !.res = "NO_FILE"]
        \/ r = w
    BY <1>2
  <2> HIDE DEF r, x
  <2> DEFINE y == [w EXCEPT !.d = x]
             z == [w EXCEPT !.d = x, !.res = "NO_FILE"]
  <2>3. y.v = w.v
    BY <2>1
  <2>4. z.v = w.v
    BY <2>1
  <2>5. r = [v |-> v, d |-> d, res |-> "NO_FILE"] \/ r = y \/ r = z \/ r = w
    BY <2>2
  <2> HIDE DEF y, z
  <2>6. r.v \in {v, w.v}
    BY <2>3, <2>4, <2>5
  <2>7. QED BY <2>1, <2>6
<1> HIDE DEF r
<1>4. Calm(n.v, q)
  BY <1>3, NextCalm
<1>5. DOMAIN f = {"v", "d", "fno", "res"} /\ f.v \in {r.v, n.v}
  BY DEF FReadDir, r
<1> HIDE DEF f, n
<1>6. QED BY <1>3, <1>4, <1>5 DEF f

\* and f_readdir up to an index.
LEMMA EntriesRead ==
    ASSUME NEW v, NEW q, Calm(v, q), NEW d, NEW index \in Nat
    PROVE  Calm(ReadUpTo(v, d, index).v, q)
<1> DEFINE start == FReadDir(v, d)
<1>0. PICK run : ListingRun(run, v, d, index)
  BY ListingRuns
<1>1. /\ run = [i \in 0..index |-> IF i = 0 THEN FReadDir(v, d) ELSE ReadAgain(run[i - 1])]
      /\ ReadUpTo(v, d, index).v = run[index].v
  BY <1>0 DEF ListingRun
<1> DEFINE S == {n \in 0..index : Calm(run[n].v, q)}
<1>3. 0 \in S
  <2>1. run[0] = start /\ 0 \in 0..index
    <3> DEFINE again(x) == ReadAgain(x)
    <3>1. run = [i \in 0..index |-> IF i = 0 THEN start ELSE again(run[i - 1])]
      BY <1>1
    <3> HIDE DEF start, again
    <3>2. QED BY <3>1
  <2>2. Calm(start.v, q)
    BY EntryRead
  <2>3. QED BY <2>1, <2>2
<1> HIDE DEF start
<1>4. ASSUME NEW n \in 0..index, n < index, n \in S PROVE n + 1 \in S
  <2>1. n + 1 \in 0..index /\ n + 1 # 0 /\ n + 1 - 1 = n
    BY <1>4
  <2>2. run[n + 1] = ReadAgain(run[n + 1 - 1])
    BY <1>1, <2>1
  <2>3. run[n + 1] \in {run[n], FReadDir(run[n].v, run[n].d)}
    BY <2>1, <2>2 DEF ReadAgain
  <2>4. Calm(run[n].v, q)
    BY <1>4
  <2>5. Calm(FReadDir(run[n].v, run[n].d).v, q)
    BY <2>4, EntryRead
  <2>6. Calm(run[n + 1].v, q)
    BY <2>3, <2>4, <2>5
  <2>7. QED BY <2>1, <2>6
<1>5. index \in S
  <2> HIDE DEF S
  <2>1. 0..index \subseteq S
    BY <1>3, <1>4, Induct
  <2>2. QED BY <2>1
<1>6. ReadUpTo(v, d, index).v = run[index].v
  BY <1>1
<1>7. QED BY <1>5, <1>6

\* f_opendir leaves a calm volume calm.
LEMMA DirectoryOpened ==
    ASSUME NEW v, NEW q, Calm(v, q), NEW path, IsPath(path)
    PROVE  Calm(FOpenDir(v, path).v, q)
<1> DEFINE f == Located(Opening(v, path))
           s1 == DirSdi(f.v, f.d)
           s2 == DirSdi(f.v, [f.d EXCEPT !.sclust = EntryAt(f.v, f.d).clust])
           o == FOpenDir(v, path)
<1>1. FollowedTo(f, q)
  BY PathLocated
<1> HIDE DEF f
<1>2. \/ o = [f EXCEPT !.res = "NO_PATH"]
      \/ o = f
      \/ o = [f EXCEPT !.d = s1, !.res = IF s1.sect = 0 THEN "INT_ERR" ELSE "OK"]
      \/ o = [f EXCEPT !.d = s2, !.res = IF s2.sect = 0 THEN "INT_ERR" ELSE "OK"]
  BY DEF FOpenDir, f
<1> HIDE DEF s1, s2, o
<1>3. o.v = f.v
  BY <1>1, <1>2 DEF FollowedTo
<1>4. QED BY <1>1, <1>3 DEF FollowedTo, o

\* SYSCALL_CHECKDIR leaves a calm volume calm.
LEMMA DirectoryChecked ==
    ASSUME NEW v, NEW q, Calm(v, q), NEW path, IsPath(path)
    PROVE  Calm(CheckDirCall(v, path).v, q)
BY DirectoryOpened DEF CheckDirCall

\* SYSCALL_READDIR leaves a calm volume calm.
LEMMA DirectoryRead ==
    ASSUME NEW v, NEW q, Calm(v, q), NEW path, IsPath(path), NEW index \in Nat
    PROVE  Calm(ReadDirCall(v, path, index).v, q)
<1> DEFINE o == FOpenDir(v, path)
           u == ReadUpTo(o.v, o.d, index)
           r == ReadDirCall(v, path, index)
<1>1. Calm(o.v, q)
  BY DirectoryOpened
<1> HIDE DEF o
<1>2. Calm(u.v, q)
  BY <1>1, EntriesRead
<1>3. r = IF o.res = "OK" THEN u ELSE [v |-> o.v, eax |-> 1]
  BY DEF ReadDirCall, ReadOpened, o
<1> HIDE DEF u, r
<1>4. QED BY <1>1, <1>2, <1>3 DEF r

\* ls leaves a calm volume calm.
LEMMA Listed ==
    ASSUME NEW v, NEW q, Calm(v, q), NEW path, IsPath(path)
    PROVE  Calm(ListLoop(v, path).v, q)
<1> DEFINE N == MAX_DIR + 1
           start == [v |-> v, listed |-> <<>>, more |-> TRUE]
           Listing(s) == DOMAIN s = {"v", "listed", "more"} /\ Calm(s.v, q)
<1>1. PICK run : /\ run = [i \in 0..MAX_DIR + 1 |-> IF i = 0 THEN start
                                                   ELSE ListRound(run[i - 1], path, i - 1)]
                 /\ ListLoop(v, path) = run[MAX_DIR + 1]
  BY ListRuns
<1> DEFINE S == {n \in 0..N : Listing(run[n])}
<1>2. N \in Nat
  BY FatAssumption
<1>3. 0 \in S
  <2>1. run[0] = start /\ 0 \in 0..N
    <3> HIDE DEF start
    <3>1. QED BY <1>1, <1>2
  <2>2. Listing(start)
    OBVIOUS
  <2>3. QED BY <2>1, <2>2
<1> HIDE DEF start
<1>4. ASSUME NEW n \in 0..N, n < N, n \in S PROVE n + 1 \in S
  <2>1. n + 1 \in 0..N /\ n + 1 # 0 /\ n + 1 - 1 = n /\ n \in Nat
    <3> HIDE DEF N
    <3>1. QED BY <1>2, <1>4
  <2>2. run[n + 1] = ListRound(run[n + 1 - 1], path, n + 1 - 1)
    BY <1>1, <2>1
  <2> DEFINE s == run[n]
             c == ReadDirCall(s.v, path, n)
             t == ListRound(s, path, n)
  <2>3. Listing(s)
    BY <1>4
  <2>4. run[n + 1] = t
    BY <2>1, <2>2
  <2>5. t \in {s, [s EXCEPT !.v = c.v, !.more = FALSE], [s EXCEPT !.v = c.v, !.listed = Append(@, c.entry)]}
    BY DEF ListRound
  <2> HIDE DEF s
  <2>6. Calm(c.v, q)
    BY <2>1, <2>3, DirectoryRead
  <2> HIDE DEF c, t
  <2>7. Listing(t)
    BY <2>3, <2>5, <2>6
  <2>8. QED BY <2>1, <2>4, <2>7
<1>5. N \in S
  <2> HIDE DEF S, N
  <2>1. 0..N \subseteq S
    BY <1>2, <1>3, <1>4, Induct
  <2>2. QED BY <1>2, <2>1
<1>6. QED BY <1>1, <1>5

-----------------------------------------------------------------------------
(* A file opened to be read, and what reading it leaves.                    *)

ReadOnly(fp) ==
    /\ DOMAIN fp = FileFields /\ "MODIFIED" \notin fp.flag
    /\ fp.fptr \in Nat /\ fp.objsize \in Nat /\ fp.fptr <= fp.objsize

\* f_open to read leaves a calm volume calm, and the file object is for reading only.
LEMMA OpenedToRead ==
    ASSUME NEW v, NEW q, Calm(v, q), NEW path, IsPath(path)
    PROVE  LET o == FOpen(v, path, {"R"})
           IN  Calm(o.v, q) /\ (o.res = "OK" => ReadOnly(o.fp))
<1> DEFINE f == Located(Opening(v, path))
           x == OpenExisting(f)
           e == EntryAt(f.v, f.d)
           fp == [NoFile EXCEPT !.valid = TRUE, !.sclust = e.clust, !.objsize = e.size,
                           !.flag = {"R"}, !.dir_sect = f.v.winsect, !.dir_ptr = f.d.dptr % DPS]
           o == FOpen(v, path, {"R"})
<1>1. FollowedTo(f, q)
  BY PathLocated
<1>2. OpenAs(f, {"R"}) = x
  <2>1. "W" \notin {"R"}
    OBVIOUS
  <2>2. {"R"} # {"W", "CREATE"}
    BY <2>1
  <2>3. QED BY <2>2 DEF OpenAs
<1>3. "CREATE" \notin {"R"}
  OBVIOUS
<1> HIDE DEF f
<1>4. x.v = f.v /\ x.d = f.d /\ (x.res = "OK" => f.res = "OK" /\ ~f.d.noname)
  BY <1>1 DEF OpenExisting, FollowedTo
<1>5. o = [v |-> x.v, res |-> x.res, fp |-> IF x.res = "OK" THEN fp ELSE NoFile]
  <2> HIDE DEF x
  <2>1. o = [v |-> x.v, res |-> x.res,
             fp |-> IF x.res = "OK"
                    THEN [NoFile EXCEPT !.valid = TRUE, !.sclust = EntryAt(x.v, x.d).clust,
                             !.objsize = EntryAt(x.v, x.d).size, !.flag = {"R"},
                             !.dir_sect = x.v.winsect, !.dir_ptr = x.d.dptr % DPS]
                    ELSE NoFile]
    BY <1>2, <1>3 DEF FOpen, f
  <2>2. QED BY <1>4, <2>1
<1> HIDE DEF x, o
<1>6. Calm(o.v, q)
  BY <1>1, <1>4, <1>5 DEF FollowedTo
<1>7. ASSUME o.res = "OK" PROVE ReadOnly(o.fp)
  <2>1. Found(f.v, f.d, q) /\ Calm(f.v, q)
    BY <1>1, <1>4, <1>5, <1>7 DEF FollowedTo
  <2>2. Good(f.v, q) /\ Stands(f.d, q) /\ f.v.winsect = f.d.sect
    BY <2>1 DEF Calm, Found
  <2>3. e = EntryOf(f.d, q)
    BY <2>2, EntryShown
  <2>4. f.d.clust \in q.dirs /\ f.d.dptr % DPS \in Slots
    BY <2>2, FatAssumption DEF Stands, Slots
  <2>5. EntriesSound(q.link, q.content, q.dirs, q.first, q.nth)
    BY <2>2 DEF Good, IsShape, Sound
  <2>6. e.size \in Nat
    BY <2>3, <2>4, <2>5 DEF EntryOf, EntriesSound, EntrySound
  <2> HIDE DEF e
  <2>7. DOMAIN fp = FileFields /\ fp.flag = {"R"} /\ fp.objsize = e.size /\ fp.fptr = 0
    BY DEF NoFile, FileFields
  <2>8. o.fp = fp
    BY <1>5, <1>7
  <2> HIDE DEF fp
  <2>9. QED BY <2>6, <2>7, <2>8 DEF ReadOnly
<1>8. QED BY <1>6, <1>7 DEF o

\* f_read between two passes: what is still to be read is in the file.
InRead(s, q) ==
    /\ DOMAIN s = {"v", "fp", "data", "res", "btr"} /\ Calm(s.v, q) /\ ReadOnly(s.fp)
    /\ s.btr \in Nat /\ s.fp.fptr + s.btr <= s.fp.objsize

\* The bookkeeping of a pass of f_read.
LEMMA BytesGot ==
    ASSUME NEW s, NEW q, InRead(s, q), NEW n \in 0..s.btr, NEW bytes
    PROVE  InRead([s EXCEPT !.data = @ \o bytes, !.fp.fptr = @ + n, !.btr = @ - n], q)
<1> DEFINE fp == [s.fp EXCEPT !.fptr = @ + n]
           t == [s EXCEPT !.data = @ \o bytes, !.fp = fp, !.btr = @ - n]
<1>1. DOMAIN s = {"v", "fp", "data", "res", "btr"} /\ Calm(s.v, q) /\ ReadOnly(s.fp)
      /\ s.btr \in Nat /\ s.fp.fptr + s.btr <= s.fp.objsize
  BY DEF InRead
<1>2. /\ DOMAIN fp = FileFields /\ "MODIFIED" \notin fp.flag /\ fp.objsize = s.fp.objsize
      /\ fp.fptr = s.fp.fptr + n /\ s.fp.fptr \in Nat /\ fp.objsize \in Nat
  BY <1>1 DEF ReadOnly, FileFields
<1> HIDE DEF fp
<1>3. DOMAIN t = {"v", "fp", "data", "res", "btr"} /\ t.v = s.v /\ t.fp = fp /\ t.btr = s.btr - n
  BY <1>1
<1> HIDE DEF t
<1>4. InRead(t, q)
  BY <1>1, <1>2, <1>3 DEF InRead, ReadOnly
<1>5. QED BY <1>4 DEF t, fp

\* What a pass changes before it has the bytes.
LEMMA ReadOn ==
    ASSUME NEW s, NEW q, InRead(s, q), NEW w, Calm(w, q), NEW c, NEW bytes, NEW sect
    PROVE  /\ InRead([s EXCEPT !.v = w, !.fp.clust = c], q)
           /\ InRead([s EXCEPT !.fp.buf = bytes, !.fp.sect = sect], q)
           /\ InRead([s EXCEPT !.res = "INT_ERR"], q)
<1> DEFINE fp == [s.fp EXCEPT !.clust = c]
           t == [s EXCEPT !.v = w, !.fp = fp]
           fp2 == [s.fp EXCEPT !.buf = bytes, !.sect = sect]
           t2 == [s EXCEPT !.fp = fp2]
           t3 == [s EXCEPT !.res = "INT_ERR"]
<1>1. DOMAIN s = {"v", "fp", "data", "res", "btr"} /\ Calm(s.v, q) /\ ReadOnly(s.fp)
      /\ s.btr \in Nat /\ s.fp.fptr + s.btr <= s.fp.objsize
  BY DEF InRead
<1>2. /\ DOMAIN fp = FileFields /\ fp.flag = s.fp.flag /\ fp.objsize = s.fp.objsize
      /\ fp.fptr = s.fp.fptr
      /\ DOMAIN fp2 = FileFields /\ fp2.flag = s.fp.flag /\ fp2.objsize = s.fp.objsize
      /\ fp2.fptr = s.fp.fptr
  BY <1>1 DEF ReadOnly, FileFields
<1> HIDE DEF fp, fp2
<1>3. /\ DOMAIN t = {"v", "fp", "data", "res", "btr"} /\ t.v = w /\ t.fp = fp /\ t.btr = s.btr
      /\ DOMAIN t2 = {"v", "fp", "data", "res", "btr"} /\ t2.v = s.v /\ t2.fp = fp2 /\ t2.btr = s.btr
      /\ DOMAIN t3 = {"v", "fp", "data", "res", "btr"} /\ t3.v = s.v /\ t3.fp = s.fp /\ t3.btr = s.btr
  BY <1>1
<1>4. [s EXCEPT !.fp.buf = bytes, !.fp.sect = sect] = t2
  BY <1>1 DEF fp2
<1> HIDE DEF t, t2, t3
<1>5. InRead(t, q) /\ InRead(t2, q) /\ InRead(t3, q)
  BY <1>1, <1>2, <1>3 DEF InRead, ReadOnly
<1>6. QED BY <1>4, <1>5 DEF t, t3, fp

\* A pass of f_read keeps the state of its loop.
LEMMA RoundRead ==
    ASSUME NEW s, NEW q, InRead(s, q)
    PROVE  InRead(ReadRound(s), q)
<1> DEFINE ofs == s.fp.fptr % SS
           n   == Least(SS - ofs, s.btr)
           next == IF s.fp.fptr = 0 THEN [v |-> s.v, val |-> s.fp.sclust] ELSE GetFat(s.v, s.fp.clust)
           sect == Sector(next.v, next.val)
           t == [s EXCEPT !.v = next.v, !.fp.clust = next.val]
           b == [t EXCEPT !.fp.buf = t.v.disk[sect], !.fp.sect = sect]
           Got(x, bytes) == [x EXCEPT !.data = @ \o bytes, !.fp.fptr = @ + n, !.btr = @ - n]
           r == ReadRound(s)
<1>1. /\ DOMAIN s = {"v", "fp", "data", "res", "btr"} /\ Calm(s.v, q) /\ s.btr \in Nat
      /\ s.fp.fptr \in Nat
  BY DEF InRead, ReadOnly
<1>2. n \in 0..s.btr
  <2>1. SS \in Nat \ {0}
    BY FatAssumption
  <2>2. ofs \in 0..SS - 1
    BY <1>1, <2>1
  <2> HIDE DEF ofs
  <2>3. QED BY <1>1, <2>1, <2>2 DEF Least
<1>3. Calm(next.v, q)
  <2>1. Calm(GetFat(s.v, s.fp.clust).v, q)
    BY <1>1, LinkCalm
  <2>2. next.v \in {s.v, GetFat(s.v, s.fp.clust).v}
    OBVIOUS
  <2> HIDE DEF next
  <2>3. QED BY <1>1, <2>1, <2>2
<1>4. \/ r = s
      \/ r = [t EXCEPT !.res = "INT_ERR"]
      \/ \E bytes : \E x \in {s, t, b} : r = Got(x, bytes)
  BY ZenonT(60) DEF ReadRound
<1> HIDE DEF next, n, r, sect
<1>5. InRead(t, q) /\ t.btr = s.btr
  BY <1>1, <1>3, ReadOn
<1>6. InRead(b, q) /\ b.btr = s.btr
  <2>1. DOMAIN t = {"v", "fp", "data", "res", "btr"}
    BY <1>5 DEF InRead
  <2> HIDE DEF t
  <2>2. QED BY <1>3, <1>5, <2>1, ReadOn
<1> HIDE DEF b
<1>7. InRead([t EXCEPT !.res = "INT_ERR"], q)
  <2> HIDE DEF t
  <2>1. QED BY <1>3, <1>5, ReadOn
<1> HIDE DEF t
<1>8. ASSUME NEW x \in {s, t, b}, NEW bytes PROVE InRead(Got(x, bytes), q)
  BY <1>2, <1>5, <1>6, BytesGot
<1> HIDE DEF Got
<1>9. QED BY <1>4, <1>7, <1>8 DEF r

\* f_read leaves a calm volume calm.
LEMMA FileRead ==
    ASSUME NEW v, NEW q, Calm(v, q), NEW fp, ReadOnly(fp), NEW size \in Nat
    PROVE  LET r == FRead(v, fp, size) IN Calm(r.v, q) /\ ReadOnly(r.fp)
<1> DEFINE N == Least(size, fp.objsize - fp.fptr)
           start == [v |-> v, fp |-> fp, data |-> <<>>, res |-> "OK", btr |-> N]
<1>1. N \in Nat /\ fp.fptr + N <= fp.objsize
  BY DEF Least, ReadOnly
<1> HIDE DEF N
<1>2. PICK run : /\ run = [i \in 0..N |-> IF i = 0 THEN start ELSE ReadRound(run[i - 1])]
                 /\ ReadLoop(v, fp, N) = run[N]
  BY <1>1, ReadRuns
<1> DEFINE S == {n \in 0..N : InRead(run[n], q)}
<1>3. 0 \in S
  <2>1. run[0] = start /\ 0 \in 0..N
    <3> HIDE DEF start
    <3>1. QED BY <1>1, <1>2
  <2>2. InRead(start, q)
    BY <1>1 DEF InRead
  <2>3. QED BY <2>1, <2>2
<1> HIDE DEF start
<1>4. ASSUME NEW n \in 0..N, n < N, n \in S PROVE n + 1 \in S
  <2>1. n + 1 \in 0..N /\ n + 1 # 0 /\ n + 1 - 1 = n
    BY <1>1, <1>4
  <2>2. run[n + 1] = ReadRound(run[n + 1 - 1])
    BY <1>2, <2>1
  <2>3. InRead(run[n + 1], q)
    BY <1>4, <2>1, <2>2, RoundRead
  <2>4. QED BY <2>1, <2>3
<1>5. N \in S
  <2> HIDE DEF S
  <2>1. 0..N \subseteq S
    BY <1>1, <1>3, <1>4, Induct
  <2>2. QED BY <1>1, <2>1
<1>6. FRead(v, fp, size) = run[N]
  BY <1>2 DEF FRead, N
<1>7. QED BY <1>5, <1>6 DEF InRead

\* f_lseek between two passes: the position is not past the clusters it has counted.
InSeek(s, q, size, bound) ==
    /\ DOMAIN s = {"v", "fp", "res"} /\ Calm(s.v, q)
    /\ DOMAIN s.fp = FileFields /\ "MODIFIED" \notin s.fp.flag /\ s.fp.objsize = size
    /\ s.fp.fptr \in Nat /\ s.fp.fptr <= bound

\* A pass of f_lseek is one cluster further.
LEMMA RoundSought ==
    ASSUME NEW s, NEW q, NEW size, NEW bound \in Nat, InSeek(s, q, size, bound)
    PROVE  InSeek(SeekRound(s), q, size, bound + SS)
<1> DEFINE g == GetFat(s.v, s.fp.clust)
           fp == [s.fp EXCEPT !.clust = g.val, !.fptr = @ + SS]
           t == [s EXCEPT !.v = g.v, !.fp = fp]
           t2 == [s EXCEPT !.v = g.v, !.res = "INT_ERR"]
           r == SeekRound(s)
<1>1. /\ DOMAIN s = {"v", "fp", "res"} /\ Calm(s.v, q)
      /\ DOMAIN s.fp = FileFields /\ "MODIFIED" \notin s.fp.flag /\ s.fp.objsize = size
      /\ s.fp.fptr \in Nat /\ s.fp.fptr <= bound /\ SS \in Nat
  BY FatAssumption DEF InSeek
<1>2. Calm(g.v, q)
  BY <1>1, LinkCalm
<1>3. r \in {s, t, t2}
  BY <1>1 DEF SeekRound
<1> HIDE DEF g, r
<1>4. /\ DOMAIN fp = FileFields /\ fp.flag = s.fp.flag /\ fp.objsize = size
      /\ fp.fptr = s.fp.fptr + SS
  BY <1>1 DEF FileFields
<1> HIDE DEF fp
<1>5. /\ DOMAIN t = {"v", "fp", "res"} /\ t.v = g.v /\ t.fp = fp
      /\ DOMAIN t2 = {"v", "fp", "res"} /\ t2.v = g.v /\ t2.fp = s.fp
  BY <1>1
<1> HIDE DEF t, t2
<1>6. InSeek(s, q, size, bound + SS) /\ InSeek(t, q, size, bound + SS) /\ InSeek(t2, q, size, bound + SS)
  BY <1>1, <1>2, <1>4, <1>5 DEF InSeek
<1>7. QED BY <1>3, <1>6 DEF r

\* The clusters passed on the way to ofs are before it.
LEMMA PassesBefore ==
    ASSUME NEW ofs \in Nat, ofs # 0
    PROVE  (ofs - 1) \div SS \in Nat /\ ((ofs - 1) \div SS) * SS <= ofs - 1
<1> DEFINE x == ofs - 1
           n == x \div SS
<1>1. x \in Nat /\ SS \in Nat \ {0}
  BY FatAssumption
<1> HIDE DEF x
<1>2. n \in Nat /\ (x % SS) \in Nat /\ x = SS * n + (x % SS)
  BY <1>1, Divided
<1> HIDE DEF n
<1>3. SS * n = n * SS /\ n * SS \in Nat
  BY <1>1, <1>2
<1>4. n * SS <= x
  <2> DEFINE y == n * SS
             z == x % SS
  <2>1. x = y + z /\ y \in Nat /\ z \in Nat /\ x \in Nat
    BY <1>1, <1>2, <1>3
  <2> HIDE DEF y, z
  <2>2. y <= x
    BY <2>1
  <2>3. QED BY <2>2 DEF y
<1>5. QED BY <1>2, <1>4 DEF x, n

\* The loop of f_lseek does not go past the end of the file.
LEMMA Sought ==
    ASSUME NEW v, NEW q, NEW fp, NEW base \in Nat, NEW ofs \in Nat, ofs # 0, NEW size \in Nat,
           base + ofs <= size, InSeek([v |-> v, fp |-> fp, res |-> "OK"], q, size, base)
    PROVE  InSeek(SeekLoop(v, fp, ofs), q, size, size)
<1> DEFINE N == (ofs - 1) \div SS
           start == [v |-> v, fp |-> fp, res |-> "OK"]
           rest == ofs - N * SS
           Rest(s) == IF s.res = "OK" THEN [s EXCEPT !.fp.fptr = @ + ofs - N * SS] ELSE s
<1>1. N \in Nat /\ N * SS <= ofs - 1 /\ N * SS \in Nat /\ SS \in Nat
  BY PassesBefore, FatAssumption
<1>0. PICK run : SeekingRun(run, v, fp, ofs, N)
  BY <1>1, SeekRuns
<1> HIDE DEF N
<1>2. /\ run = [i \in 0..N |-> IF i = 0 THEN start ELSE SeekRound(run[i - 1])]
      /\ SeekLoop(v, fp, ofs) = Rest(run[N])
  BY <1>0 DEF SeekingRun
<1> DEFINE S == {n \in 0..N : InSeek(run[n], q, size, base + n * SS)}
<1>3. 0 \in S
  <2>1. run[0] = start /\ 0 \in 0..N
    <3> HIDE DEF start
    <3>1. QED BY <1>1, <1>2
  <2>2. base + 0 * SS = base
    BY <1>1
  <2>3. QED BY <2>1, <2>2
<1> HIDE DEF start
<1>4. ASSUME NEW n \in 0..N, n < N, n \in S PROVE n + 1 \in S
  <2>1. n + 1 \in 0..N /\ n + 1 # 0 /\ n + 1 - 1 = n /\ n \in Nat
    BY <1>1, <1>4
  <2>2. run[n + 1] = SeekRound(run[n + 1 - 1])
    BY <1>2, <2>1
  <2>3. base + n * SS \in Nat /\ base + n * SS + SS = base + (n + 1) * SS
    BY <1>1, <2>1
  <2>4. InSeek(SeekRound(run[n]), q, size, base + n * SS + SS)
    BY <1>4, <2>3, RoundSought
  <2>5. QED BY <2>1, <2>2, <2>3, <2>4
<1>5. N \in S
  <2> HIDE DEF S
  <2>1. 0..N \subseteq S
    BY <1>1, <1>3, <1>4, Induct
  <2>2. QED BY <1>1, <2>1
<1> DEFINE s == run[N]
           y == N * SS
           f2 == [s.fp EXCEPT !.fptr = @ + ofs - y]
           t == [s EXCEPT !.fp = f2]
<1>6. y \in Nat /\ y <= ofs - 1 /\ InSeek(s, q, size, base + y)
  BY <1>1, <1>5
<1>7. SeekLoop(v, fp, ofs) = IF s.res = "OK" THEN t ELSE s
  BY <1>2
<1> HIDE DEF y, s
<1>8. /\ DOMAIN s = {"v", "fp", "res"} /\ Calm(s.v, q)
      /\ DOMAIN s.fp = FileFields /\ "MODIFIED" \notin s.fp.flag /\ s.fp.objsize = size
      /\ s.fp.fptr \in Nat /\ s.fp.fptr <= base + y
  BY <1>6 DEF InSeek
<1>9. /\ DOMAIN f2 = FileFields /\ f2.flag = s.fp.flag /\ f2.objsize = size
      /\ f2.fptr = s.fp.fptr + ofs - y
  BY <1>8 DEF FileFields
<1> HIDE DEF f2
<1>10. DOMAIN t = {"v", "fp", "res"} /\ t.v = s.v /\ t.fp = f2
  BY <1>8
<1> HIDE DEF t
<1>11. f2.fptr \in Nat /\ f2.fptr <= size /\ s.fp.fptr <= size
  BY <1>6, <1>8, <1>9
<1>12. QED BY <1>7, <1>8, <1>9, <1>10, <1>11 DEF InSeek

\* Where it begins is not past the target.
LEMMA SeekStarts ==
    ASSUME NEW fp, ReadOnly(fp), NEW ofs \in Nat, ofs # 0
    PROVE  LET f == SeekStart(fp, ofs)
           IN  /\ DOMAIN f = FileFields /\ f.flag = fp.flag /\ f.objsize = fp.objsize
               /\ f.fptr \in Nat /\ f.fptr <= ofs - 1
<1> DEFINE a == (fp.fptr - 1) \div SS
           b == (ofs - 1) \div SS
           f == SeekStart(fp, ofs)
<1>1. DOMAIN fp = FileFields /\ fp.fptr \in Nat
  BY DEF ReadOnly
<1>2. CASE Stays(fp, ofs)
  <2>1. fp.fptr \in Nat /\ fp.fptr # 0 /\ a <= b
    BY <1>1, <1>2 DEF Stays
  <2>2. a \in Nat /\ b \in Nat /\ b * SS <= ofs - 1 /\ SS \in Nat
    BY <2>1, PassesBefore, FatAssumption
  <2> DEFINE x == a * SS
             g == [fp EXCEPT !.fptr = x]
  <2>3. f = g
    BY <1>2 DEF SeekStart
  <2> HIDE DEF a, b, f
  <2>4. x \in Nat /\ x <= ofs - 1
    <3>1. PICK k \in Nat : b = a + k
      <4>1. b - a \in Nat /\ b = a + (b - a)
        BY <2>1, <2>2
      <4>2. QED BY <4>1
    <3>2. b * SS = a * SS + k * SS /\ a * SS \in Nat /\ k * SS \in Nat
      BY <2>2, <3>1
    <3> DEFINE y == k * SS
               z == b * SS
    <3>3. z = x + y /\ x \in Nat /\ y \in Nat /\ z <= ofs - 1
      BY <2>2, <3>2
    <3> HIDE DEF x, y, z
    <3>4. QED BY <3>3
  <2> HIDE DEF x
  <2>5. DOMAIN g = FileFields /\ g.flag = fp.flag /\ g.objsize = fp.objsize /\ g.fptr = x
    BY <1>1 DEF FileFields
  <2> HIDE DEF g
  <2>6. QED BY <2>3, <2>4, <2>5 DEF f
<1>3. CASE ~Stays(fp, ofs)
  <2> DEFINE g == [fp EXCEPT !.fptr = 0, !.clust = fp.sclust]
  <2>1. f = g
    BY <1>3 DEF SeekStart
  <2>2. DOMAIN g = FileFields /\ g.flag = fp.flag /\ g.objsize = fp.objsize /\ g.fptr = 0
    BY <1>1 DEF FileFields
  <2> HIDE DEF f, g
  <2>3. QED BY <2>1, <2>2 DEF f
<1>4. QED BY <1>2, <1>3

\* f_lseek leaves a calm volume calm.
LEMMA FileSought ==
    ASSUME NEW v, NEW q, Calm(v, q), NEW fp, ReadOnly(fp), NEW offset \in Nat
    PROVE  LET r == FLseek(v, fp, offset) IN Calm(r.v, q) /\ ReadOnly(r.fp)
<1> DEFINE ofs  == Least(offset, fp.objsize)
           f    == SeekStart(fp, ofs)
           s    == SeekLoop(v, f, ofs - f.fptr)
           sect == Sector(s.v, s.fp.clust)
           fp0  == [fp EXCEPT !.fptr = 0]
           fp2  == [s.fp EXCEPT !.buf = s.v.disk[sect], !.sect = sect]
           t    == [s EXCEPT !.fp = fp2]
           r    == FLseek(v, fp, offset)
<1>1. /\ DOMAIN fp = FileFields /\ "MODIFIED" \notin fp.flag
      /\ fp.fptr \in Nat /\ fp.objsize \in Nat /\ fp.fptr <= fp.objsize
  BY DEF ReadOnly
<1>2. ofs \in Nat /\ ofs <= fp.objsize
  BY <1>1 DEF Least
<1>3. r = IF ofs = 0 THEN [v |-> v, res |-> "OK", fp |-> fp0] ELSE FillBuf(s, sect)
  BY DEF FLseek
<1> HIDE DEF r, ofs
<1>4. CASE ofs = 0
  <2>1. ReadOnly(fp0)
    BY <1>1 DEF ReadOnly, FileFields
  <2>2. r = [v |-> v, res |-> "OK", fp |-> fp0]
    BY <1>3, <1>4
  <2> HIDE DEF fp0
  <2>3. QED BY <2>1, <2>2 DEF r
<1>5. CASE ofs # 0
  <2>1. /\ DOMAIN f = FileFields /\ f.flag = fp.flag /\ f.objsize = fp.objsize
        /\ f.fptr \in Nat /\ f.fptr <= ofs - 1
    BY <1>2, <1>5, SeekStarts
  <2> HIDE DEF f
  <2>2. InSeek([v |-> v, fp |-> f, res |-> "OK"], q, fp.objsize, f.fptr)
    BY <1>1, <2>1 DEF InSeek
  <2>3. InSeek(s, q, fp.objsize, fp.objsize)
    <3>1. ofs - f.fptr \in Nat /\ ofs - f.fptr # 0 /\ f.fptr + (ofs - f.fptr) <= fp.objsize
      BY <1>1, <1>2, <2>1
    <3>2. QED BY <1>1, <2>1, <2>2, <3>1, Sought
  <2> HIDE DEF s, sect
  <2>4. /\ DOMAIN s = {"v", "fp", "res"} /\ Calm(s.v, q) /\ ReadOnly(s.fp)
    BY <1>1, <2>3 DEF InSeek, ReadOnly
  <2>5. r = s \/ r = t
    BY <1>3, <1>5, <2>4 DEF FillBuf
  <2>6. ReadOnly(fp2)
    BY <2>4 DEF ReadOnly, FileFields
  <2> HIDE DEF fp2
  <2>7. t.v = s.v /\ t.fp = fp2
    BY <2>4
  <2> HIDE DEF t
  <2>8. QED BY <2>4, <2>5, <2>6, <2>7 DEF r
<1>6. QED BY <1>4, <1>5

-----------------------------------------------------------------------------
(* Loading a program.                                                       *)

\* The fields of a program are naturals.
LEMMA NumbersAre == ASSUME NEW b PROVE Number(b) \in Nat
BY FilesAssumption DEF Number

\* SYSCALL_READFILE leaves a calm volume calm.
LEMMA FileAnswered ==
    ASSUME NEW v, NEW q, Calm(v, q), NEW path, IsPath(path), NEW size \in BufSizes
    PROVE  Calm(ReadFileCall(v, path, size).v, q)
<1> DEFINE o == FOpen(v, path, {"R"})
           r == FRead(o.v, o.fp, size - 1)
           c == ReadFileCall(v, path, size)
<1>1. Calm(o.v, q) /\ (o.res = "OK" => ReadOnly(o.fp))
  BY OpenedToRead
<1>2. size - 1 \in Nat
  BY FilesAssumption
<1>3. c.v = IF o.res = "OK" THEN FClose(r.v, r.fp) ELSE o.v
  BY DEF ReadFileCall
<1> HIDE DEF o, c
<1>4. ASSUME o.res = "OK" PROVE Calm(FClose(r.v, r.fp), q)
  <2>1. Calm(r.v, q) /\ ReadOnly(r.fp)
    BY <1>1, <1>2, <1>4, FileRead
  <2> HIDE DEF r
  <2>2. FClose(r.v, r.fp) = r.v
    BY <2>1 DEF FClose, FSync, ReadOnly
  <2>3. QED BY <2>1, <2>2
<1>5. Calm(c.v, q)
  BY <1>1, <1>3, <1>4
<1>6. QED BY <1>5 DEF c

\* The loader between two program headers.
InLoad(s, q) ==
    DOMAIN s = {"v", "fp", "image", "more"} /\ Calm(s.v, q) /\ ReadOnly(s.fp)

\* Loading a segment leaves a calm volume calm.
LEMMA SegmentRead ==
    ASSUME NEW s, NEW q, InLoad(s, q), NEW i \in Nat
    PROVE  InLoad(SegmentLoad(s, i), q)
<1> DEFINE at == EHDR + i * PHDR
           l == FLseek(s.v, s.fp, at)
           h == FRead(l.v, l.fp, PHDR)
           k == FLseek(h.v, h.fp, Number(h.data[1]))
           r == FRead(k.v, k.fp, Number(h.data[2]))
           t == [s EXCEPT !.v = h.v, !.image = <<>>, !.more = FALSE]
           u == [s EXCEPT !.v = r.v, !.fp = r.fp, !.image = Append(@, r.data)]
           w == [s EXCEPT !.v = h.v, !.fp = h.fp, !.image = Append(@, <<>>)]
           x == SegmentLoad(s, i)
<1>1. x \in {s, t, u, w}
  BY ZenonT(60) DEF SegmentLoad
<1>2. DOMAIN s = {"v", "fp", "image", "more"} /\ Calm(s.v, q) /\ ReadOnly(s.fp)
  BY DEF InLoad
<1>3. at \in Nat /\ PHDR \in Nat
  BY FilesAssumption
<1> HIDE DEF at, x
<1>4. Calm(l.v, q) /\ ReadOnly(l.fp)
  BY <1>2, <1>3, FileSought
<1> HIDE DEF l
<1>5. Calm(h.v, q) /\ ReadOnly(h.fp)
  BY <1>3, <1>4, FileRead
<1> HIDE DEF h
<1>6. Calm(k.v, q) /\ ReadOnly(k.fp)
  BY <1>5, NumbersAre, FileSought
<1> HIDE DEF k
<1>7. Calm(r.v, q) /\ ReadOnly(r.fp)
  BY <1>6, NumbersAre, FileRead
<1> HIDE DEF r
<1>8. InLoad(t, q) /\ InLoad(u, q) /\ InLoad(w, q)
  BY <1>2, <1>5, <1>7 DEF InLoad
<1> HIDE DEF t, u, w
<1>9. QED BY <1>1, <1>8 DEF x

\* So does loading all of them.
LEMMA SegmentsRead ==
    ASSUME NEW v, NEW q, Calm(v, q), NEW fp, ReadOnly(fp), NEW N \in Nat
    PROVE  Calm(LoadSegments(v, fp, N).v, q)
<1> DEFINE start == [v |-> v, fp |-> fp, image |-> <<>>, more |-> TRUE]
<1>0. PICK run : LoadingRun(run, v, fp, N)
  BY LoadRuns
<1>1. /\ run = [i \in 0..N |-> IF i = 0 THEN start ELSE SegmentLoad(run[i - 1], i - 1)]
      /\ LoadSegments(v, fp, N) = run[N]
  BY <1>0 DEF LoadingRun
<1> DEFINE S == {n \in 0..N : InLoad(run[n], q)}
<1>2. 0 \in S
  <2>1. run[0] = start /\ 0 \in 0..N
    <3> HIDE DEF start
    <3>1. QED BY <1>1
  <2>2. InLoad(start, q)
    BY DEF InLoad
  <2>3. QED BY <2>1, <2>2
<1> HIDE DEF start
<1>3. ASSUME NEW n \in 0..N, n < N, n \in S PROVE n + 1 \in S
  <2>1. n + 1 \in 0..N /\ n + 1 # 0 /\ n + 1 - 1 = n /\ n \in Nat
    BY <1>3
  <2>2. run[n + 1] = SegmentLoad(run[n + 1 - 1], n + 1 - 1)
    BY <1>1, <2>1
  <2>3. InLoad(run[n], q)
    BY <1>3
  <2>4. InLoad(SegmentLoad(run[n], n), q)
    BY <2>1, <2>3, SegmentRead
  <2>5. run[n + 1] = SegmentLoad(run[n], n)
    BY <2>1, <2>2
  <2>6. QED BY <2>1, <2>4, <2>5
<1>4. N \in S
  <2> HIDE DEF S
  <2>1. 0..N \subseteq S
    BY <1>2, <1>3, Induct
  <2>2. QED BY <2>1
<1>5. QED BY <1>1, <1>4 DEF InLoad

\* load_elf leaves a calm volume calm, whatever the file holds.
LEMMA ElfLoaded ==
    ASSUME NEW v, NEW q, Calm(v, q), NEW path, IsPath(path)
    PROVE  Calm(LoadElf(v, path).v, q)
<1> DEFINE o == FOpen(v, path, {"R"})
           h == FRead(o.v, o.fp, EHDR)
           l == LoadSegments(h.v, h.fp, Number(h.data[2]))
           c == LoadElf(v, path)
<1>1. Calm(o.v, q) /\ (o.res = "OK" => ReadOnly(o.fp))
  BY OpenedToRead
<1>2. c.v = o.v \/ (o.res = "OK" /\ (c.v = h.v \/ c.v = l.v))
  BY DEF LoadElf
<1> HIDE DEF o, c
<1>3. ASSUME o.res = "OK" PROVE Calm(h.v, q) /\ Calm(l.v, q)
  <2>1. EHDR \in Nat
    BY FilesAssumption
  <2>2. Calm(h.v, q) /\ ReadOnly(h.fp)
    BY <1>1, <1>3, <2>1, FileRead
  <2> HIDE DEF h
  <2>3. QED BY <2>2, NumbersAre, SegmentsRead
<1> HIDE DEF h, l
<1>4. Calm(c.v, q)
  BY <1>1, <1>2, <1>3
<1>5. QED BY <1>4 DEF c

-----------------------------------------------------------------------------
(* Mounting, which reads only.                                              *)

\* A volume that is being mounted.
Mounting(v, disk) ==
    /\ DOMAIN v = Fields /\ v.disk = disk /\ v.log = <<>>
    /\ v.wflag = FALSE /\ v.fsi_flag = 0 /\ v.mounted = FALSE

\* The window of a volume that is being mounted shows the sector asked for.
LEMMA WindowLoaded ==
    ASSUME NEW v, NEW disk, Mounting(v, disk), NEW sect, sect # v.winsect
    PROVE  LET w == MoveWindow(v, sect)
           IN  /\ Mounting(w, disk) /\ w.win = disk[sect] /\ w.winsect = sect
               /\ w.volbase = v.volbase
<1> DEFINE w == MoveWindow(v, sect)
<1>1. w = [v EXCEPT !.win = disk[sect], !.winsect = sect]
  BY DEF MoveWindow, SyncWindow, Mounting
<1>2. QED BY <1>1 DEF Mounting, Fields

\* check_fs tells what the sector is.
LEMMA SectorChecked ==
    ASSUME NEW v, NEW disk, Mounting(v, disk), NEW sect, sect # NOWHERE
    PROVE  LET c == CheckFs(v, sect)
           IN  /\ Mounting(c.v, disk) /\ c.v.win = disk[sect] /\ c.v.winsect = sect
               /\ c.fmt = IF disk[sect].vbr THEN 0 ELSE IF disk[sect].sign THEN 2 ELSE 3
<1> DEFINE u == [v EXCEPT !.wflag = FALSE, !.winsect = NOWHERE]
           w == MoveWindow(u, sect)
<1>1. Mounting(u, disk) /\ u.winsect = NOWHERE
  BY DEF Mounting, Fields
<1> HIDE DEF u
<1>2. Mounting(w, disk) /\ w.win = disk[sect] /\ w.winsect = sect
  BY <1>1, WindowLoaded
<1> HIDE DEF w
<1>3. CheckFs(v, sect) = [v |-> w, fmt |-> IF w.win.vbr THEN 0 ELSE IF w.win.sign THEN 2 ELSE 3]
  BY DEF CheckFs, w, u
<1>4. QED BY <1>2, <1>3

\* The first partition that is a FAT volume is the one the disk boots from.
LEMMA PartitionTaken ==
    ASSUME NEW v, NEW disk, NEW b \in Nat \ {0}, Mounting(v, disk), v.win = disk[0],
           Laid(disk, b), disk[b].vbr, NEW i \in 1..Len(disk[0].parts), disk[0].parts[i] = b,
           \A k \in 1..i - 1 : LET p == disk[0].parts[k]
                               IN  p = 0 \/ (p \in DOMAIN disk \ Volume(b) /\ ~disk[p].vbr)
    PROVE  TryParts(v, v.win.parts) = CheckFs(v, b)
<1> DEFINE parts == disk[0].parts
           fat == {k \in {l \in 1..Len(parts) : parts[l] # 0} : CheckFs(v, parts[k]).fmt < 2}
<1>1. NOWHERE \notin Nat
  BY DEF NOWHERE
<1>2. i \in fat
  <2>1. CheckFs(v, b).fmt = 0
    BY <1>1, SectorChecked
  <2>2. QED BY <2>1
<1>3. ASSUME NEW k \in fat PROVE i <= k
  <2>1. SUFFICES ASSUME k < i PROVE FALSE
    OBVIOUS
  <2>2. k \in 1..i - 1
    BY <2>1
  <2>3. parts[k] \in DOMAIN disk /\ ~disk[parts[k]].vbr
    BY <1>3, <2>2
  <2>4. parts[k] # NOWHERE
    BY <1>1, <2>3 DEF Laid
  <2>5. CheckFs(v, parts[k]).fmt \in {2, 3}
    BY <2>3, <2>4, SectorChecked
  <2>6. CheckFs(v, parts[k]).fmt < 2
    BY <1>3
  <2>7. QED BY <2>5, <2>6
<1>4. fat # {} /\ TryParts(v, v.win.parts) = CheckFs(v, parts[CHOOSE k \in fat : \A l \in fat : k <= l])
  BY <1>2 DEF TryParts
<1>5. fat \subseteq Nat
  OBVIOUS
<1> HIDE DEF fat
<1> DEFINE m == CHOOSE k \in fat : \A l \in fat : k <= l
<1>6. m \in fat /\ \A l \in fat : m <= l
  BY <1>2, <1>3
<1> HIDE DEF m
<1>7. m = i
  BY <1>2, <1>3, <1>5, <1>6
<1>8. QED BY <1>4, <1>7 DEF m

\* find_volume finds it.
LEMMA VolumeFound ==
    ASSUME NEW v, NEW disk, NEW b, Mounting(v, disk), Laid(disk, b), Boots(disk, b)
    PROVE  LET c == FindVolume(v)
           IN  Mounting(c.v, disk) /\ c.fmt = 0 /\ c.v.win = disk[b] /\ c.v.winsect = b
<1> DEFINE z == CheckFs(v, 0)
           c == FindVolume(v)
           t == TryParts(z.v, z.v.win.parts)
<1>1. NOWHERE \notin Nat /\ 0 # NOWHERE
  BY DEF NOWHERE
<1>2. /\ Mounting(z.v, disk) /\ z.v.win = disk[0] /\ z.v.winsect = 0
      /\ z.fmt = IF disk[0].vbr THEN 0 ELSE IF disk[0].sign THEN 2 ELSE 3
  BY <1>1, SectorChecked
<1>3. c = IF z.fmt # 2 THEN z ELSE t
  BY DEF FindVolume
<1> HIDE DEF c
<1>4. CASE b = 0 /\ disk[0].vbr
  <2>1. z.fmt = 0
    BY <1>2, <1>4
  <2> HIDE DEF z
  <2>2. c = z
    BY <1>3, <2>1
  <2>3. QED BY <1>2, <1>4, <2>1, <2>2 DEF c
<1>5. ASSUME ~(b = 0 /\ disk[0].vbr)
      PROVE  Mounting(c.v, disk) /\ c.fmt = 0 /\ c.v.win = disk[b] /\ c.v.winsect = b
  <2>1. b # 0 /\ disk[b].vbr /\ ~disk[0].vbr /\ disk[0].sign
    BY <1>5 DEF Boots
  <2>2. PICK i \in 1..Len(disk[0].parts) :
             /\ disk[0].parts[i] = b
             /\ \A k \in 1..i - 1 : LET p == disk[0].parts[k]
                                    IN  p = 0 \/ (p \in DOMAIN disk \ Volume(b) /\ ~disk[p].vbr)
    BY <1>5 DEF Boots
  <2>3. b \in Nat \ {0}
    BY <2>1 DEF Laid
  <2>4. z.fmt = 2
    BY <1>2, <2>1
  <2> DEFINE y == z.v
  <2>5. Mounting(y, disk) /\ y.win = disk[0]
    BY <1>2
  <2> HIDE DEF y
  <2>6. TryParts(y, y.win.parts) = CheckFs(y, b)
    BY <2>1, <2>2, <2>3, <2>5, PartitionTaken
  <2>7. t = CheckFs(y, b)
    BY <2>6 DEF y
  <2> HIDE DEF t, z
  <2>8. c = CheckFs(y, b)
    BY <1>3, <2>4, <2>7
  <2>9. QED BY <1>1, <2>1, <2>3, <2>5, <2>8, SectorChecked
<1>6. QED BY <1>4, <1>5 DEF c

\* The volume as f_mount leaves it.
AsMounted(v, disk, b) ==
    /\ DOMAIN v = Fields /\ v.mounted = TRUE /\ v.volbase = b
    /\ v.disk = disk /\ v.log = <<>> /\ v.wflag = FALSE /\ v.fsi_flag = 0
    /\ v.win = disk[v.winsect]
    /\ disk[b + 1].lead => v.free_clst = disk[b + 1].free

\* f_mount mounts it, and writes nothing.
LEMMA VolumeMounted ==
    ASSUME NEW disk, NEW b, Laid(disk, b), Boots(disk, b)
    PROVE  AsMounted(FMount(disk).v, disk, b)
<1> DEFINE n == Unmounted(disk)
           x == [n EXCEPT !.mounted = FALSE]
           c == FindVolume(x)
           y == [c.v EXCEPT !.volbase = c.v.winsect]
           s == y.volbase + 1
           w == MoveWindow(y, s)
           l == LoadFSInfo(y)
           z == [l EXCEPT !.mounted = TRUE]
<1>1. Mounting(x, disk)
  BY DEF Unmounted, Mounting, Fields
<1>2. n.mounted = FALSE
  BY DEF Unmounted
<1>3. FMount(disk) = IF c.fmt >= 2 THEN [v |-> c.v, res |-> "NO_FILESYSTEM"] ELSE [v |-> z, res |-> "OK"]
  <2> HIDE DEF n
  <2>1. FMount(disk) = MountVolume(n)
    BY DEF FMount, n
  <2>2. QED BY <1>2, <2>1 DEF MountVolume
<1> HIDE DEF x, n
<1>4. Mounting(c.v, disk) /\ c.fmt = 0 /\ c.v.winsect = b
  BY <1>1, VolumeFound
<1> HIDE DEF c
<1>5. FMount(disk) = [v |-> z, res |-> "OK"]
  BY <1>3, <1>4
<1>6. Mounting(y, disk) /\ y.winsect = b /\ y.volbase = b
  BY <1>4 DEF Mounting, Fields
<1> HIDE DEF y
<1>7. s # y.winsect
  BY <1>6 DEF Laid
<1>8. Mounting(w, disk) /\ w.win = disk[s] /\ w.winsect = s /\ w.volbase = b
  BY <1>6, <1>7, WindowLoaded
<1> DEFINE u == [w EXCEPT !.fsi_flag = 0, !.free_clst = UNKNOWN, !.last_clst = UNKNOWN]
           u2 == [u EXCEPT !.free_clst = w.win.free, !.last_clst = w.win.next]
<1>9. l = IF w.win.lead THEN u2 ELSE u
  BY DEF LoadFSInfo
<1>15. disk[b + 1].lead => l = u2 /\ u2.free_clst = disk[b + 1].free
  <2>1. s = b + 1
    BY <1>6
  <2>2. w.win = disk[b + 1] /\ DOMAIN w = Fields
    BY <1>8, <2>1 DEF Mounting
  <2> HIDE DEF w, s, l
  <2>3. u2.free_clst = w.win.free
    BY <2>2 DEF Fields
  <2>4. QED BY <1>9, <2>2, <2>3
<1> HIDE DEF w, s, l
<1>10. Mounting(u, disk) /\ u.win = disk[u.winsect] /\ u.volbase = b
  BY <1>8 DEF Mounting, Fields
<1> HIDE DEF u
<1>11. Mounting(u2, disk) /\ u2.win = disk[u2.winsect] /\ u2.volbase = b
  BY <1>10 DEF Mounting, Fields
<1> HIDE DEF u2
<1>12. Mounting(l, disk) /\ l.win = disk[l.winsect] /\ l.volbase = b
  BY <1>9, <1>10, <1>11
<1>13. /\ DOMAIN z = Fields /\ z.mounted = TRUE /\ z.volbase = b
       /\ z.disk = disk /\ z.log = <<>> /\ z.wflag = FALSE /\ z.fsi_flag = 0
       /\ z.win = disk[z.winsect]
       /\ disk[b + 1].lead => z.free_clst = disk[b + 1].free
  BY <1>12, <1>15 DEF Mounting, Fields
<1> HIDE DEF z
<1>14. QED BY <1>5, <1>13 DEF AsMounted

\* Of the places in the chains, only those of clusters matter.
LEMMA PlacesOfClusters ==
    ASSUME NEW link, NEW content, NEW dirs, NEW first, NEW nth, Sound(link, content, dirs, first, nth)
    PROVE  LET f == [c \in Clusters |-> first[c]]
               n == [c \in Clusters |-> nth[c]]
           IN  /\ Sound(link, content, dirs, f, n)
               /\ \A level : Tidy(content, dirs, first, nth, level) => Tidy(content, dirs, f, n, level)
<1> DEFINE f == [c \in Clusters |-> first[c]]
           n == [c \in Clusters |-> nth[c]]
<1>1. ASSUME NEW c \in Clusters PROVE f[c] = first[c] /\ n[c] = nth[c]
  OBVIOUS
<1>2. LinksSound(link, dirs) /\ ChainsSound(link, dirs, first, nth)
      /\ EntriesSound(link, content, dirs, first, nth)
  BY DEF Sound
<1> HIDE DEF f, n
<1>3. ChainsSound(link, dirs, f, n)
  BY <1>1, <1>2 DEF ChainsSound
<1>4. ASSUME NEW c, NEW size, SizeFits(link, first, nth, c, size)
      PROVE  SizeFits(link, f, n, c, size)
  BY <1>1, <1>4 DEF SizeFits
<1>5. EntriesSound(link, content, dirs, f, n)
  BY <1>2, <1>4 DEF EntriesSound, EntrySound
<1>6. Sound(link, content, dirs, f, n)
  BY <1>2, <1>3, <1>5 DEF Sound
<1>7. ASSUME NEW level, Tidy(content, dirs, first, nth, level)
      PROVE  Tidy(content, dirs, f, n, level)
  <2>1. \A d \in dirs : content[d] = content[d] /\ f[d] = first[d] /\ n[d] = nth[d]
    BY <1>1, <1>2 DEF LinksSound
  <2>2. QED BY <1>7, <2>1, TidyAlike
<1>8. QED BY <1>6, <1>7 DEF f, n

\* A disk to which nothing has been written.
LEMMA NothingLogged ==
    ASSUME NEW disk, IsDisk(disk), NEW b, NEW dirs, Proper(disk, b, dirs)
    PROVE  IsLog(<<>>) /\ disk = CutDisk(disk, <<>>, Len(<<>>)) /\ Safe(disk, b, <<>>)
<1>1. IsLog(<<>>) /\ Len(<<>>) = 0 /\ CutDisk(disk, <<>>, 0) = disk
  BY EmptyLog, NothingCut DEF IsDisk
<1>2. QED BY <1>1 DEF Safe

\* The volume between two calls, and the disk as the next call will find it.
Resting(v, q) == Calm(v, q) /\ q.base.disk = v.disk

(* What is kept twice on the disk agrees, and the directories, whose clusters
   are dirs, lead to all that is in use.                                    *)
Whole(disk, b, dirs) ==
    /\ Mirrored(disk, b) /\ Informed(disk, b, Cardinality(Unlinked(Links(disk, b))))
    /\ Untended(Links(disk, b), Held(disk, b), dirs) = {}
    /\ \E first, nth, level : /\ SoundDisk(disk, b, dirs, first, nth)
                              /\ Tidy(Held(disk, b), dirs, first, nth, level)

\* A proper disk is mounted at rest.
LEMMA MountedRests ==
    ASSUME NEW disk, IsDisk(disk), NEW b, NEW dirs, Proper(disk, b, dirs),
           NEW whole, whole => Whole(disk, b, dirs)
    PROVE  \E q : Resting(FMount(disk).v, q) /\ q.base.whole = whole
<1>1. PICK first, nth, level : /\ SoundDisk(disk, b, dirs, first, nth)
                               /\ whole => Tidy(Held(disk, b), dirs, first, nth, level)
  <2>1. CASE whole
    BY <2>1 DEF Whole
  <2>2. CASE ~whole
    BY <2>2 DEF Proper
  <2>3. QED BY <2>1, <2>2
<1>2. Laid(disk, b) /\ Boots(disk, b) /\ b \in Nat
  BY <1>1 DEF SoundDisk, Laid
<1> DEFINE f == [c \in Clusters |-> first[c]]
           n == [c \in Clusters |-> nth[c]]
           link == Links(disk, b)
           content == Held(disk, b)
           q == [b |-> b, base |-> [disk |-> disk, whole |-> whole, level |-> level], due |-> 0, lost |-> {},
                 dirs |-> dirs, link |-> link, content |-> content, first |-> f, nth |-> n]
           v == FMount(disk).v
<1>3. Sound(link, content, dirs, f, n) /\ IsLink(link) /\ IsLink(content)
      /\ DOMAIN f = Clusters /\ DOMAIN n = Clusters
  BY <1>1, PlacesOfClusters DEF SoundDisk, IsLink, Links, Held
<1>14. whole => Tidy(content, dirs, f, n, level) /\ Untended(link, content, dirs) = {}
  <2>1. whole => Untended(link, content, dirs) = {}
    BY DEF Whole
  <2>2. whole => Tidy(content, dirs, f, n, level)
    BY <1>1, PlacesOfClusters DEF SoundDisk
  <2>3. QED BY <2>1, <2>2
<1>4. /\ DOMAIN v = Fields /\ v.mounted = TRUE /\ v.volbase = b
      /\ v.disk = disk /\ v.log = <<>> /\ v.wflag = FALSE /\ v.fsi_flag = 0
      /\ v.win = disk[v.winsect]
      /\ disk[b + 1].lead => v.free_clst = disk[b + 1].free
  <2>1. AsMounted(FMount(disk).v, disk, b)
    BY <1>2, VolumeMounted
  <2>2. QED BY <2>1 DEF AsMounted
<1>5. Reads(disk, b, link, content)
  BY <1>2 DEF Reads
<1>6. IsLog(<<>>) /\ disk = CutDisk(disk, <<>>, Len(<<>>)) /\ Safe(disk, b, <<>>)
  BY NothingLogged
<1> HIDE DEF f, n, link, content, v
<1>7. /\ DOMAIN q = {"b", "base", "due", "lost", "dirs", "link", "content", "first", "nth"} /\ q.b = b
      /\ q.base.disk = disk /\ q.base.whole = whole /\ q.base.level = level /\ q.due = 0 /\ q.lost = {}
      /\ q.dirs = dirs /\ q.link = link /\ q.content = content /\ q.first = f /\ q.nth = n
  OBVIOUS
<1> HIDE DEF q
<1>8. IsShape(q)
  <2>1. Tended(q)
    BY <1>7, <1>14 DEF Tended
  <2>2. QED BY <1>2, <1>3, <1>7, <2>1 DEF IsShape
<1>9. IsVolume(v, q.b) /\ Logged(v, q) /\ Shows(v, q) /\ Ahead(v) = disk
  BY <1>4, <1>6, <1>7 DEF IsVolume, Logged, Shows, Ahead
<1>13. Tallied(v, q)
  <2>1. whole => Mirrored(disk, b) /\ Informed(disk, b, Cardinality(Unlinked(link)))
    BY DEF Whole, link
  <2>2. Cardinality(Unlinked(link)) \in Nat
    BY <1>3, FreeAreCounted
  <2>3. QED BY <1>4, <1>7, <2>1, <2>2 DEF Tallied, Informed
<1>10. Good(v, q)
  BY <1>4, <1>5, <1>7, <1>8, <1>9, <1>13 DEF Good
<1>11. Resting(v, q)
  BY <1>4, <1>7, <1>10 DEF Resting, Calm
<1>12. QED BY <1>7, <1>11 DEF v

\* The log of a call is forgotten when it has answered.
LEMMA CallEnded ==
    ASSUME NEW v, NEW q, Settled(v, q)
    PROVE  \E q2 : Resting([v EXCEPT !.log = <<>>], q2) /\ q2.base.whole = q.base.whole
<1> DEFINE w == [v EXCEPT !.log = <<>>]
           base == [disk |-> v.disk, whole |-> q.base.whole, level |-> q.base.level]
           q2 == [q EXCEPT !.base = base]
<1>1. /\ IsShape(q) /\ q.lost = {} /\ Tallied(v, q) /\ q.due = 0 /\ IsVolume(v, q.b) /\ Logged(v, q) /\ Shows(v, q)
      /\ Reads(Ahead(v), q.b, q.link, q.content) /\ Proper(v.disk, q.b, q.dirs)
      /\ v.wflag = FALSE /\ v.fsi_flag = 0
  BY DEF Settled, Good
<1>2. /\ DOMAIN w = Fields /\ w.mounted = v.mounted /\ w.volbase = v.volbase /\ w.wflag = v.wflag
      /\ w.fsi_flag = v.fsi_flag /\ w.disk = v.disk /\ w.win = v.win /\ w.winsect = v.winsect
      /\ w.log = <<>> /\ w.free_clst = v.free_clst
  BY <1>1 DEF IsVolume, Fields
<1>3. /\ DOMAIN q2 = DOMAIN q /\ q2.b = q.b /\ q2.due = q.due /\ q2.lost = q.lost
      /\ q2.base.disk = v.disk /\ q2.base.whole = q.base.whole /\ q2.base.level = q.base.level
      /\ q2.dirs = q.dirs /\ q2.link = q.link /\ q2.content = q.content
      /\ q2.first = q.first /\ q2.nth = q.nth
  <2>1. DOMAIN q = {"b", "base", "due", "lost", "dirs", "link", "content", "first", "nth"}
    BY <1>1 DEF IsShape
  <2>2. base.disk = v.disk /\ base.whole = q.base.whole /\ base.level = q.base.level
    OBVIOUS
  <2> HIDE DEF base
  <2>3. QED BY <2>1, <2>2
<1>4. IsDisk(v.disk)
  BY <1>1 DEF Logged, CutDisk, IsDisk
<1>5. IsLog(<<>>) /\ v.disk = CutDisk(v.disk, <<>>, Len(<<>>)) /\ Safe(v.disk, q.b, <<>>)
  BY <1>1, <1>4, NothingLogged
<1> HIDE DEF w, q2
<1>6. IsShape(q2)
  BY <1>1, <1>3 DEF IsShape, Tended
<1>7. IsVolume(w, q2.b) /\ Logged(w, q2) /\ Shows(w, q2) /\ Ahead(w) = Ahead(v)
  BY <1>1, <1>2, <1>3, <1>5 DEF IsVolume, Logged, Shows, Ahead
<1>11. Tallied(w, q2)
  BY <1>1, <1>2, <1>3 DEF Tallied
<1>8. Good(w, q2)
  BY <1>1, <1>2, <1>3, <1>6, <1>7, <1>11 DEF Good
<1>9. Resting(w, q2)
  BY <1>1, <1>2, <1>3, <1>8 DEF Resting, Calm
<1>10. QED BY <1>3, <1>9 DEF w

\* A calm volume is at rest when the call has ended.
LEMMA CalmEnded ==
    ASSUME NEW v, NEW q, Calm(v, q)
    PROVE  \E q2 : Resting([v EXCEPT !.log = <<>>], q2) /\ q2.base.whole = q.base.whole
<1>1. Settled(v, q)
  BY DEF Calm, Settled
<1>2. QED BY <1>1, CallEnded

-----------------------------------------------------------------------------
(* Paths and texts.                                                         *)

\* Paths joined are a path.
LEMMA PathsJoin ==
    ASSUME NEW p, NEW r, IsPath(p), IsPath(r)
    PROVE  IsPath(p \o r)
<1>1. PICK S, T : p \in Seq(S) /\ NUL \notin S /\ r \in Seq(T) /\ NUL \notin T
  BY DEF IsPath
<1>2. p \in Seq(S \cup T) /\ r \in Seq(S \cup T)
  BY <1>1
<1>3. p \o r \in Seq(S \cup T)
  BY <1>2
<1>4. QED BY <1>1, <1>3 DEF IsPath

\* The paths and texts that the calls are made with.
LEMMA PathsGiven ==
    /\ IsPath(<<"/">>)
    /\ \A p \in CdPaths \cup MkNames \cup RunNames \cup OpenPaths \cup {ShellPath} : IsPath(p)
    /\ \A t \in Texts \cup {<<>>} : IsText(t)
<1>1. IsPath(<<"/">>)
  <2>1. <<"/">> \in Seq({"/"}) /\ NUL \notin {"/"}
    BY DEF NUL
  <2>2. QED BY <2>1 DEF IsPath
<1>2. \A p \in CdPaths \cup MkNames \cup RunNames \cup OpenPaths \cup {ShellPath} : IsPath(p)
  BY FilesAssumption, PlainIsPath
<1>3. IsText(<<>>)
  <2>1. <<>> \in Seq({})
    OBVIOUS
  <2>2. QED BY <2>1 DEF IsText
<1>4. \A t \in Texts : IsText(t)
  BY FilesAssumption DEF IsText
<1>5. QED BY <1>1, <1>2, <1>3, <1>4

\* What the shell makes of a name typed.
LEMMA FullPathsAre ==
    ASSUME IsPath(cwd), NEW name \in MkNames \cup RunNames
    PROVE  \A path \in FullPaths(name) : IsPath(path)
<1>1. IsPath(name) /\ IsPath(<<"/">>)
  BY PathsGiven
<1>2. IsPath(cwd \o <<"/">>)
  BY <1>1, PathsJoin
<1>3. IsPath((cwd \o <<"/">>) \o name) /\ IsPath(cwd \o name)
  BY <1>1, <1>2, PathsJoin
<1>4. QED BY <1>1, <1>3 DEF FullPaths

-----------------------------------------------------------------------------
(* The inductive invariant: the volume is calm, with a shape in which nothing
   is shared; and the kernel's and the shell's directory are paths.         *)

IInv ==
    /\ \E q : Resting(vol, q) /\ q.base.whole = ~torn
    /\ IsPath(cwd) /\ IsPath(kcwd)

\* From a proper disk the machine starts with a volume at rest.
LEMMA BootsCalm ==
    ASSUME NEW disk, IsDisk(disk), NEW b, NEW dirs, Proper(disk, b, dirs),
           NEW whole, whole => Whole(disk, b, dirs)
    PROVE  \E q : q.base.whole = whole /\ Resting([Started(disk).v EXCEPT !.log = <<>>], q)
<1> DEFINE m == FMount(disk).v
           path == <<"/">> \o ShellPath
           l == LoadElf(m, path)
<1>1. PICK q : Calm(m, q) /\ q.base.whole = whole
  BY MountedRests DEF Resting
<1>2. IsPath(path)
  BY PathsGiven, PathsJoin
<1> HIDE DEF m, path
<1>3. Calm(l.v, q)
  BY <1>1, <1>2, ElfLoaded
<1>4. Started(disk).v = l.v
  BY DEF Started, m, path
<1> HIDE DEF l
<1>5. QED BY <1>1, <1>3, <1>4, CalmEnded

\* The images are proper disks, on which what is kept twice agrees.
LEMMA ImagesAreIntact ==
    ASSUME NEW disk \in Images
    PROVE  IsDisk(disk) /\ \E b, dirs : Proper(disk, b, dirs) /\ Whole(disk, b, dirs)
<1>1. IntactImage(disk)
  BY FilesAssumption
<1> DEFINE F(b) == [c \in Clusters |-> Place(Links(disk, b), c).first]
           N(b) == [c \in Clusters |-> Place(Links(disk, b), c).nth]
           L(b, dirs) == [h \in {F(b)[c] : c \in dirs} |-> Level(Held(disk, b), dirs, F(b), h)]
<1>2. PICK b \in DOMAIN disk, dirs \in SUBSET Clusters :
          /\ SoundDisk(disk, b, dirs, F(b), N(b))
          /\ Mirrored(disk, b) /\ Informed(disk, b, Cardinality(Unlinked(Links(disk, b))))
          /\ Untended(Links(disk, b), Held(disk, b), dirs) = {}
          /\ Tidy(Held(disk, b), dirs, F(b), N(b), L(b, dirs))
  BY <1>1 DEF IntactImage
<1>3. IsDisk(disk)
  BY <1>1 DEF IntactImage
<1> HIDE DEF F, N, L
<1>4. QED BY <1>2, <1>3 DEF Proper, Whole

\* The invariant holds when the machine is switched on,
LEMMA InitIInv == Init => IInv
<1>1. SUFFICES ASSUME Init PROVE IInv
  OBVIOUS
<1>2. PICK disk \in Images : /\ vol = [Started(disk).v EXCEPT !.log = <<>>]
                             /\ kcwd = <<"/">> /\ cwd = <<"/">> /\ torn = FALSE
  BY <1>1 DEF Init
<1>3. PICK b, dirs : IsDisk(disk) /\ Proper(disk, b, dirs) /\ Whole(disk, b, dirs)
  BY ImagesAreIntact
<1>4. \E q : q.base.whole = TRUE /\ Resting(vol, q)
  <2>1. disk = disk /\ (TRUE => Whole(disk, b, dirs))
    BY <1>3
  <2>2. \E q : q.base.whole = TRUE /\ Resting([Started(disk).v EXCEPT !.log = <<>>], q)
    BY <1>3, <2>1, BootsCalm
  <2>3. QED BY <1>2, <2>2
<1>5. QED BY <1>2, <1>4, PathsGiven DEF IInv

\* and when it is switched on again with a proper disk.
LEMMA DiskBoots ==
    ASSUME NEW disk, IsDisk(disk), NEW b, NEW dirs, Proper(disk, b, dirs), Restart(disk),
           ~torn' => Whole(disk, b, dirs)
    PROVE  IInv'
<1>1. /\ vol' = [Started(disk).v EXCEPT !.log = <<>>]
      /\ kcwd' = <<"/">> /\ cwd' = <<"/">>
  BY DEF Restart
<1>2. \E q : q.base.whole = ~torn' /\ Resting(vol', q)
  <2> DEFINE whole == ~torn'
  <2>1. whole => Whole(disk, b, dirs)
    OBVIOUS
  <2> HIDE DEF whole
  <2>2. \E q : q.base.whole = whole /\ Resting([Started(disk).v EXCEPT !.log = <<>>], q)
    BY <2>1, BootsCalm
  <2>3. QED BY <1>1, <2>2 DEF whole
<1>3. QED BY <1>1, <1>2, PathsGiven DEF IInv

\* It holds after a call that leaves the volume calm.
LEMMA CalmAnswered ==
    ASSUME NEW v, NEW q, Calm(v, q), q.base.whole = ~torn, Answered(v), torn' = torn,
           IsPath(cwd'), IsPath(kcwd')
    PROVE  IInv'
BY CalmEnded DEF Answered, IInv

-----------------------------------------------------------------------------
(* Every step keeps the invariant.                                          *)

\* cd, with the kernel's check of the directory.
LEMMA CdIInv ==
    ASSUME IInv, NEW path \in CdPaths, Cd(path)
    PROVE  IInv'
<1> DEFINE c == CheckDirCall(vol, path)
<1>1. PICK q : Calm(vol, q) /\ q.base.whole = ~torn
  BY DEF IInv, Resting
<1>2. Answered(c.v) /\ torn' = torn /\ cwd' \in {path, cwd} /\ kcwd' = kcwd
  BY DEF Cd
<1>3. IsPath(path)
  BY PathsGiven
<1>4. Calm(c.v, q)
  BY <1>1, <1>3, DirectoryChecked
<1> HIDE DEF c
<1>5. IsPath(cwd') /\ IsPath(kcwd')
  BY <1>2, <1>3 DEF IInv
<1>6. QED BY <1>1, <1>2, <1>4, <1>5, CalmAnswered

\* A save that is not cut.
LEMMA SavingIInv ==
    ASSUME IInv, NEW path, IsPath(path), NEW data, IsText(data), Saving(path, data)
    PROVE  IInv'
<1> DEFINE w == WriteFileCall(vol, path, data)
<1>1. PICK q : Calm(vol, q) /\ q.base.whole = ~torn
  BY DEF IInv, Resting
<1>2. vol' = [w.v EXCEPT !.log = <<>>] /\ cwd' = cwd /\ kcwd' = kcwd /\ torn' = torn
  BY DEF Saving, Answered
<1>3. PICK q2 : Settled(w.v, q2) /\ q2.base.whole = ~torn
  BY <1>1, FileSaved DEF OnDisk
<1> HIDE DEF w
<1>4. \E q3 : Resting(vol', q3) /\ q3.base.whole = ~torn'
  BY <1>2, <1>3, CallEnded
<1>5. QED BY <1>2, <1>4 DEF IInv

\* Wherever the power is cut, the next boot finds a disk it can be calm with.
LEMMA PowerCutIInv ==
    ASSUME IInv, NEW path, IsPath(path), NEW data, IsText(data), PowerCut(path, data)
    PROVE  IInv'
<1> DEFINE log == WriteFileCall(vol, path, data).v.log
<1>1. PICK q : Calm(vol, q) /\ q.base.disk = vol.disk
  BY DEF IInv, Resting
<1>2. PICK q2 : OnDisk(q, q2) /\ Settled(WriteFileCall(vol, path, data).v, q2)
  BY <1>1, FileSaved
<1>3. IsLog(log) /\ Safe(vol.disk, q.b, log)
  BY <1>1, <1>2 DEF OnDisk, Settled, Good, Logged
<1>4. PICK n \in 1..Len(log) - 1 :
          /\ \A i \in n + 1..n + 2 : i \in 1..Len(log) => ~log[i].clears
          /\ torn' = TRUE /\ Restart(CutDisk(vol.disk, log, n))
  BY DEF PowerCut
<1> HIDE DEF log
<1>5. Len(log) \in Nat
  BY <1>3 DEF IsLog
<1>6. n \in 0..Len(log) /\ Allowed(log, n)
  BY <1>4, <1>5 DEF Allowed
<1>7. PICK dirs : Proper(CutDisk(vol.disk, log, n), q.b, dirs)
  BY <1>3, <1>6 DEF Safe
<1> DEFINE disk == CutDisk(vol.disk, log, n)
<1>8. IsDisk(disk)
  <2> DEFINE Ws(s) == {i \in 1..n : log[i].sect = s}
             F(s)  == IF Ws(s) = {} THEN vol.disk[s]
                      ELSE log[CHOOSE i \in Ws(s) : \A k \in Ws(s) : k <= i].data
  <2>1. disk = [s \in DOMAIN vol.disk |-> F(s)]
    BY DEF CutDisk
  <2> HIDE DEF F, disk
  <2>2. QED BY <2>1 DEF IsDisk
<1> HIDE DEF disk
<1>9. Proper(disk, q.b, dirs) /\ Restart(disk) /\ torn' = TRUE
  BY <1>4, <1>7 DEF disk
<1>10. QED BY <1>8, <1>9, DiskBoots

\* A program reads a file.
LEMMA ReadFileIInv ==
    ASSUME IInv, NEW path \in OpenPaths, NEW size \in BufSizes, ReadFile(path, size)
    PROVE  IInv'
<1> DEFINE r == ReadFileCall(vol, path, size)
<1>1. PICK q : Calm(vol, q) /\ q.base.whole = ~torn
  BY DEF IInv, Resting
<1>2. Answered(r.v) /\ torn' = torn /\ cwd' = cwd /\ kcwd' = kcwd
  BY DEF ReadFile
<1>3. Calm(r.v, q)
  BY <1>1, PathsGiven, FileAnswered
<1> HIDE DEF r
<1>4. IsPath(cwd') /\ IsPath(kcwd')
  BY <1>2 DEF IInv
<1>5. QED BY <1>1, <1>2, <1>3, <1>4, CalmAnswered

\* ls reads the directory.
LEMMA ListDirIInv == ASSUME IInv, ListDir PROVE IInv'
<1> DEFINE l == ListLoop(vol, kcwd)
<1>1. PICK q : Calm(vol, q) /\ q.base.whole = ~torn
  BY DEF IInv, Resting
<1>2. Answered(l.v) /\ torn' = torn /\ cwd' = cwd /\ kcwd' = kcwd
  BY DEF ListDir
<1>3. IsPath(kcwd) /\ IsPath(cwd)
  BY DEF IInv
<1>4. Calm(l.v, q)
  BY <1>1, <1>3, Listed
<1> HIDE DEF l
<1>5. IsPath(cwd') /\ IsPath(kcwd')
  BY <1>2, <1>3
<1>6. QED BY <1>1, <1>2, <1>4, <1>5, CalmAnswered

\* A program is run.
LEMMA ExecIInv == ASSUME IInv, NEW name \in RunNames, Exec(name) PROVE IInv'
<1>1. PICK q : Calm(vol, q) /\ q.base.whole = ~torn
  BY DEF IInv, Resting
<1>2. IsPath(cwd)
  BY DEF IInv
<1>3. PICK path \in FullPaths(name) : Answered(LoadElf(vol, path).v)
  BY DEF Exec
<1>4. cwd' = cwd /\ kcwd' = cwd /\ torn' = torn
  BY DEF Exec
<1> DEFINE l == LoadElf(vol, path)
<1>5. IsPath(path)
  BY <1>2, FullPathsAre
<1>6. Calm(l.v, q)
  BY <1>1, <1>5, ElfLoaded
<1>7. Answered(l.v) /\ torn' = torn /\ IsPath(cwd') /\ IsPath(kcwd')
  BY <1>2, <1>3, <1>4
<1> HIDE DEF l
<1>8. QED BY <1>1, <1>6, <1>7, CalmAnswered

\* A program ends, and the shell is loaded.
LEMMA ExitIInv == ASSUME IInv, Exit PROVE IInv'
<1> DEFINE l == LoadElf(vol, ShellPath)
<1>1. PICK q : Calm(vol, q) /\ q.base.whole = ~torn
  BY DEF IInv, Resting
<1>2. Calm(l.v, q)
  BY <1>1, PathsGiven, ElfLoaded
<1>3. ToShell(l)
  BY DEF Exit
<1> HIDE DEF l
<1>4. Answered(l.v) /\ torn' = torn /\ cwd' \in {cwd, kcwd} /\ kcwd' = kcwd
  BY <1>3 DEF ToShell
<1>5. IsPath(cwd') /\ IsPath(kcwd')
  BY <1>4 DEF IInv
<1>6. QED BY <1>1, <1>2, <1>4, <1>5, CalmAnswered

\* The disk of a volume at rest is whole, as long as no call was cut.
LEMMA RestsWhole ==
    ASSUME NEW v, NEW q, Calm(v, q), q.base.whole
    PROVE  /\ Whole(v.disk, q.b, q.dirs) /\ v.free_clst = Cardinality(Unlinked(q.link))
           /\ Informed(v.disk, q.b, v.free_clst)
<1>1. /\ Tallied(v, q) /\ v.fsi_flag = 0 /\ q.due = 0 /\ IsLink(q.link)
      /\ Links(v.disk, q.b) = q.link
  BY DEF Calm, Good, IsShape, Ahead, Reads
<1>2. Cardinality(Unlinked(q.link)) \in Nat
  BY <1>1, FreeAreCounted
<1>3. /\ Tended(q) /\ q.lost = {} /\ Sound(q.link, q.content, q.dirs, q.first, q.nth)
      /\ Held(v.disk, q.b) = q.content /\ Laid(v.disk, q.b) /\ Boots(v.disk, q.b)
  BY DEF Calm, Good, IsShape, Ahead, Reads
<1>4. Untended(q.link, q.content, q.dirs) = {} /\ Tidy(q.content, q.dirs, q.first, q.nth, q.base.level)
  BY <1>3 DEF Tended
<1>5. SoundDisk(v.disk, q.b, q.dirs, q.first, q.nth)
  BY <1>1, <1>3 DEF SoundDisk
<1>6. /\ Mirrored(v.disk, q.b) /\ Informed(v.disk, q.b, Cardinality(Unlinked(q.link)))
      /\ v.free_clst = Cardinality(Unlinked(q.link))
  BY <1>1, <1>2 DEF Tallied
<1>7. Whole(v.disk, q.b, q.dirs)
  BY <1>1, <1>3, <1>4, <1>5, <1>6 DEF Whole
<1>8. QED BY <1>6, <1>7

\* The machine is switched off and on between two calls.
LEMMA RebootIInv == ASSUME IInv, Reboot PROVE IInv'
<1>1. PICK q : Calm(vol, q) /\ q.base.whole = ~torn
  BY DEF IInv, Resting
<1>2. Restart(vol.disk) /\ torn' = torn
  BY DEF Reboot
<1>3. Proper(vol.disk, q.b, q.dirs)
  BY <1>1 DEF Calm, Good
<1>4. IsDisk(vol.disk)
  BY <1>1 DEF Calm, Good, Logged, CutDisk, IsDisk
<1>5. ~torn => Whole(vol.disk, q.b, q.dirs)
  BY <1>1, RestsWhole
<1>6. QED BY <1>2, <1>3, <1>4, <1>5, DiskBoots

\* Every step keeps the invariant.
LEMMA NextIInv == IInv /\ [Next]_vars => IInv'
<1>1. SUFFICES ASSUME IInv, [Next]_vars PROVE IInv'
  OBVIOUS
<1>2. ASSUME NEW path \in CdPaths, Cd(path) PROVE IInv'
  BY <1>1, <1>2, CdIInv
<1>3. ASSUME NEW name \in MkNames, MkFile(name) \/ CutMkFile(name) PROVE IInv'
  <2>1. PICK path \in FullPaths(name) : Saving(path, <<>>) \/ PowerCut(path, <<>>)
    BY <1>3 DEF MkFile, CutMkFile
  <2>2. IsPath(path) /\ IsText(<<>>)
    BY <1>1, FullPathsAre, PathsGiven DEF IInv
  <2>3. QED BY <1>1, <2>1, <2>2, SavingIInv, PowerCutIInv
<1>4. ASSUME NEW name \in RunNames, Exec(name) PROVE IInv'
  BY <1>1, <1>4, ExecIInv
<1>5. ASSUME NEW path \in OpenPaths, NEW data \in Texts,
             SaveFile(path, data) \/ CutSave(path, data)
      PROVE  IInv'
  <2>1. Saving(path, data) \/ PowerCut(path, data)
    BY <1>5 DEF SaveFile, CutSave
  <2>2. IsPath(path) /\ IsText(data)
    BY PathsGiven
  <2>3. QED BY <1>1, <2>1, <2>2, SavingIInv, PowerCutIInv
<1>6. ASSUME NEW path \in OpenPaths, NEW size \in BufSizes, ReadFile(path, size) PROVE IInv'
  BY <1>1, <1>6, ReadFileIInv
<1>7. CASE ListDir
  BY <1>1, <1>7, ListDirIInv
<1>8. CASE Exit
  BY <1>1, <1>8, ExitIInv
<1>9. CASE Reboot
  BY <1>1, <1>9, RebootIInv
<1>10. CASE UNCHANGED vars
  BY <1>1, <1>10 DEF IInv, vars
<1>11. QED BY <1>1, <1>2, <1>3, <1>4, <1>5, <1>6, <1>7, <1>8, <1>9, <1>10 DEF Next

\* The volume is at rest, with a sound shape, between any two calls.
LEMMA IInvAlways == Spec => []IInv
<1>1. Init => IInv
  BY InitIInv
<1>2. IInv /\ [Next]_vars => IInv'
  BY NextIInv
<1>3. QED BY <1>1, <1>2, PTL DEF Spec

\* A volume at rest has nothing to be saved.
LEMMA CalmIsSaved == IInv => NothingUnsaved
<1>1. SUFFICES ASSUME NEW q, Calm(vol, q) PROVE NothingUnsaved
  BY DEF IInv, Resting
<1>2. vol.wflag = FALSE /\ vol.fsi_flag = 0 /\ Shows(vol, q)
  BY <1>1 DEF Calm, Good
<1>3. QED BY <1>2 DEF NothingUnsaved, Shows

(* Nothing waits in the window or in memory between two calls, so that nothing
   is lost when the machine is switched off.                                *)
THEOREM NothingUnsavedAlways == Spec => []NothingUnsaved
BY IInvAlways, CalmIsSaved, PTL

-----------------------------------------------------------------------------
(* The functions by which the properties read the disk.                     *)

\* run is what the links lead to from c, cluster after cluster.
ChainingRun(run, v, c) ==
    /\ run = [i \in 0..N_FATENT |-> IF i = 0 THEN (IF c \in Clusters THEN <<c>> ELSE <<>>)
                                    ELSE Longer(v, run[i - 1])]
    /\ Chain(v, c) = run[N_FATENT]

\* The clusters of a chain, one after the other.
LEMMA ChainRuns ==
    ASSUME NEW v, NEW c
    PROVE  \E run : ChainingRun(run, v, c)
<1> DEFINE Begin == (IF c \in Clusters THEN <<c>> ELSE <<>>)
           IsRun(run, n) == run = [i \in 0..n |-> IF i = 0 THEN Begin ELSE Longer(v, run[i - 1])]
           S == {n \in 0..N_FATENT : \E run : IsRun(run, n)}
<1>1. N_FATENT \in Nat
  BY FatAssumption
<1> HIDE DEF Begin
<1>2. 0 \in S
  <2>1. IsRun([i \in 0..0 |-> Begin], 0)
    OBVIOUS
  <2>2. 0 \in 0..N_FATENT
    BY <1>1
  <2> HIDE DEF IsRun
  <2>3. QED BY <2>1, <2>2
<1>3. ASSUME NEW n \in 0..N_FATENT, n < N_FATENT, n \in S PROVE n + 1 \in S
  <2>1. PICK run : IsRun(run, n)
    BY <1>3
  <2> DEFINE longer == [i \in 0..(n + 1) |-> IF i = n + 1 THEN Longer(v, run[n]) ELSE run[i]]
  <2>2. ASSUME NEW i \in 0..(n + 1)
        PROVE  longer[i] = IF i = 0 THEN Begin ELSE Longer(v, longer[i - 1])
    <3>1. CASE i = n + 1
      <4>1. i # 0 /\ i - 1 = n /\ n \in 0..(n + 1) /\ n # n + 1
        BY <3>1
      <4>2. longer[i - 1] = run[n]
        BY <4>1
      <4>3. QED BY <3>1, <4>1, <4>2
    <3>2. CASE i = 0
      <4>1. i # n + 1 /\ i \in 0..n
        BY <3>2
      <4>2. longer[i] = run[i] /\ run[i] = Begin
        BY <2>1, <3>2, <4>1
      <4>3. QED BY <3>2, <4>2
    <3>3. CASE i \in 1..n
      <4>1. i # n + 1 /\ i # 0 /\ i - 1 \in 0..(n + 1) /\ i - 1 # n + 1 /\ i \in 0..n
        BY <3>3
      <4>2. longer[i] = run[i] /\ longer[i - 1] = run[i - 1]
        BY <4>1
      <4>3. run[i] = Longer(v, run[i - 1])
        BY <2>1, <4>1
      <4>4. QED BY <4>1, <4>2, <4>3
    <3>4. QED BY <3>1, <3>2, <3>3
  <2>3. longer = [i \in 0..(n + 1) |-> longer[i]]
    OBVIOUS
  <2> HIDE DEF longer
  <2>4. IsRun(longer, n + 1)
    BY <2>2, <2>3
  <2>5. n + 1 \in 0..N_FATENT
    BY <1>1, <1>3
  <2>6. QED BY <2>4, <2>5
<1>4. 0..N_FATENT \subseteq S
  <2> HIDE DEF S
  <2>1. QED BY <1>1, <1>2, <1>3, Induct
<1>5. N_FATENT \in S
  BY <1>1, <1>4
<1>6. \E run : run = [i \in 0..N_FATENT |-> IF i = 0 THEN (IF c \in Clusters THEN <<c>> ELSE <<>>)
                                 ELSE Longer(v, run[i - 1])]
  BY <1>5 DEF Begin
<1> DEFINE made == CHOOSE run : run = [i \in 0..N_FATENT |-> IF i = 0 THEN (IF c \in Clusters THEN <<c>> ELSE <<>>)
                                 ELSE Longer(v, run[i - 1])]
<1>7. made = [i \in 0..N_FATENT |-> IF i = 0 THEN (IF c \in Clusters THEN <<c>> ELSE <<>>)
                                 ELSE Longer(v, made[i - 1])]
  BY <1>6
<1>8. Chain(v, c) = made[N_FATENT]
  BY DEF Chain
<1> HIDE DEF made
<1>9. ChainingRun(made, v, c)
  BY <1>7, <1>8 DEF ChainingRun
<1>10. QED BY <1>9

\* run is what is found in the tree, level after level.
LevelsRun(run, v) ==
    /\ run = [i \in 0..N_FATENT |-> IF i = 0 THEN With([all |-> {}], ObjectsIn(v, ROOT, <<>>))
                                    ELSE Deeper(v, run[i - 1])]
    /\ ObjectsOn(v) = run[N_FATENT].all

\* The levels of the tree of directories.
LEMMA ObjectsRuns ==
    ASSUME NEW v
    PROVE  \E run : LevelsRun(run, v)
<1> DEFINE Begin == With([all |-> {}], ObjectsIn(v, ROOT, <<>>))
           IsRun(run, n) == run = [i \in 0..n |-> IF i = 0 THEN Begin ELSE Deeper(v, run[i - 1])]
           S == {n \in 0..N_FATENT : \E run : IsRun(run, n)}
<1>1. N_FATENT \in Nat
  BY FatAssumption
<1> HIDE DEF Begin
<1>2. 0 \in S
  <2>1. IsRun([i \in 0..0 |-> Begin], 0)
    OBVIOUS
  <2>2. 0 \in 0..N_FATENT
    BY <1>1
  <2> HIDE DEF IsRun
  <2>3. QED BY <2>1, <2>2
<1>3. ASSUME NEW n \in 0..N_FATENT, n < N_FATENT, n \in S PROVE n + 1 \in S
  <2>1. PICK run : IsRun(run, n)
    BY <1>3
  <2> DEFINE longer == [i \in 0..(n + 1) |-> IF i = n + 1 THEN Deeper(v, run[n]) ELSE run[i]]
  <2>2. ASSUME NEW i \in 0..(n + 1)
        PROVE  longer[i] = IF i = 0 THEN Begin ELSE Deeper(v, longer[i - 1])
    <3>1. CASE i = n + 1
      <4>1. i # 0 /\ i - 1 = n /\ n \in 0..(n + 1) /\ n # n + 1
        BY <3>1
      <4>2. longer[i - 1] = run[n]
        BY <4>1
      <4>3. QED BY <3>1, <4>1, <4>2
    <3>2. CASE i = 0
      <4>1. i # n + 1 /\ i \in 0..n
        BY <3>2
      <4>2. longer[i] = run[i] /\ run[i] = Begin
        BY <2>1, <3>2, <4>1
      <4>3. QED BY <3>2, <4>2
    <3>3. CASE i \in 1..n
      <4>1. i # n + 1 /\ i # 0 /\ i - 1 \in 0..(n + 1) /\ i - 1 # n + 1 /\ i \in 0..n
        BY <3>3
      <4>2. longer[i] = run[i] /\ longer[i - 1] = run[i - 1]
        BY <4>1
      <4>3. run[i] = Deeper(v, run[i - 1])
        BY <2>1, <4>1
      <4>4. QED BY <4>1, <4>2, <4>3
    <3>4. QED BY <3>1, <3>2, <3>3
  <2>3. longer = [i \in 0..(n + 1) |-> longer[i]]
    OBVIOUS
  <2> HIDE DEF longer
  <2>4. IsRun(longer, n + 1)
    BY <2>2, <2>3
  <2>5. n + 1 \in 0..N_FATENT
    BY <1>1, <1>3
  <2>6. QED BY <2>4, <2>5
<1>4. 0..N_FATENT \subseteq S
  <2> HIDE DEF S
  <2>1. QED BY <1>1, <1>2, <1>3, Induct
<1>5. N_FATENT \in S
  BY <1>1, <1>4
<1>6. \E run : run = [i \in 0..N_FATENT |-> IF i = 0 THEN With([all |-> {}], ObjectsIn(v, ROOT, <<>>))
                                 ELSE Deeper(v, run[i - 1])]
  BY <1>5 DEF Begin
<1> DEFINE made == CHOOSE run : run = [i \in 0..N_FATENT |-> IF i = 0 THEN With([all |-> {}], ObjectsIn(v, ROOT, <<>>))
                                 ELSE Deeper(v, run[i - 1])]
<1>7. made = [i \in 0..N_FATENT |-> IF i = 0 THEN With([all |-> {}], ObjectsIn(v, ROOT, <<>>))
                                 ELSE Deeper(v, made[i - 1])]
  BY <1>6
<1>8. ObjectsOn(v) = made[N_FATENT].all
  BY DEF ObjectsOn
<1> HIDE DEF made
<1>9. LevelsRun(made, v)
  BY <1>7, <1>8 DEF LevelsRun
<1>10. QED BY <1>9

-----------------------------------------------------------------------------
(* What the properties read of the disk, and the shape it has.              *)

\* The disk of a calm volume holds the links and contents of its shape.
LEMMA ShapeRead ==
    ASSUME NEW v, NEW q, Calm(v, q), NEW c \in Clusters
    PROVE  Link(v, c) = q.link[c] /\ v.disk[Sector(v, c)] = q.content[c]
<1>1. Links(v.disk, q.b) = q.link /\ Held(v.disk, q.b) = q.content /\ v.volbase = q.b
  BY DEF Calm, Good, Ahead, Reads, IsVolume
<1>2. Link(v, c) = Links(v.disk, q.b)[c]
  BY <1>1 DEF Link, Links, FatSector
<1>3. v.disk[Sector(v, c)] = Held(v.disk, q.b)[c]
  BY <1>1 DEF Held, Sector, Clusters
<1>4. QED BY <1>1, <1>2, <1>3

\* s follows the chain from c, for i links at most.
Follows(s, c, q) ==
    /\ s \in Seq(Clusters) /\ Len(s) # 0
    /\ \A k \in 1..Len(s) : q.link[s[k]] # 0 /\ q.first[s[k]] = c /\ q.nth[s[k]] = k

FollowsUpTo(s, c, q, i) ==
    /\ Follows(s, c, q) /\ Len(s) <= i + 1
    /\ Len(s) = i + 1 \/ q.link[s[Len(s)]] \notin Clusters

\* Chain goes on from a cluster to the one its link names.
LEMMA LongerFollows ==
    ASSUME NEW v, NEW q, Calm(v, q), NEW s, NEW c, NEW i \in Nat, FollowsUpTo(s, c, q, i)
    PROVE  FollowsUpTo(Longer(v, s), c, q, i + 1)
<1> DEFINE n == Len(s)
           e == s[n]
           d == q.link[e]
           t == Append(s, d)
<1>1. /\ s \in Seq(Clusters) /\ n \in Nat \ {0} /\ s # <<>> /\ n <= i + 1
      /\ \A k \in 1..n : q.link[s[k]] # 0 /\ q.first[s[k]] = c /\ q.nth[s[k]] = k
      /\ n = i + 1 \/ d \notin Clusters
  BY DEF FollowsUpTo, Follows
<1>2. e \in Clusters
  BY <1>1
<1>3. Link(v, e) = d
  BY <1>2, ShapeRead
<1>4. Longer(v, s) = IF d \in Clusters THEN t ELSE s
  BY <1>1, <1>3 DEF Longer
<1>5. CASE d \notin Clusters
  BY <1>1, <1>4, <1>5 DEF FollowsUpTo, Follows
<1>6. CASE d \in Clusters
  <2>1. /\ t \in Seq(Clusters) /\ Len(t) = n + 1 /\ t[n + 1] = d
        /\ \A k \in 1..n : t[k] = s[k]
    <3> HIDE DEF d, e
    <3>1. QED BY <1>1, <1>6
  <2>2. LinksSound(q.link, q.dirs) /\ ChainsSound(q.link, q.dirs, q.first, q.nth)
    BY DEF Calm, Good, IsShape, Sound
  <2>3. q.first[e] = c /\ q.nth[e] = n
    BY <1>1
  <2>4. q.link[d] # 0 /\ q.first[d] = c /\ q.nth[d] = n + 1
    <3>1. q.link[q.link[e]] # 0
      BY <1>2, <1>6, <2>2 DEF LinksSound
    <3>2. q.first[q.link[e]] = q.first[e] /\ q.nth[q.link[e]] = q.nth[e] + 1
      BY <1>2, <1>6, <2>2 DEF ChainsSound
    <3>3. QED BY <2>3, <3>1, <3>2
  <2>5. n = i + 1
    BY <1>1, <1>6
  <2> HIDE DEF t, d
  <2>6. ASSUME NEW k \in 1..Len(t)
        PROVE  q.link[t[k]] # 0 /\ q.first[t[k]] = c /\ q.nth[t[k]] = k
    <3>1. k \in 1..n \/ k = n + 1
      BY <1>1, <2>1
    <3>2. QED BY <1>1, <2>1, <2>4, <3>1
  <2>7. Follows(t, c, q) /\ Len(t) = i + 1 + 1
    BY <1>1, <2>1, <2>5, <2>6 DEF Follows
  <2>8. QED BY <1>4, <1>6, <2>7 DEF FollowsUpTo
<1>7. QED BY <1>5, <1>6

\* A chain has no more clusters than there are.
LEMMA ChainsAreShort ==
    ASSUME NEW s, NEW c, NEW q, Follows(s, c, q)
    PROVE  Len(s) <= N_FATENT
<1>1. /\ s \in Seq(Clusters) /\ N_FATENT \in Nat /\ Len(s) \in Nat
      /\ \A k \in 1..Len(s) : q.nth[s[k]] = k
  BY FatAssumption DEF Follows
<1>2. SUFFICES ASSUME Len(s) > N_FATENT PROVE FALSE
  BY <1>1
<1> DEFINE I == 1..Len(s)
<1>3. IsFiniteSet(Clusters) /\ Cardinality(Clusters) <= N_FATENT
  <2>1. 2 \in Int /\ N_FATENT - 1 \in Int
    BY <1>1
  <2>2. IsFiniteSet(2..N_FATENT - 1) /\ Cardinality(2..N_FATENT - 1) =
            IF 2 > N_FATENT - 1 THEN 0 ELSE N_FATENT - 1 - 2 + 1
    BY <2>1, FS_Interval
  <2>3. QED BY <1>1, <2>2 DEF Clusters
<1>4. IsFiniteSet(I) /\ Cardinality(I) = Len(s)
  <2>1. 1 \in Int /\ Len(s) \in Int
    BY <1>1
  <2>2. IsFiniteSet(1..Len(s)) /\ Cardinality(1..Len(s)) = IF 1 > Len(s) THEN 0 ELSE Len(s) - 1 + 1
    BY <2>1, FS_Interval
  <2>3. QED BY <1>1, <1>2, <2>2
<1>5. Cardinality(Clusters) < Cardinality(I)
  <2>1. Cardinality(Clusters) \in Nat
    BY <1>3, FS_CardinalityType
  <2>2. QED BY <1>1, <1>2, <1>3, <1>4, <2>1
<1>6. s \in [I -> Clusters]
  BY <1>1
<1>7. \E x, y \in I : x # y /\ s[x] = s[y]
  BY <1>3, <1>4, <1>5, <1>6, FS_PigeonHole
<1>8. QED BY <1>1, <1>7

\* The chain that begins at c is whole.
LEMMA ChainIs ==
    ASSUME NEW v, NEW q, Calm(v, q), NEW c \in Clusters, Begins(q.link, c)
    PROVE  LET s == Chain(v, c) IN Follows(s, c, q) /\ q.link[s[Len(s)]] = EOC
<1> DEFINE N == N_FATENT
           start == <<c>>
<1>0. PICK run : ChainingRun(run, v, c)
  BY ChainRuns
<1>1. /\ run = [i \in 0..N |-> IF i = 0 THEN start ELSE Longer(v, run[i - 1])]
      /\ Chain(v, c) = run[N] /\ N \in Nat
  BY <1>0, FatAssumption DEF ChainingRun
<1> DEFINE S == {n \in 0..N : FollowsUpTo(run[n], c, q, n)}
<1>2. LinksSound(q.link, q.dirs) /\ ChainsSound(q.link, q.dirs, q.first, q.nth)
  BY DEF Calm, Good, IsShape, Sound
<1>3. 0 \in S
  <2>1. run[0] = start /\ 0 \in 0..N
    <3> HIDE DEF start
    <3>1. QED BY <1>1
  <2>2. q.link[c] # 0 /\ q.first[c] = c
    BY <1>2 DEF Begins, ChainsSound
  <2>3. q.nth[c] = 1
    BY <1>2, <2>2 DEF ChainsSound
  <2>4. start \in Seq(Clusters) /\ Len(start) = 1 /\ start[1] = c
    OBVIOUS
  <2> HIDE DEF start
  <2>5. FollowsUpTo(start, c, q, 0)
    BY <2>2, <2>3, <2>4 DEF FollowsUpTo, Follows
  <2>6. QED BY <2>1, <2>5
<1> HIDE DEF start
<1>4. ASSUME NEW n \in 0..N, n < N, n \in S PROVE n + 1 \in S
  <2>1. n + 1 \in 0..N /\ n + 1 # 0 /\ n + 1 - 1 = n /\ n \in Nat
    BY <1>1, <1>4
  <2>2. run[n + 1] = Longer(v, run[n + 1 - 1])
    BY <1>1, <2>1
  <2>3. FollowsUpTo(run[n], c, q, n)
    BY <1>4
  <2>4. FollowsUpTo(Longer(v, run[n]), c, q, n + 1)
    BY <2>1, <2>3, LongerFollows
  <2>5. QED BY <2>1, <2>2, <2>4
<1>5. FollowsUpTo(run[N], c, q, N)
  <2> HIDE DEF S, N
  <2>1. 0..N \subseteq S
    BY <1>1, <1>3, <1>4, Induct
  <2>2. N \in S
    BY <1>1, <2>1
  <2>3. QED BY <2>2 DEF S
<1> DEFINE s == run[N]
           e == s[Len(s)]
<1>6. Follows(s, c, q) /\ (Len(s) = N + 1 \/ q.link[e] \notin Clusters)
  BY <1>5 DEF FollowsUpTo
<1>7. q.link[e] \notin Clusters
  <2>1. Len(s) <= N
    BY <1>6, ChainsAreShort
  <2> HIDE DEF s, e, N
  <2>2. Len(s) # N + 1
    BY <1>1, <2>1
  <2>3. QED BY <1>6, <2>2
<1>8. e \in Clusters /\ q.link[e] # 0
  BY <1>6 DEF Follows
<1>9. q.link[e] \in {0, EOC} \cup Clusters
  BY <1>2, <1>8 DEF LinksSound
<1>10. q.link[e] = EOC
  BY <1>7, <1>8, <1>9
<1>11. QED BY <1>1, <1>6, <1>10

\* Entry i of a directory is in one of its clusters.
LEMMA SlotOf ==
    ASSUME NEW n \in Nat, NEW i \in 1..n * DPS
    PROVE  ((i - 1) \div DPS) + 1 \in 1..n /\ (i - 1) % DPS \in Slots
<1> DEFINE x == i - 1
           a == x \div DPS
           r == x % DPS
<1>1. DPS \in Nat \ {0} /\ n * DPS \in Nat
  BY FatAssumption
<1>2. x \in Nat /\ x + 1 <= n * DPS
  BY <1>1
<1> HIDE DEF x
<1>3. a \in Nat /\ r \in 0..DPS - 1 /\ x = DPS * a + r
  BY <1>1, <1>2
<1> HIDE DEF a, r
<1>4. ASSUME a >= n PROVE FALSE
  <2>1. PICK k \in Nat : a = n + k
    <3>1. a - n \in Nat /\ a = n + (a - n)
      BY <1>3, <1>4
    <3>2. QED BY <3>1
  <2>2. DPS * a = n * DPS + DPS * k /\ DPS * k \in Nat
    BY <1>1, <1>3, <2>1
  <2> DEFINE y == n * DPS
             z == DPS * k
             w == DPS * a
  <2>3. y \in Nat /\ z \in Nat /\ w = y + z /\ x + 1 <= y /\ x = w + r /\ r \in Nat
    BY <1>1, <1>2, <1>3, <2>2
  <2> HIDE DEF y, z, w
  <2>4. QED BY <1>2, <2>3
<1>5. QED BY <1>1, <1>3, <1>4 DEF a, r, x, Slots

\* The entry j of cluster k, when it is that of an object of the directory d.
ListedAt(k, j, q, d) ==
    /\ k \in q.dirs /\ j \in Slots /\ q.first[k] = d
    /\ Live(q.content[k][j]) /\ q.content[k][j].name[1] # "."

\* EntriesOf reads entries that are in clusters of the directory.
LEMMA EntriesAre ==
    ASSUME NEW v, NEW q, Calm(v, q), NEW d \in q.dirs, Begins(q.link, d), NEW e \in EntriesOf(v, d)
    PROVE  ~IsFree(e) /\ \E k \in q.dirs, j \in Slots : e = q.content[k][j] /\ q.first[k] = d
<1> DEFINE s == Chain(v, d)
           At(i) == v.disk[Sector(v, s[((i - 1) \div DPS) + 1])][(i - 1) % DPS]
<1>1. IsShape(q) /\ d \in Clusters
  BY ShapeFacts DEF Calm, Good
<1>2. Follows(s, d, q)
  BY <1>1, ChainIs
<1>3. ~IsFree(e) /\ \E i \in 1..Len(s) * DPS : e = At(i)
  BY DEF EntriesOf
<1>4. PICK i \in 1..Len(s) * DPS : e = At(i)
  BY <1>3
<1> HIDE DEF s
<1> DEFINE m == ((i - 1) \div DPS) + 1
           j == (i - 1) % DPS
           k == s[m]
<1>5. m \in 1..Len(s) /\ j \in Slots
  <2>1. Len(s) \in Nat
    BY <1>2 DEF Follows
  <2>2. QED BY <2>1, SlotOf
<1>6. e = v.disk[Sector(v, k)][j]
  BY <1>4
<1> HIDE DEF m, j
<1>7. k \in Clusters /\ q.link[k] # 0 /\ q.first[k] = d
  BY <1>2, <1>5 DEF Follows
<1>8. k \in q.dirs
  BY <1>1, <1>7 DEF IsShape, Sound, ChainsSound
<1>9. v.disk[Sector(v, k)] = q.content[k]
  BY <1>7, ShapeRead
<1>10. QED BY <1>3, <1>5, <1>6, <1>7, <1>8, <1>9

\* o is an object of the directory d, whose own name is at.
ObjectOf(o, q, d, at) ==
    \E k \in q.dirs, j \in Slots :
        /\ ListedAt(k, j, q, d)
        /\ o = [name |-> Append(at, ListedName(q.content[k][j].name)), entry |-> q.content[k][j]]

\* ObjectsIn reads objects of the directory.
LEMMA ObjectsAre ==
    ASSUME NEW v, NEW q, Calm(v, q), NEW d \in q.dirs, Begins(q.link, d), NEW at,
           NEW o \in ObjectsIn(v, d, at)
    PROVE  ObjectOf(o, q, d, at)
<1>1. PICK e \in EntriesOf(v, d) :
          /\ e.name[1] # "." /\ "VOL" \notin e.attr
          /\ o = [name |-> Append(at, ListedName(e.name)), entry |-> e]
  BY DEF ObjectsIn
<1>2. PICK k \in q.dirs, j \in Slots : e = q.content[k][j] /\ q.first[k] = d
  BY EntriesAre
<1>3. ~IsFree(e)
  BY EntriesAre
<1>4. ListedAt(k, j, q, d)
  BY <1>1, <1>2, <1>3 DEF ListedAt, Live
<1>5. QED BY <1>1, <1>2, <1>4 DEF ObjectOf

\* Where no directory begins there are no objects.
LEMMA NoObjects ==
    ASSUME NEW v, NEW at
    PROVE  Chain(v, 0) = <<>> /\ ObjectsIn(v, 0, at) = {}
<1> DEFINE N == N_FATENT
<1>0. PICK run : ChainingRun(run, v, 0)
  BY ChainRuns
<1>1. /\ run = [i \in 0..N |-> IF i = 0 THEN <<>> ELSE Longer(v, run[i - 1])]
      /\ Chain(v, 0) = run[N] /\ N \in Nat
  <2>1. 0 \notin Clusters
    BY EocIsNone
  <2> DEFINE start == IF 0 \in Clusters THEN <<0>> ELSE <<>>
  <2>2. run = [i \in 0..N |-> IF i = 0 THEN start ELSE Longer(v, run[i - 1])]
        /\ Chain(v, 0) = run[N]
    BY <1>0 DEF ChainingRun
  <2>3. start = <<>>
    BY <2>1
  <2> HIDE DEF start
  <2>4. QED BY <2>2, <2>3, FatAssumption
<1> DEFINE S == {n \in 0..N : run[n] = <<>>}
<1>2. 0 \in S
  BY <1>1
<1>3. ASSUME NEW n \in 0..N, n < N, n \in S PROVE n + 1 \in S
  <2>1. n + 1 \in 0..N /\ n + 1 # 0 /\ n + 1 - 1 = n
    BY <1>1, <1>3
  <2>2. run[n + 1] = Longer(v, run[n + 1 - 1])
    BY <1>1, <2>1
  <2>3. Longer(v, <<>>) = <<>>
    BY DEF Longer
  <2>4. QED BY <1>3, <2>1, <2>2, <2>3
<1>4. run[N] = <<>>
  <2> HIDE DEF S, N
  <2>1. 0..N \subseteq S
    BY <1>1, <1>2, <1>3, Induct
  <2>2. N \in S
    BY <1>1, <2>1
  <2>3. QED BY <2>2 DEF S
<1>5. Chain(v, 0) = <<>>
  BY <1>1, <1>4
<1>6. EntriesOf(v, 0) = {}
  <2>1. 1..Len(<<>>) * DPS = {}
    BY FatAssumption
  <2>2. QED BY <1>5, <2>1 DEF EntriesOf
<1>7. QED BY <1>5, <1>6 DEF ObjectsIn

\* What an object is, by its entry.
LEMMA ObjectSound ==
    ASSUME NEW v, NEW q, Calm(v, q), NEW o, NEW d, NEW at, ObjectOf(o, q, d, at)
    PROVE  /\ "DIR" \notin o.entry.attr /\ o.entry.clust = 0 => o.entry.size = 0
           /\ o.entry.clust # ROOT
           /\ o.entry.clust # 0 =>
                  /\ o.entry.clust \in Clusters /\ Begins(q.link, o.entry.clust)
                  /\ "DIR" \in o.entry.attr => o.entry.clust \in q.dirs
                  /\ "DIR" \notin o.entry.attr =>
                        SizeFits(q.link, q.first, q.nth, o.entry.clust, o.entry.size)
<1>1. PICK k \in q.dirs, j \in Slots :
        /\ ListedAt(k, j, q, d)
        /\ o = [name |-> Append(at, ListedName(q.content[k][j].name)), entry |-> q.content[k][j]]
  BY DEF ObjectOf
<1> DEFINE e == q.content[k][j]
<1>2. o.entry = e /\ Live(e) /\ e.name[1] # "."
  BY <1>1 DEF ListedAt
<1>3. EntrySound(e, q.link, q.dirs, q.first, q.nth)
  BY DEF Calm, Good, IsShape, Sound, EntriesSound
<1> HIDE DEF e
<1>4. e.clust # 0 => Owns(e)
  BY <1>2 DEF Owns
<1>5. 0 # ROOT
  BY FatAssumption
<1>6. QED BY <1>2, <1>3, <1>4, <1>5 DEF EntrySound, IsDir

\* An entry that owns its chain is the only one, so that its directory is.
LEMMA SameEntry ==
    ASSUME NEW v, NEW q, Calm(v, q), NEW o, NEW d, NEW at, ObjectOf(o, q, d, at),
           NEW p, NEW d2, NEW at2, ObjectOf(p, q, d2, at2),
           o.entry.clust = p.entry.clust, o.entry.clust # 0
    PROVE  d = d2 /\ (at = at2 => o = p)
<1>1. PICK k \in q.dirs, j \in Slots :
        /\ ListedAt(k, j, q, d)
        /\ o = [name |-> Append(at, ListedName(q.content[k][j].name)), entry |-> q.content[k][j]]
  BY DEF ObjectOf
<1>2. PICK l \in q.dirs, m \in Slots :
        /\ ListedAt(l, m, q, d2)
        /\ p = [name |-> Append(at2, ListedName(q.content[l][m].name)), entry |-> q.content[l][m]]
  BY DEF ObjectOf
<1>3. Owns(q.content[k][j]) /\ Owns(q.content[l][m])
      /\ q.content[k][j].clust = q.content[l][m].clust
  BY <1>1, <1>2 DEF ListedAt, Owns
<1>4. EntriesSound(q.link, q.content, q.dirs, q.first, q.nth)
  BY DEF Calm, Good, IsShape, Sound
<1>5. k = l /\ j = m
  BY <1>3, <1>4 DEF EntriesSound
<1>6. QED BY <1>1, <1>2, <1>5 DEF ListedAt

-----------------------------------------------------------------------------
(* The objects on the disk, level by level.                                 *)

\* An object of a set is one of the root, or of a directory of the set.
HasPlace(o, objects, q) ==
    \/ ObjectOf(o, q, ROOT, <<>>)
    \/ \E x \in objects : /\ "DIR" \in x.entry.attr /\ x.entry.clust # 0
                          /\ ObjectOf(o, q, x.entry.clust, x.name)

Tree(s, q) ==
    /\ DOMAIN s = {"all", "last"} /\ s.last \subseteq s.all
    /\ \A o \in s.all : HasPlace(o, s.all, q)

\* What is found below a set of objects is in the directory of one of them.
LEMMA BelowHas ==
    ASSUME NEW v, NEW q, Calm(v, q), NEW s, Tree(s, q), NEW o \in Below(v, s.last)
    PROVE  \E x \in s.last : /\ "DIR" \in x.entry.attr /\ x.entry.clust # 0
                             /\ ObjectOf(o, q, x.entry.clust, x.name)
<1>1. PICK x \in s.last : "DIR" \in x.entry.attr /\ o \in ObjectsIn(v, x.entry.clust, x.name)
  BY DEF Below
<1>2. x.entry.clust # 0
  BY <1>1, NoObjects
<1>3. HasPlace(x, s.all, q)
  BY DEF Tree
<1>4. \E d, at : ObjectOf(x, q, d, at)
  BY <1>3 DEF HasPlace
<1>5. x.entry.clust \in q.dirs /\ Begins(q.link, x.entry.clust)
  BY <1>1, <1>2, <1>4, ObjectSound
<1>6. ObjectOf(o, q, x.entry.clust, x.name)
  BY <1>1, <1>5, ObjectsAre
<1>7. QED BY <1>1, <1>2, <1>6

\* What is found in the root directory is there.
LEMMA RootHas ==
    ASSUME NEW v, NEW q, Calm(v, q), NEW o \in ObjectsIn(v, ROOT, <<>>)
    PROVE  ObjectOf(o, q, ROOT, <<>>)
<1>1. ROOT \in q.dirs /\ Begins(q.link, ROOT)
  BY DEF Calm, Good, IsShape, Sound, EntriesSound
<1>2. QED BY <1>1, ObjectsAre

\* A level deeper, every object still has a place.
LEMMA DeeperIsTree ==
    ASSUME NEW v, NEW q, Calm(v, q), NEW s, Tree(s, q)
    PROVE  Tree(Deeper(v, s), q)
<1> DEFINE b == Below(v, s.last)
           t == [all |-> s.all \cup b, last |-> b]
<1>1. Deeper(v, s) = s \/ Deeper(v, s) = t
  BY DEF Deeper, With
<1>2. ASSUME NEW o \in s.all \cup b PROVE HasPlace(o, s.all \cup b, q)
  <2>1. CASE o \in s.all
    BY <2>1 DEF Tree, HasPlace
  <2>2. CASE o \in b
    <3>1. PICK x \in s.last : /\ "DIR" \in x.entry.attr /\ x.entry.clust # 0
                              /\ ObjectOf(o, q, x.entry.clust, x.name)
      BY <2>2, BelowHas
    <3>2. x \in s.all
      BY <3>1 DEF Tree
    <3> HIDE DEF b
    <3>3. QED BY <3>1, <3>2 DEF HasPlace
  <2>3. QED BY <1>2, <2>1, <2>2
<1> HIDE DEF b
<1>3. Tree(t, q)
  BY <1>2 DEF Tree
<1>4. QED BY <1>1, <1>3

\* So has every object at every level.
LEMMA ObjectsTree ==
    ASSUME NEW v, NEW q, Calm(v, q), NEW run, LevelsRun(run, v)
    PROVE  /\ \A n \in 0..N_FATENT : Tree(run[n], q)
           /\ run[0] = [all |-> {} \cup ObjectsIn(v, ROOT, <<>>), last |-> ObjectsIn(v, ROOT, <<>>)]
           /\ \A n \in 0..N_FATENT : n < N_FATENT => run[n + 1] = Deeper(v, run[n])
<1> DEFINE N == N_FATENT
           start == [all |-> {} \cup ObjectsIn(v, ROOT, <<>>), last |-> ObjectsIn(v, ROOT, <<>>)]
<1>1. /\ run = [i \in 0..N |-> IF i = 0 THEN start ELSE Deeper(v, run[i - 1])]
      /\ N \in Nat
  BY FatAssumption DEF LevelsRun, With
<1> DEFINE S == {n \in 0..N : Tree(run[n], q)}
<1>2. run[0] = start /\ 0 \in 0..N
  <2> HIDE DEF start
  <2>1. QED BY <1>1
<1>3. 0 \in S
  <2>1. Tree(start, q)
    BY RootHas DEF Tree, HasPlace
  <2>2. QED BY <1>2, <2>1
<1> HIDE DEF start
<1>4. ASSUME NEW n \in 0..N, n < N PROVE n + 1 \in 0..N /\ run[n + 1] = Deeper(v, run[n])
  <2>1. n + 1 \in 0..N /\ n + 1 # 0 /\ n + 1 - 1 = n
    BY <1>1, <1>4
  <2> DEFINE deeper(x) == Deeper(v, x)
  <2>2. run[n + 1] = deeper(run[n + 1 - 1])
    <3>1. run = [i \in 0..N |-> IF i = 0 THEN start ELSE deeper(run[i - 1])]
      BY <1>1
    <3> HIDE DEF deeper, N
    <3>2. QED BY <2>1, <3>1
  <2>3. QED BY <2>1, <2>2
<1>5. ASSUME NEW n \in 0..N, n < N, n \in S PROVE n + 1 \in S
  BY <1>4, <1>5, DeeperIsTree
<1>6. 0..N \subseteq S
  <2> HIDE DEF S, N
  <2>1. QED BY <1>1, <1>3, <1>5, Induct
<1>7. QED BY <1>2, <1>4, <1>6 DEF start

\* o is the only one of the objects with its first cluster.
Alone(o, objects) ==
    \A p \in objects : o.entry.clust = p.entry.clust /\ o.entry.clust # 0 => o = p

\* An object of the root directory is the only one of its cluster,
LEMMA RootAlone ==
    ASSUME NEW v, NEW q, Calm(v, q), NEW objects, \A p \in objects : HasPlace(p, objects, q),
           NEW o, ObjectOf(o, q, ROOT, <<>>)
    PROVE  Alone(o, objects)
<1>1. SUFFICES ASSUME NEW p \in objects, o.entry.clust = p.entry.clust, o.entry.clust # 0
               PROVE  o = p
  BY DEF Alone
<1>2. CASE ObjectOf(p, q, ROOT, <<>>)
  BY <1>1, <1>2, SameEntry
<1>3. ASSUME NEW x \in objects, ObjectOf(p, q, x.entry.clust, x.name) PROVE FALSE
  <2>1. ROOT = x.entry.clust
    BY <1>1, <1>3, SameEntry
  <2>2. \E d, at : ObjectOf(x, q, d, at)
    BY DEF HasPlace
  <2>3. QED BY <2>1, <2>2, ObjectSound
<1>4. QED BY <1>2, <1>3 DEF HasPlace

\* and so is one below an object that is the only one of its own,
LEMMA BelowAlone ==
    ASSUME NEW v, NEW q, Calm(v, q), NEW objects, \A p \in objects : HasPlace(p, objects, q),
           NEW x \in objects, Alone(x, objects), x.entry.clust # 0,
           NEW o, ObjectOf(o, q, x.entry.clust, x.name)
    PROVE  Alone(o, objects)
<1>1. SUFFICES ASSUME NEW p \in objects, o.entry.clust = p.entry.clust, o.entry.clust # 0
               PROVE  o = p
  BY DEF Alone
<1>2. ASSUME ObjectOf(p, q, ROOT, <<>>) PROVE FALSE
  <2>1. x.entry.clust = ROOT
    BY <1>1, <1>2, SameEntry
  <2>2. \E d, at : ObjectOf(x, q, d, at)
    BY DEF HasPlace
  <2>3. QED BY <2>1, <2>2, ObjectSound
<1>3. ASSUME NEW y \in objects, ObjectOf(p, q, y.entry.clust, y.name) PROVE o = p
  <2>1. x.entry.clust = y.entry.clust
    BY <1>1, <1>3, SameEntry
  <2>2. x = y
    BY <2>1 DEF Alone
  <2>3. QED BY <1>1, <1>3, <2>2, SameEntry
<1>4. QED BY <1>2, <1>3 DEF HasPlace

\* and therefore every object.
LEMMA ObjectsAlone ==
    ASSUME NEW v, NEW q, Calm(v, q)
    PROVE  \A o \in ObjectsOn(v) : HasPlace(o, ObjectsOn(v), q) /\ Alone(o, ObjectsOn(v))
<1> DEFINE N == N_FATENT
           All == ObjectsOn(v)
<1>1. PICK run : LevelsRun(run, v)
  BY ObjectsRuns
<1>2. /\ \A n \in 0..N : Tree(run[n], q)
      /\ run[0] = [all |-> {} \cup ObjectsIn(v, ROOT, <<>>), last |-> ObjectsIn(v, ROOT, <<>>)]
      /\ \A n \in 0..N : n < N => run[n + 1] = Deeper(v, run[n])
  BY <1>1, ObjectsTree
<1>3. All = run[N].all /\ N \in Nat
  BY <1>1, FatAssumption DEF LevelsRun
<1> HIDE DEF All
<1>4. \A o \in All : HasPlace(o, All, q)
  BY <1>2, <1>3 DEF Tree
<1> DEFINE S == {n \in 0..N : run[n].all \subseteq All => \A o \in run[n].all : Alone(o, All)}
<1>5. 0 \in S
  <2>1. ASSUME NEW o \in run[0].all PROVE Alone(o, All)
    <3>1. o \in ObjectsIn(v, ROOT, <<>>)
      BY <1>2, <2>1
    <3>2. ObjectOf(o, q, ROOT, <<>>)
      BY <3>1, RootHas
    <3>3. QED BY <1>4, <3>2, RootAlone
  <2>2. QED BY <1>3, <2>1
<1>6. ASSUME NEW n \in 0..N, n < N, n \in S PROVE n + 1 \in S
  <2> DEFINE s == run[n]
             b == Below(v, s.last)
             t == run[n + 1]
  <2>1. n + 1 \in 0..N /\ Tree(s, q) /\ t = Deeper(v, s)
    BY <1>2, <1>3, <1>6
  <2>2. s.last \subseteq s.all
    BY <2>1 DEF Tree
  <2>3. t.all \subseteq s.all \cup b /\ s.all \subseteq t.all
    BY <2>1 DEF Deeper, With
  <2>4. ASSUME t.all \subseteq All, NEW o \in t.all PROVE Alone(o, All)
    <3>1. s.all \subseteq All /\ \A x \in s.all : Alone(x, All)
      BY <1>6, <2>3, <2>4
    <3>2. CASE o \in s.all
      BY <3>1, <3>2
    <3>3. CASE o \in b
      <4>1. PICK x \in s.last : /\ "DIR" \in x.entry.attr /\ x.entry.clust # 0
                                /\ ObjectOf(o, q, x.entry.clust, x.name)
        BY <2>1, <3>3, BelowHas
      <4>2. x \in All /\ Alone(x, All)
        BY <2>2, <3>1
      <4>3. QED BY <1>4, <4>1, <4>2, BelowAlone
    <3>4. QED BY <2>3, <2>4, <3>2, <3>3
  <2>5. QED BY <2>1, <2>4
<1>7. N \in S
  <2> HIDE DEF S, N
  <2>1. 0..N \subseteq S
    BY <1>3, <1>5, <1>6, Induct
  <2>2. QED BY <1>3, <2>1
<1>8. \A o \in All : Alone(o, All)
  BY <1>3, <1>7
<1>9. QED BY <1>4, <1>8 DEF All

\* Chains begin at the clusters that the objects name.
LEMMA HeadsAre ==
    ASSUME NEW v, NEW q, Calm(v, q), NEW c \in Heads(v)
    PROVE  c \in Clusters /\ Begins(q.link, c)
<1>1. CASE c = ROOT
  <2>1. IsShape(q) /\ Begins(q.link, ROOT)
    BY DEF Calm, Good, IsShape, Sound, EntriesSound
  <2>2. ROOT \in Clusters
    BY <2>1, ShapeFacts
  <2>3. QED BY <1>1, <2>1, <2>2
<1>2. CASE c # ROOT
  <2>1. PICK o \in ObjectsOn(v) : c = o.entry.clust /\ c # 0
    BY <1>2 DEF Heads
  <2>2. \E d, at : ObjectOf(o, q, d, at)
    BY ObjectsAlone DEF HasPlace
  <2>3. QED BY <2>1, <2>2, ObjectSound
<1>3. QED BY <1>1, <1>2

\* In a sound shape nothing is shared.
LEMMA SoundIsUnshared == IInv => NoSharing
<1>1. SUFFICES ASSUME NEW q, Calm(vol, q) PROVE NoSharing
  BY DEF IInv, Resting
<1> DEFINE objects == ObjectsOn(vol)
           chains == {Chain(vol, c) : c \in Heads(vol)}
<1>2. ASSUME NEW c \in Heads(vol)
      PROVE  LET s == Chain(vol, c) IN Follows(s, c, q) /\ q.link[s[Len(s)]] = EOC
  BY <1>1, HeadsAre, ChainIs
<1>3. ASSUME NEW s \in chains PROVE Link(vol, s[Len(s)]) >= N_FATENT
  <2>1. PICK c \in Heads(vol) : s = Chain(vol, c)
    OBVIOUS
  <2>2. Follows(s, c, q) /\ q.link[s[Len(s)]] = EOC
    BY <1>2, <2>1
  <2>3. s[Len(s)] \in Clusters
    BY <2>2 DEF Follows
  <2>4. Link(vol, s[Len(s)]) = EOC
    BY <1>1, <2>2, <2>3, ShapeRead
  <2>5. QED BY <2>4, FatAssumption DEF EOC
<1>4. ASSUME NEW s \in chains, NEW t \in chains, NEW i \in DOMAIN s, NEW k \in DOMAIN t, s[i] = t[k]
      PROVE  s = t /\ i = k
  <2>1. PICK c \in Heads(vol), d \in Heads(vol) : s = Chain(vol, c) /\ t = Chain(vol, d)
    OBVIOUS
  <2>2. Follows(s, c, q) /\ Follows(t, d, q)
    BY <1>2, <2>1
  <2>3. DOMAIN s = 1..Len(s) /\ DOMAIN t = 1..Len(t)
    BY <2>2 DEF Follows
  <2>4. q.first[s[i]] = c /\ q.nth[s[i]] = i /\ q.first[t[k]] = d /\ q.nth[t[k]] = k
    BY <2>2, <2>3 DEF Follows
  <2>5. QED BY <1>4, <2>1, <2>4
<1>5. \A o, p \in objects : o.entry.clust = p.entry.clust /\ o.entry.clust # 0 => o = p
  BY <1>1, ObjectsAlone DEF Alone
<1>6. ASSUME NEW o \in objects
      PROVE  /\ o.entry.clust # ROOT
             /\ "DIR" \notin o.entry.attr =>
                   Len(Chain(vol, o.entry.clust)) = (o.entry.size + SS - 1) \div SS
  <2> DEFINE c == o.entry.clust
             s == Chain(vol, c)
  <2>1. \E d, at : ObjectOf(o, q, d, at)
    BY <1>1, ObjectsAlone DEF HasPlace
  <2>2. /\ "DIR" \notin o.entry.attr /\ c = 0 => o.entry.size = 0
        /\ c # ROOT
        /\ c # 0 =>
                  /\ c \in Clusters /\ Begins(q.link, c)
                  /\ "DIR" \notin o.entry.attr =>
                        SizeFits(q.link, q.first, q.nth, c, o.entry.size)
    BY <1>1, <2>1, ObjectSound
  <2>3. CASE c = 0
    <3>1. s = <<>>
      BY <2>3, NoObjects
    <3>2. (0 + SS - 1) \div SS = 0
      BY FatAssumption
    <3>3. QED BY <2>2, <2>3, <3>1, <3>2
  <2>4. CASE c # 0
    <3>1. Follows(s, c, q) /\ q.link[s[Len(s)]] = EOC
      BY <1>1, <2>2, <2>4, ChainIs
    <3> HIDE DEF s
    <3>2. s[Len(s)] \in Clusters /\ q.first[s[Len(s)]] = c /\ q.nth[s[Len(s)]] = Len(s)
      BY <3>1 DEF Follows
    <3>3. ASSUME "DIR" \notin o.entry.attr PROVE Len(s) = (o.entry.size + SS - 1) \div SS
      BY <2>2, <2>4, <3>1, <3>2, <3>3 DEF SizeFits
    <3>4. QED BY <2>2, <3>3 DEF s
  <2>5. QED BY <2>3, <2>4
<1>7. QED BY <1>3, <1>4, <1>5, <1>6 DEF NoSharing

(* No two files or directories ever share a cluster, however many calls there
   are and wherever the power cuts a save, but between the writes that link
   and clear a cluster a directory grows by (PowerCut leaves that out).      *)
THEOREM NoSharingAlways == Spec => []NoSharing
BY IInvAlways, SoundIsUnshared, PTL

-----------------------------------------------------------------------------
(* What is kept twice.                                                      *)

\* At rest what is kept twice agrees, as long as no call was cut.
LEMMA CalmIsCopied == IInv => CopiesAgree
<1>1. SUFFICES ASSUME IInv, ~torn PROVE CopiesAgree
  BY DEF CopiesAgree
<1>2. PICK q : Calm(vol, q) /\ q.base.whole
  BY <1>1 DEF IInv, Resting
<1>3. /\ Mirrored(vol.disk, q.b) /\ Informed(vol.disk, q.b, vol.free_clst)
      /\ vol.free_clst = Cardinality(Unlinked(q.link)) /\ vol.volbase = q.b /\ q.b \in Nat
  BY <1>2, RestsWhole DEF Whole, Calm, Good, IsVolume, IsShape
<1>4. FreeOn(vol) = Unlinked(q.link)
  BY <1>2, ShapeRead DEF FreeOn, Unlinked
<1>5. ASSUME NEW c \in Clusters PROVE Mirror(vol, c) = Link(vol, c)
  <2>1. FatSector(vol, c) = FatAt(q.b, c)
    BY <1>3 DEF FatSector, FatAt
  <2>2. FatAt(q.b, c) \in q.b + FatBase..q.b + FatBase + FSize - 1
    BY <1>3, SectorsApart
  <2>3. vol.disk[FatAt(q.b, c) + FSize] = vol.disk[FatAt(q.b, c)]
    BY <1>3, <2>2 DEF Mirrored
  <2>4. QED BY <2>1, <2>3 DEF Mirror, Link
<1>6. QED BY <1>3, <1>4, <1>5 DEF CopiesAgree, Informed

(* As long as no call was cut, the second table is the copy of the first, and
   the number of free clusters in memory and in FSInfo is that of the free
   links: sync_window, put_fat, create_chain, remove_chain and sync_fs keep
   what is written twice alike, on every path of every call.                *)
THEOREM CopiesAgreeAlways == Spec => []CopiesAgree
BY IInvAlways, CalmIsCopied, PTL

-----------------------------------------------------------------------------
(* What is in use can be reached.                                           *)

\* Every cluster in use is in the chain that begins at its first.
LEMMA ChainHas ==
    ASSUME NEW v, NEW q, Calm(v, q), NEW x \in Clusters, q.link[x] # 0
    PROVE  LET s == Chain(v, q.first[x])
           IN  q.nth[x] \in 1..Len(s) /\ s[q.nth[x]] = x
<1> DEFINE c == q.first[x]
           s == Chain(v, c)
           e == s[Len(s)]
           n == q.nth[x]
<1>1. ChainsSound(q.link, q.dirs, q.first, q.nth)
  BY DEF Calm, Good, IsShape, Sound
<1>2. c \in Clusters /\ Begins(q.link, c) /\ n \in Nat \ {0}
  BY <1>1 DEF ChainsSound
<1> HIDE DEF c
<1>3. Follows(s, c, q) /\ q.link[e] = EOC
  BY <1>2, ChainIs
<1> HIDE DEF s
<1>4. Len(s) \in Nat /\ e \in Clusters /\ q.link[e] # 0 /\ q.first[e] = c /\ q.nth[e] = Len(s)
  BY <1>3 DEF Follows
<1>5. n <= Len(s)
  <2> HIDE DEF e
  <2>1. q.first[x] = q.first[e]
    BY <1>4 DEF c
  <2>2. q.nth[x] <= q.nth[e]
    BY <1>1, <1>3, <1>4, <2>1 DEF ChainsSound
  <2>3. QED BY <1>4, <2>2
<1>6. n \in 1..Len(s)
  BY <1>2, <1>4, <1>5
<1> DEFINE y == s[n]
<1>7. y \in Clusters /\ q.link[y] # 0 /\ q.first[y] = c /\ q.nth[y] = n
  BY <1>3, <1>6 DEF Follows
<1>8. y = x
  <2> HIDE DEF y
  <2>1. QED BY <1>1, <1>7 DEF ChainsSound, c
<1>9. QED BY <1>6, <1>8 DEF s, c

\* The place of entry j of the n-th cluster, and the entries up to it.
LEMMA PlaceOf ==
    ASSUME NEW l \in Nat, NEW n \in 1..l, NEW j \in Slots
    PROVE  \E i \in 1..l * DPS :
              /\ ((i - 1) \div DPS) + 1 = n /\ (i - 1) % DPS = j
              /\ \A m \in 1..i : LET a == ((m - 1) \div DPS) + 1
                                 IN  /\ a \in 1..l /\ (m - 1) % DPS \in Slots
                                     /\ a < n \/ (a = n /\ (m - 1) % DPS <= j)
<1> DEFINE p == (n - 1) * DPS
           i == p + j + 1
<1>1. DPS \in Nat \ {0} /\ j \in 0..DPS - 1 /\ n \in Nat /\ n >= 1 /\ p \in Nat
  BY FatAssumption DEF Slots
<1>2. l * DPS \in Nat /\ p + DPS <= l * DPS
  <2>1. l = (n - 1) + 1 + (l - n) /\ l - n \in Nat /\ n - 1 \in Nat
    BY <1>1
  <2>2. l * DPS = p + DPS + (l - n) * DPS
    BY <2>1, <1>1
  <2>3. (l - n) * DPS \in Nat
    BY <2>1, <1>1
  <2> DEFINE z == (l - n) * DPS
             w == l * DPS
  <2>4. w = p + DPS + z /\ z \in Nat
    BY <2>2, <2>3
  <2> HIDE DEF z, w, p
  <2>5. w \in Nat /\ p + DPS <= w
    BY <1>1, <2>4
  <2>6. QED BY <2>5 DEF w
<1>3. i \in 1..l * DPS
  <2> DEFINE w == l * DPS
  <2>1. w \in Nat /\ p + DPS <= w
    BY <1>2
  <2> HIDE DEF w, p
  <2>2. i \in 1..w
    BY <1>1, <2>1
  <2>3. QED BY <2>2 DEF w
<1>4. ASSUME NEW m \in 1..i
      PROVE  LET a == ((m - 1) \div DPS) + 1
             IN  /\ a \in 1..l /\ (m - 1) % DPS \in Slots
                 /\ a < n \/ (a = n /\ (m - 1) % DPS <= j)
                 /\ m = i => a = n /\ (m - 1) % DPS = j
  <2> DEFINE b == (m - 1) \div DPS
             r == (m - 1) % DPS
  <2>1. m - 1 \in Nat /\ m - 1 <= p + j
    BY <1>1
  <2>2. b \in Nat /\ r \in 0..DPS - 1 /\ m - 1 = DPS * b + r
    BY <1>1, <2>1
  <2> HIDE DEF b, r
  <2>3. b < n - 1 \/ b = n - 1 \/ b > n - 1
    BY <1>1, <2>2
  <2>4. ASSUME b > n - 1 PROVE FALSE
    <3>1. b = (n - 1) + 1 + (b - n) /\ b - n \in Nat /\ n - 1 \in Nat
      BY <1>1, <2>2, <2>4
    <3>2. DPS * b = p + DPS + DPS * (b - n)
      BY <1>1, <3>1
    <3> DEFINE z == DPS * (b - n)
               w == DPS * b
    <3>3. z \in Nat /\ w = p + DPS + z /\ m - 1 = w + r
      BY <1>1, <2>2, <3>1, <3>2
    <3> HIDE DEF z, w, p
    <3>4. QED BY <1>1, <2>1, <2>2, <3>3
  <2>5. ASSUME b = n - 1 PROVE m - 1 = p + r /\ r <= j
    <3>1. DPS * b = p
      BY <1>1, <2>5
    <3>2. m - 1 = p + r
      BY <2>2, <3>1
    <3> HIDE DEF p
    <3>3. QED BY <1>1, <2>1, <2>2, <3>2
  <2>6. ASSUME b < n - 1 PROVE m # i
    <3>1. n - 1 = b + 1 + (n - 2 - b) /\ n - 2 - b \in Nat
      BY <1>1, <2>2, <2>6
    <3>2. p = DPS * b + DPS + (n - 2 - b) * DPS
      BY <1>1, <2>2, <3>1
    <3> DEFINE z == (n - 2 - b) * DPS
               w == DPS * b
    <3>3. z \in Nat /\ p = w + DPS + z /\ m - 1 = w + r /\ w \in Nat
      BY <1>1, <2>2, <3>1, <3>2
    <3> HIDE DEF z, w, p
    <3>4. QED BY <1>1, <2>2, <3>3
  <2>7. m = i => b = n - 1 /\ r = j
    <3>1. m = i => b = n - 1
      BY <2>3, <2>4, <2>6
    <3>2. m = i => m - 1 = p + j
      <4> HIDE DEF p
      <4>1. QED BY <1>1
    <3> HIDE DEF i, p
    <3>3. QED BY <1>1, <2>2, <2>5, <3>1, <3>2
  <2>8. /\ b + 1 \in 1..l /\ r \in Slots
        /\ b + 1 < n \/ (b + 1 = n /\ r <= j)
        /\ m = i => b + 1 = n /\ r = j
    <3> HIDE DEF i, p
    <3>1. QED BY <1>1, <2>2, <2>3, <2>4, <2>5, <2>7 DEF Slots
  <2>9. QED BY <2>8 DEF b, r
<1>5. i \in 1..i
  <2> HIDE DEF p
  <2>1. QED BY <1>1
<1> HIDE DEF i
<1>6. QED BY <1>3, <1>4, <1>5

\* The entries of a directory are read up to its end, and none is behind it.
LEMMA EntriesHave ==
    ASSUME NEW v, NEW q, Calm(v, q), Filled(q.content, q.dirs, q.first, q.nth),
           NEW k \in q.dirs, NEW j \in Slots, ~IsFree(q.content[k][j])
    PROVE  q.content[k][j] \in EntriesOf(v, q.first[k])
<1> DEFINE d == q.first[k]
           s == Chain(v, d)
           n == q.nth[k]
           At(i) == v.disk[Sector(v, s[((i - 1) \div DPS) + 1])][(i - 1) % DPS]
<1>1. LinksSound(q.link, q.dirs) /\ ChainsSound(q.link, q.dirs, q.first, q.nth)
  BY DEF Calm, Good, IsShape, Sound
<1>2. k \in Clusters /\ q.link[k] # 0
  BY <1>1 DEF LinksSound
<1>3. d \in Clusters /\ Begins(q.link, d) /\ d \in q.dirs
  BY <1>1, <1>2 DEF ChainsSound
<1>4. n \in 1..Len(s) /\ s[n] = k
  BY <1>2, ChainHas
<1>5. Follows(s, d, q)
  BY <1>3, ChainIs
<1> HIDE DEF d
<1> HIDE DEF s
<1>6. Len(s) \in Nat /\ \A a \in 1..Len(s) : /\ s[a] \in Clusters /\ q.link[s[a]] # 0
                                              /\ q.first[s[a]] = d /\ q.nth[s[a]] = a
  BY <1>5 DEF Follows
<1>7. \A a \in 1..Len(s) : s[a] \in q.dirs /\ v.disk[Sector(v, s[a])] = q.content[s[a]]
  <2>1. SUFFICES ASSUME NEW a \in 1..Len(s)
                 PROVE  s[a] \in q.dirs /\ v.disk[Sector(v, s[a])] = q.content[s[a]]
    OBVIOUS
  <2> DEFINE y == s[a]
  <2>2. y \in Clusters /\ q.link[y] # 0 /\ q.first[y] = d
    BY <1>6
  <2> HIDE DEF y
  <2>3. y \in q.dirs
    BY <1>1, <1>3, <2>2 DEF ChainsSound
  <2>4. v.disk[Sector(v, y)] = q.content[y]
    BY <2>2, ShapeRead
  <2>5. QED BY <2>3, <2>4 DEF y
<1> HIDE DEF n
<1>8. PICK i \in 1..Len(s) * DPS :
              /\ ((i - 1) \div DPS) + 1 = n /\ (i - 1) % DPS = j
              /\ \A m \in 1..i : LET a == ((m - 1) \div DPS) + 1
                                 IN  /\ a \in 1..Len(s) /\ (m - 1) % DPS \in Slots
                                     /\ a < n \/ (a = n /\ (m - 1) % DPS <= j)
  BY <1>4, <1>6, PlaceOf
<1>9. At(i) = q.content[k][j]
  BY <1>4, <1>7, <1>8
<1>10. ASSUME NEW m \in 1..i PROVE ~IsEnd(At(m))
  <2> DEFINE a == ((m - 1) \div DPS) + 1
             b == (m - 1) % DPS
             y == s[a]
  <2>1. a \in 1..Len(s) /\ b \in Slots /\ (a < n \/ (a = n /\ b <= j))
    BY <1>8
  <2>2. At(m) = v.disk[Sector(v, y)][b]
    OBVIOUS
  <2> HIDE DEF a, b, At
  <2>3. y \in q.dirs /\ q.first[y] = d /\ q.nth[y] = a /\ At(m) = q.content[y][b]
    BY <1>6, <1>7, <2>1, <2>2
  <2>4. a = n => y = k
    BY <1>4
  <2> HIDE DEF y
  <2>5. SUFFICES ASSUME IsEnd(q.content[y][b]) PROVE FALSE
    BY <2>3
  <2>6. ~IsEnd(q.content[k][j])
    BY DEF IsFree, IsEnd
  <2>7. Before(q.first, q.nth, y, b, k, j) \/ (y = k /\ b = j)
    <3>1. q.first[y] = q.first[k] /\ q.nth[k] = n
      BY <2>3 DEF d, n
    <3>2. b \in Int /\ j \in Int
      BY <2>1, FatAssumption DEF Slots
    <3>3. CASE a < n
      BY <2>3, <3>1, <3>3 DEF Before
    <3>4. CASE a = n /\ b <= j
      BY <2>4, <3>1, <3>2, <3>4 DEF Before
    <3>5. QED BY <2>1, <3>3, <3>4
  <2>8. QED BY <2>1, <2>3, <2>5, <2>6, <2>7 DEF Filled
<1>11. EntriesOf(v, d) = {e \in {At(x) : x \in {y \in 1..Len(s) * DPS : \A m \in 1..y : ~IsEnd(At(m))}} : ~IsFree(e)}
  BY DEF EntriesOf, s
<1> HIDE DEF At
<1>12. At(i) \in EntriesOf(v, d)
  BY <1>8, <1>9, <1>10, <1>11
<1>13. QED BY <1>9, <1>12 DEF d

\* So what is in use in a directory is among its objects.
LEMMA ObjectsHave ==
    ASSUME NEW v, NEW q, Calm(v, q), Filled(q.content, q.dirs, q.first, q.nth),
           NEW d, NEW k, NEW j, ListedAt(k, j, q, d), NEW at
    PROVE  \E o \in ObjectsIn(v, d, at) : o.entry = q.content[k][j]
<1> DEFINE e == q.content[k][j]
           o == [name |-> Append(at, ListedName(e.name)), entry |-> e]
<1>1. k \in q.dirs /\ j \in Slots /\ q.first[k] = d /\ Live(e) /\ e.name[1] # "."
  BY DEF ListedAt
<1>2. e \in EntriesOf(v, d)
  BY <1>1, EntriesHave DEF Live
<1> HIDE DEF e
<1>3. o \in ObjectsIn(v, d, at)
  BY <1>1, <1>2 DEF ObjectsIn, Live
<1>4. QED BY <1>3 DEF e

\* An entry that the listing of a directory shows is the owner of the chain from h.
HasEntry(q, h) ==
    \E k \in q.dirs, j \in Slots :
        /\ ListedAt(k, j, q, q.first[k]) /\ q.content[k][j].clust = h
        /\ q.first[k] \in q.dirs /\ Begins(q.link, q.first[k]) /\ q.first[q.first[k]] = q.first[k]
        /\ q.base.level[q.first[k]] \in 0..N_FATENT
        /\ h \in q.dirs => /\ "DIR" \in q.content[k][j].attr
                           /\ q.base.level[h] = q.base.level[q.first[k]] + 1

\* What is in use has an owner, but for the root; and the owner of a directory is above it.
LEMMA OwnersAre ==
    ASSUME NEW v, NEW q, Calm(v, q), q.base.whole, NEW h \in Clusters \ {ROOT}, Begins(q.link, h)
    PROVE  HasEntry(q, h)
<1>1. /\ Tended(q) /\ q.lost = {}
      /\ LinksSound(q.link, q.dirs) /\ ChainsSound(q.link, q.dirs, q.first, q.nth)
      /\ EntriesSound(q.link, q.content, q.dirs, q.first, q.nth)
  BY DEF Calm, Good, IsShape, Sound
<1>2. /\ Untended(q.link, q.content, q.dirs) = {}
      /\ Rooted(q.content, q.dirs, q.first, q.base.level) /\ Listable(q.content, q.dirs)
  BY <1>1 DEF Tended, Tidy
<1>3. PICK k \in q.dirs, j \in Slots : Owns(q.content[k][j]) /\ q.content[k][j].clust = h
  BY <1>2 DEF Untended
<1> DEFINE e == q.content[k][j]
           p == q.first[k]
<1>4. EntrySound(e, q.link, q.dirs, q.first, q.nth) /\ Owns(e) /\ e.clust = h
  BY <1>1, <1>3 DEF EntriesSound
<1>5. Live(e) /\ e.clust # 0 /\ (IsDir(e) <=> h \in q.dirs)
  BY <1>4 DEF EntrySound, Owns
<1>6. e.name[1] # "."
  <2>1. ~IsDir(e) => e.name[1] # "."
    BY <1>2, <1>5 DEF Listable
  <2>2. IsDir(e) => e.name[1] # "."
    BY <1>4 DEF Owns
  <2>3. QED BY <2>1, <2>2
<1>7. k \in Clusters /\ q.link[k] # 0
  BY <1>1 DEF LinksSound
<1>8. p \in Clusters /\ Begins(q.link, p) /\ p \in q.dirs
  BY <1>1, <1>7 DEF ChainsSound
<1>9. q.first[p] = p
  BY <1>1, <1>8 DEF ChainsSound
<1>10. q.base.level[p] \in 0..N_FATENT
  BY <1>2 DEF Rooted
<1>11. h \in q.dirs => q.base.level[h] = q.base.level[p] + 1
  BY <1>2, <1>4, <1>5 DEF Rooted
<1>12. ListedAt(k, j, q, p)
  BY <1>5, <1>6 DEF ListedAt
<1>13. h \in q.dirs => "DIR" \in e.attr
  BY <1>5 DEF IsDir
<1>14. QED BY <1>4, <1>8, <1>9, <1>10, <1>11, <1>12, <1>13 DEF HasEntry

\* The objects of the directories at level n of the tree are found after n rounds.
FoundAt(n, objects, q) ==
    \A d \in q.dirs : Begins(q.link, d) /\ q.base.level[d] = n =>
        \A k \in q.dirs, j \in Slots :
            ListedAt(k, j, q, d) => \E o \in objects : o.entry = q.content[k][j]

\* One round finds what is one level deeper,
LEMMA DeeperFinds ==
    ASSUME NEW v, NEW q, Calm(v, q), q.base.whole, NEW n \in Nat, NEW s,
           FoundAt(n, s.last, q)
    PROVE  FoundAt(n + 1, Deeper(v, s).last, q)
<1>1. Filled(q.content, q.dirs, q.first, q.nth) /\ q.base.level[ROOT] = 0 /\ q.dirs \subseteq Clusters
  BY DEF Calm, Good, IsShape, Tended, Tidy, Rooted, Sound, LinksSound
<1>2. SUFFICES ASSUME NEW d \in q.dirs, Begins(q.link, d), q.base.level[d] = n + 1,
                      NEW k \in q.dirs, NEW j \in Slots, ListedAt(k, j, q, d)
               PROVE  \E o \in Deeper(v, s).last : o.entry = q.content[k][j]
  BY DEF FoundAt
<1>3. d # ROOT /\ d \in Clusters
  BY <1>1, <1>2
<1>4. PICK l \in q.dirs, m \in Slots :
         /\ ListedAt(l, m, q, q.first[l]) /\ q.content[l][m].clust = d
         /\ q.first[l] \in q.dirs /\ Begins(q.link, q.first[l])
         /\ q.base.level[q.first[l]] \in 0..N_FATENT
         /\ "DIR" \in q.content[l][m].attr
         /\ q.base.level[d] = q.base.level[q.first[l]] + 1
  <2>1. HasEntry(q, d)
    BY <1>2, <1>3, OwnersAre
  <2>2. QED BY <1>2, <2>1 DEF HasEntry
<1>5. q.base.level[q.first[l]] = n
  BY <1>2, <1>4, FatAssumption
<1>6. PICK x \in s.last : x.entry = q.content[l][m]
  BY <1>4, <1>5 DEF FoundAt
<1>7. PICK o \in ObjectsIn(v, d, x.name) : o.entry = q.content[k][j]
  BY <1>1, <1>2, ObjectsHave
<1>8. o \in Below(v, s.last)
  BY <1>4, <1>6, <1>7 DEF Below
<1>9. Deeper(v, s).last = Below(v, s.last)
  BY <1>6 DEF Deeper, With
<1>10. QED BY <1>7, <1>8, <1>9

\* and the first what is in the root directory.
LEMMA RootFinds ==
    ASSUME NEW v, NEW q, Calm(v, q), q.base.whole
    PROVE  FoundAt(0, ObjectsIn(v, ROOT, <<>>), q)
<1>1. Filled(q.content, q.dirs, q.first, q.nth) /\ q.dirs \subseteq Clusters
  BY DEF Calm, Good, IsShape, Tended, Tidy, Sound, LinksSound
<1>2. SUFFICES ASSUME NEW d \in q.dirs, Begins(q.link, d), q.base.level[d] = 0,
                      NEW k \in q.dirs, NEW j \in Slots, ListedAt(k, j, q, d)
               PROVE  \E o \in ObjectsIn(v, ROOT, <<>>) : o.entry = q.content[k][j]
  BY DEF FoundAt
<1>3. d = ROOT
  <2>1. SUFFICES ASSUME d # ROOT PROVE FALSE
    OBVIOUS
  <2>2. PICK l \in q.dirs : /\ q.base.level[q.first[l]] \in 0..N_FATENT
                            /\ q.base.level[d] = q.base.level[q.first[l]] + 1
    <3>1. HasEntry(q, d)
      BY <1>1, <1>2, <2>1, OwnersAre
    <3>2. QED BY <1>2, <3>1 DEF HasEntry
  <2>3. QED BY <1>2, <2>2, FatAssumption
<1>4. QED BY <1>1, <1>2, <1>3, ObjectsHave

\* Every entry that is listed is among the objects, whatever directory it is in.
LEMMA ObjectsAll ==
    ASSUME NEW v, NEW q, Calm(v, q), q.base.whole, NEW d \in q.dirs, Begins(q.link, d),
           q.base.level[d] \in 0..N_FATENT,
           NEW k \in q.dirs, NEW j \in Slots, ListedAt(k, j, q, d)
    PROVE  \E o \in ObjectsOn(v) : o.entry = q.content[k][j]
<1> DEFINE N == N_FATENT
<1>1. PICK run : LevelsRun(run, v)
  BY ObjectsRuns
<1>2. /\ \A n \in 0..N : Tree(run[n], q)
      /\ run[0] = [all |-> {} \cup ObjectsIn(v, ROOT, <<>>), last |-> ObjectsIn(v, ROOT, <<>>)]
      /\ \A n \in 0..N : n < N => run[n + 1] = Deeper(v, run[n])
  BY <1>1, ObjectsTree
<1>3. ObjectsOn(v) = run[N].all /\ N \in Nat
  BY <1>1, FatAssumption DEF LevelsRun
<1> DEFINE S == {n \in 0..N : /\ FoundAt(n, run[n].last, q)
                              /\ \A m \in 0..n : run[m].all \subseteq run[n].all}
<1>4. 0 \in S
  <2>1. FoundAt(0, run[0].last, q)
    BY <1>2, RootFinds
  <2>2. \A m \in 0..0 : m = 0
    OBVIOUS
  <2>3. QED BY <1>3, <2>1, <2>2
<1>5. ASSUME NEW n \in 0..N, n < N, n \in S PROVE n + 1 \in S
  <2> DEFINE s == run[n]
             t == run[n + 1]
  <2>1. n + 1 \in 0..N /\ n \in Nat /\ t = Deeper(v, s)
    BY <1>2, <1>3, <1>5
  <2>2. FoundAt(n + 1, t.last, q)
    BY <1>5, <2>1, DeeperFinds
  <2>3. s.all \subseteq t.all
    BY <2>1 DEF Deeper, With
  <2>4. ASSUME NEW m \in 0..n + 1 PROVE run[m].all \subseteq t.all
    <3>1. m \in 0..n \/ m = n + 1
      BY <2>1
    <3>2. CASE m = n + 1
      BY <3>2
    <3>3. CASE m \in 0..n
      BY <1>5, <2>3, <3>3
    <3>4. QED BY <3>1, <3>2, <3>3
  <2>5. QED BY <2>1, <2>2, <2>4
<1>6. 0..N \subseteq S
  <2> HIDE DEF S, N
  <2>1. QED BY <1>3, <1>4, <1>5, Induct
<1> DEFINE n == q.base.level[d]
<1>7. n \in 0..N /\ N \in 0..N
  BY <1>3
<1> HIDE DEF N
<1>8. FoundAt(n, run[n].last, q) /\ run[n].all \subseteq run[N].all
  BY <1>6, <1>7
<1>9. PICK o \in run[n].last : o.entry = q.content[k][j]
  BY <1>8 DEF FoundAt
<1>10. run[n].last \subseteq run[n].all
  BY <1>2, <1>7 DEF Tree
<1>11. QED BY <1>3, <1>8, <1>9, <1>10

\* At rest, as long as no call was cut, all that is in use is reached from the root.
LEMMA WholeIsOwned == IInv => NothingLost
<1>1. SUFFICES ASSUME IInv, ~torn PROVE Clusters \ FreeOn(vol) = Owned(vol)
  BY DEF NothingLost
<1>2. PICK q : Calm(vol, q) /\ q.base.whole
  BY <1>1 DEF IInv, Resting
<1>3. ChainsSound(q.link, q.dirs, q.first, q.nth)
  BY <1>2 DEF Calm, Good, IsShape, Sound
<1>4. ASSUME NEW c \in Clusters \ FreeOn(vol) PROVE c \in Owned(vol)
  <2> DEFINE h == q.first[c]
             s == Chain(vol, h)
  <2>1. q.link[c] # 0
    BY <1>2, <1>4, ShapeRead DEF FreeOn
  <2>2. h \in Clusters /\ Begins(q.link, h)
    BY <1>3, <2>1 DEF ChainsSound
  <2>3. q.nth[c] \in 1..Len(s) /\ s[q.nth[c]] = c
    BY <1>2, <2>1, ChainHas
  <2> HIDE DEF h
  <2>4. DOMAIN s = 1..Len(s)
    BY <1>2, <2>2, ChainIs DEF Follows
  <2>5. h \in Heads(vol)
    <3>1. CASE h = ROOT
      BY <3>1 DEF Heads
    <3>2. CASE h # ROOT
      <4>1. PICK k \in q.dirs, j \in Slots :
               /\ ListedAt(k, j, q, q.first[k]) /\ q.content[k][j].clust = h
               /\ q.first[k] \in q.dirs /\ Begins(q.link, q.first[k])
               /\ q.base.level[q.first[k]] \in 0..N_FATENT
        <5>1. HasEntry(q, h)
          BY <1>2, <2>2, <3>2, OwnersAre
        <5>2. QED BY <5>1 DEF HasEntry
      <4>2. PICK o \in ObjectsOn(vol) : o.entry = q.content[k][j]
        BY <1>2, <4>1, ObjectsAll
      <4>3. h # 0
        BY <2>2, EocIsNone
      <4>4. QED BY <4>1, <4>2, <4>3 DEF Heads
    <3>3. QED BY <3>1, <3>2
  <2>6. QED BY <2>3, <2>4, <2>5 DEF Owned
<1>5. ASSUME NEW c \in Owned(vol) PROVE c \in Clusters \ FreeOn(vol)
  <2>1. PICK h \in Heads(vol) : c \in {Chain(vol, h)[i] : i \in DOMAIN Chain(vol, h)}
    BY DEF Owned
  <2> DEFINE s == Chain(vol, h)
  <2>2. Follows(s, h, q)
    BY <1>2, HeadsAre, ChainIs
  <2> HIDE DEF s
  <2>3. PICK i \in DOMAIN s : c = s[i]
    BY <2>1 DEF s
  <2>4. c \in Clusters /\ q.link[c] # 0
    BY <2>2, <2>3 DEF Follows
  <2>5. QED BY <1>2, <2>4, ShapeRead DEF FreeOn
<1>6. QED BY <1>4, <1>5

(* As long as no call was cut, every cluster that is marked in use is in the
   chain of a file or a directory, and every cluster of these is marked: what
   a call takes it keeps in a chain or gives back, on every path.           *)
THEOREM NothingLostAlways == Spec => []NothingLost
BY IInvAlways, WholeIsOwned, PTL
=============================================================================
