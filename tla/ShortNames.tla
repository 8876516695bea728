----------------------------- MODULE ShortNames -----------------------------
(***************************************************************************)
(* Path names and the 8.3 names of directory entries, as FatFs converts    *)
(* them without long file names (ffconf.h: FF_USE_LFN 0, FF_FS_RPATH 0,    *)
(* FF_VOLUMES 1).  A path is a sequence of characters; the end of the      *)
(* sequence is the terminating NUL.  The name of an entry is BODY + EXT    *)
(* characters, each part filled up with blanks.                            *)
(***************************************************************************)
LOCAL INSTANCE Integers
LOCAL INSTANCE Sequences

CONSTANTS BODY, EXT      \* 8 and 3

Blank      == " "
Separators == {"/", "\\"}
Illegal    == {"*", "+", ",", ":", ";", "<", "=", ">", "[", "]", "|", "\"", "?"}

lower == <<"a","b","c","d","e","f","g","h","i","j","k","l","m",
           "n","o","p","q","r","s","t","u","v","w","x","y","z">>
upper == <<"A","B","C","D","E","F","G","H","I","J","K","L","M",
           "N","O","P","Q","R","S","T","U","V","W","X","Y","Z">>

\* What the first character of an entry's name may tell, or stand for.
NUL   == "\\0"             \* the end of the directory
DDEM  == "\\xE5"           \* the entry is deleted
RDDEM == "\\x05"           \* a name that begins with DDEM

\* The place of the first character of p that is in C; 0 if none is.
FirstOf(p, C) ==
    IF \E i \in 1..Len(p) : p[i] \in C
    THEN CHOOSE i \in 1..Len(p) : p[i] \in C /\ \A k \in 1..i - 1 : p[k] \notin C
    ELSE 0

Chars(p) == {p[i] : i \in 1..Len(p)}

\* A path: a sequence of characters, none of them the one that ends it.
Plain(p) == p \in Seq(Chars(p)) /\ NUL \notin Chars(p)

Upper(c) == LET i == FirstOf(lower, {c})
            IN  IF i = 0 THEN c ELSE upper[i]

From(p, i) == SubSeq(p, i, Len(p))

SkipSeparators(p) ==
    LET i == FirstOf(p, Chars(p) \ Separators)
    IN  IF i = 0 THEN <<>> ELSE From(p, i)

\* The path is used up: its end, or a blank, which ends a path as well.
AtEnd(p) == p = <<>> \/ Head(p) = Blank

\* The two parts filled up with blanks, and no mark of a deleted entry in front.
FileName(body, ext) ==
    LET Padded(s, n) == [i \in 1..n |-> IF i <= Len(s) THEN Upper(s[i]) ELSE Blank]
        sfn == Padded(body, BODY) \o Padded(ext, EXT)
    IN  [sfn EXCEPT ![1] = IF @ = DDEM THEN RDDEM ELSE @]

(* create_name: the first segment of the path as the name of an entry, what
   is left of the path, and whether the segment was the last (NS_LAST). *)
CreateName(path) ==
    LET stop == FirstOf(path, Separators \cup {Blank})
        seg  == IF stop = 0 THEN path ELSE SubSeq(path, 1, stop - 1)
        rest == IF stop = 0 THEN <<>> ELSE SkipSeparators(From(path, stop))
        dot  == FirstOf(seg, {"."})
        body == IF dot = 0 THEN seg ELSE SubSeq(seg, 1, dot - 1)
        ext  == IF dot = 0 THEN <<>> ELSE From(seg, dot + 1)
    IN  [res  |-> IF \/ seg = <<>> \/ Len(body) > BODY \/ Len(ext) > EXT
                     \/ \E i \in 1..Len(seg) : seg[i] \in Illegal
                     \/ \E i \in 1..Len(ext) : ext[i] = "."
                  THEN "INVALID_NAME" ELSE "OK",
         fn   |-> FileName(body, ext),
         last |-> AtEnd(rest),
         rest |-> rest]

\* get_fileinfo: the name of an entry as it is listed.
ListedName(fn) ==
    LET Letters(s) == SelectSeq([i \in DOMAIN s |-> IF s[i] = RDDEM THEN DDEM ELSE s[i]],
                                LAMBDA c : c # Blank)
        ext        == SubSeq(fn, BODY + 1, BODY + EXT)
    IN  Letters(SubSeq(fn, 1, BODY))
            \o (IF ext[1] = Blank THEN <<>> ELSE <<".">>) \o Letters(ext)

\* get_ldnumber: is there a drive of that number, and the path behind it.
Drive(path) ==
    LET colon == FirstOf(path, {":", Blank})
    IN  IF colon = 0 \/ path[colon] # ":" THEN [ok |-> TRUE, path |-> path]
        ELSE [ok |-> colon = 2 /\ path[1] = "0", path |-> From(path, colon + 1)]
=============================================================================
