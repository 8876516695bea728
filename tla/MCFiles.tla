------------------------------- MODULE MCFiles -------------------------------
(***************************************************************************)
(* A small disk: a file, and two programs in a directory, their clusters   *)
(* interleaved.  Two clusters, 7 and 12, are free and lie below the one    *)
(* FSInfo names as the last allocated; the root directory has no entry to  *)
(* spare, and the last of bin's is one of a deleted file.  The volume is   *)
(* the whole disk, like the image of the repository, or a partition.       *)
(***************************************************************************)
EXTENDS Files

Name(body, ext) == FileName(body, ext)
Ent(name, attr, clust, size) == [name |-> name, attr |-> attr, clust |-> clust, size |-> size]
Dot(n)      == Ent([i \in 1..4 |-> IF i <= n THEN "." ELSE " "], {"DIR"}, IF n = 1 THEN 4 ELSE 0, 0)
Label       == Ent(Name(<<"k">>, <<>>), {"VOL", "ARC"}, 0, 0)
Deleted     == [NoEntry EXCEPT !.name[1] = DDEM]
LongPiece   == Ent(<<"A", "b", "i", "n">>, AM_LFN, 0, 0)

Shell == <<"E", "2", "6", "2", "1", "3", "x", "y">>   \* two segments, the second before the first
Tool  == <<"E", "2", "2", "2", "6", "1", "z">>         \* a note, and a segment

Root1 == Name(<<"b", "i", "n">>, <<>>)
Data(s) == [i \in 1..4 |-> IF i <= Len(s) THEN s[i] ELSE NUL]

\* cluster -> <<next, content>>
Used ==
    [c \in 2..6 \cup {8, 9, 10, 11, 13} |->
        CASE c = 2  -> <<3, <<LongPiece, Ent(Root1, {"DIR"}, 4, 0)>>>>
          [] c = 3  -> <<EOC, <<Ent(Name(<<"a">>, <<>>), {"ARC"}, 13, 1), Label>>>>
          [] c = 4  -> <<5, <<Dot(1), Dot(2)>>>>
          [] c = 5  -> <<6, <<LongPiece, Ent(Name(<<"s">>, <<"e">>), {"ARC"}, 8, 8)>>>>
          [] c = 6  -> <<EOC, <<Ent(Name(<<"t">>, <<"e">>), {"ARC"}, 9, 7), Deleted>>>>
          [] c = 13 -> <<EOC, Data(<<"o">>)>>
          [] c = 8  -> <<10, Data(SubSeq(Shell, 1, 4))>>
          [] c = 9  -> <<11, Data(SubSeq(Tool, 1, 4))>>
          [] c = 10 -> <<EOC, Data(SubSeq(Shell, 5, 8))>>
          [] c = 11 -> <<EOC, Data(SubSeq(Tool, 5, 7))>>]

FatEntry(c) == IF c \in DOMAIN Used THEN Used[c][1] ELSE IF c < 2 THEN EOC ELSE 0
FatPart(n)  == [i \in 0..EPS - 1 |-> FatEntry(n * EPS + i)]

\* What sector s of the volume holds.
Content(s) ==
    CASE s = 0 -> [vbr |-> TRUE, sign |-> TRUE]
      [] s = 1 -> [lead |-> TRUE, free |-> 2, next |-> 13]
      [] s \in FatBase..DataBase - 1 -> FatPart((s - FatBase) % FSize)
      [] s - DataBase + 2 \in 2..6  -> [i \in 0..DPS - 1 |-> Used[s - DataBase + 2][2][i + 1]]
      [] s - DataBase + 2 \in DOMAIN Used -> Used[s - DataBase + 2][2]
      [] OTHER -> Data(<<>>)

Size == DataBase + N_FATENT - 2
Whole     == [s \in 0..Size - 1 |-> Content(s)]
Partition == [s \in 0..Size + 1 |->
                CASE s = 0 -> [vbr |-> FALSE, sign |-> TRUE, parts |-> <<0, 1, 2, 0>>]
                  [] s = 1 -> [vbr |-> FALSE, sign |-> FALSE]
                  [] OTHER -> Content(s - 2)]
MCImages == {Whole, Partition}

Bin == <<"B", "I", "N">>
MCShellPath == <<"b", "i", "n", "/", "s", ".", "e">>
ToolPath    == <<"/", "b", "i", "n", "/", "t", ".", "e">>
MCNoName    == <<<<>>>>
MCDirs      == {<<>>, <<Bin>>}
InBin(f)    == <<Bin, f>>

\* Every path a call is made with, and its name.
NameTable == {
    <<<<>>, <<>>>>, <<<<"/">>, <<>>>>, <<<<"b", "i", "n">>, <<Bin>>>>,
    <<<<"a">>, <<<<"A">>>>>>, <<<<"/", "a">>, <<<<"A">>>>>>,
    <<<<"b">>, <<<<"B">>>>>>, <<<<"/", "b">>, <<<<"B">>>>>>,
    <<<<"b", "i", "n", "/", "b">>, InBin(<<"B">>)>>,
    <<<<"b", "i", "n", "/", "a">>, InBin(<<"A">>)>>,
    <<<<"b", "i", "n", "/", "c", ".", "x">>, InBin(<<"C", ".", "X">>)>>,
    <<<<"l", "o", "n", "g">>, MCNoName>>,
    <<MCShellPath, InBin(<<"S", ".", "E">>)>>,
    <<ToolPath, InBin(<<"T", ".", "E">>)>>}
MCNamed == [p \in {r[1] : r \in NameTable} |-> (CHOOSE r \in NameTable : r[1] = p)[2]]

MCCdPaths   == {<<>>, <<"b", "i", "n">>, <<"a">>}
MCMkNames   == {<<"b">>}
MCRunNames  == {ToolPath, <<"a">>}
MCOpenPaths == {<<"/", "a">>, <<"b", "i", "n", "/", "c", ".", "x">>, MCShellPath, <<"l", "o", "n", "g">>}
MCTexts     == {<<"u">>, <<"E", "1", "4", "1", "v", "w">>}
MCNotes     == {<<"2", "2">>}
MCValue     == [c \in {"1", "2", "3", "4", "6"} |->
                   CASE c = "1" -> 1 [] c = "2" -> 2 [] c = "3" -> 3 [] c = "4" -> 4 [] OTHER -> 6]
=============================================================================
