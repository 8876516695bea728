------------------------------ MODULE FileStore ------------------------------
(***************************************************************************)
(* What the system calls for files promise: a map from the names of files  *)
(* to their contents, where                                                *)
(*   - saving gives one file the new content, or fails and leaves it as it *)
(*     was or with a beginning of the new content;                         *)
(*   - reading and running a file, listing and looking for a directory     *)
(*     tell what is there and change nothing;                              *)
(*   - a power cut hurts at most the file being saved.                     *)
(* reply is <<call, path, succeeded, data>> of the last call.              *)
(***************************************************************************)
EXTENDS Integers, Sequences, FiniteSets

CONSTANTS
  Named,          \* what a path that a caller may give is the name of, or NoName
  NoName,
  Dirs,           \* the names of the directories, which never change; <<>> is the root
  Texts,          \* contents that are saved
  BufSizes,       \* sizes of the buffers files are read into
  Loaded(_)       \* what the loader makes of a content: its segments, or <<>>

VARIABLES files, reply     \* files: from the names of the files to their contents

vars == <<files, reply>>

Paths     == DOMAIN Named
Parent(n) == SubSeq(n, 1, Len(n) - 1)
MayBeFile(n) == n # NoName /\ n \notin Dirs /\ Parent(n) \in Dirs
With(n, c)   == [m \in DOMAIN files \cup {n} |-> IF m = n THEN c ELSE files[m]]
Beginnings(c) == {SubSeq(c, 1, k) : k \in 0..Len(c)}

Save(path, text) ==
    /\ reply' = <<"save", path, TRUE, <<>>>>
    /\ MayBeFile(Named[path])
    /\ files' = With(Named[path], text)

SaveFails(path, text) ==
    /\ reply' = <<"save", path, FALSE, <<>>>>
    /\ \/ UNCHANGED files
       \/ /\ MayBeFile(Named[path])
          /\ \E c \in Beginnings(text) \ {text} : files' = With(Named[path], c)

\* One byte of the buffer is for the NUL.
Read(path, size) ==
    LET there == Named[path] \in DOMAIN files
        c     == files[Named[path]]
    IN  /\ reply' = <<"read", path, there,
                      IF there THEN SubSeq(c, 1, IF Len(c) < size THEN Len(c) ELSE size - 1)
                      ELSE <<>>>>
        /\ UNCHANGED files

Run(path) ==
    LET image == IF Named[path] \in DOMAIN files THEN Loaded(files[Named[path]]) ELSE <<>>
    IN  /\ reply' = <<"run", path, image # <<>>, image>>
        /\ UNCHANGED files

\* Every file and directory of a directory, once.
List(path) ==
    LET inside  == {n \in DOMAIN files \cup Dirs : n # <<>> /\ Parent(n) = Named[path]}
        told(n) == [name |-> n[Len(n)], is_dir |-> n \in Dirs]
        listed  == reply'[4]
    IN  /\ reply' = <<"list", path, TRUE, listed>>
        /\ Named[path] \in Dirs
        /\ {listed[i] : i \in DOMAIN listed} = {told(n) : n \in inside}
        /\ Len(listed) = Cardinality(inside)
        /\ UNCHANGED files

Check(path) ==
    /\ reply' = <<"check", path, Named[path] \in Dirs, <<>>>>
    /\ UNCHANGED files

PowerCut(path, text) ==
    /\ reply' = <<"boot", <<>>, TRUE, <<>>>>
    /\ \/ UNCHANGED files
       \/ /\ MayBeFile(Named[path])
          /\ \E c \in Beginnings(text) : files' = With(Named[path], c)

Next ==
    \E path \in Paths :
        \/ \E text \in Texts :
              Save(path, text) \/ SaveFails(path, text) \/ PowerCut(path, text)
        \/ \E size \in BufSizes : Read(path, size)
        \/ Run(path) \/ Check(path)
        \/ (reply'[1] = "list" /\ List(path))

Spec == [][Next]_vars
=============================================================================
