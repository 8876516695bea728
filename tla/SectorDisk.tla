----------------------------- MODULE SectorDisk -----------------------------
(***************************************************************************)
(* What the file system expects of the disk under it: sectors that are     *)
(* read and written one after the other, each as a whole.  A transfer      *)
(* whose drive has failed may end with anything in the caller's buffer, or *)
(* before the sector is stored; it touches no other sector.                *)
(***************************************************************************)
CONSTANTS Sectors, Data

VARIABLES
  disk,      \* the content of every sector
  call,      \* "none", or the operation in progress
  sector,    \* the sector of that operation; without one, of no meaning
  content,   \* what is to be written, or what has been read
  stored,    \* is the sector that is to be written on the disk
  failed     \* has the drive failed in this operation

vars == <<disk, call, sector, content, stored, failed>>

Begin(op, s) ==
    /\ call = "none"
    /\ call' = op /\ sector' = s
    /\ content' \in Data
    /\ stored' = FALSE
    /\ failed' \in BOOLEAN
    /\ UNCHANGED disk

Store ==
    /\ call = "write" /\ ~stored
    /\ disk' = [disk EXCEPT ![sector] = content]
    /\ stored' = TRUE
    /\ UNCHANGED <<call, sector, content, failed>>

Fail ==
    /\ call # "none"
    /\ failed' = TRUE
    /\ UNCHANGED <<disk, call, sector, content, stored>>

\* The buffer fills up while a sector is read.
Fill ==
    /\ call = "read"
    /\ content' \in Data
    /\ UNCHANGED <<disk, call, sector, stored, failed>>

EndRead ==
    /\ call = "read" /\ call' = "none"
    /\ content' \in Data
    /\ failed \/ content' = disk[sector]
    /\ UNCHANGED <<disk, stored, failed>>

EndWrite ==
    /\ call = "write" /\ call' = "none"
    /\ failed \/ stored
    /\ UNCHANGED <<disk, content, stored, failed>>

Next ==
    \/ \E s \in Sectors : Begin("read", s) \/ Begin("write", s)
    \/ Store \/ Fail \/ Fill \/ EndRead \/ EndWrite

Init == call = "none" /\ disk \in [Sectors -> Data]

Spec == Init /\ [][Next]_vars
=============================================================================
