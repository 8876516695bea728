--------------------------------- MODULE Ata ---------------------------------
(***************************************************************************)
(* The disk layer of FatFs (fatfs/diskio.c) and the driver under it        *)
(* (fatfs/ata.c), which polls the status register of an ATA drive.         *)
(*                                                                         *)
(* The drive is external.  It takes a command only when it neither is busy *)
(* nor wants data, and is busy from the command, or from the last word of  *)
(* a sector it is given, until it has done its part; instead it may report *)
(* an error.  No drive at all reads as a status of zeros.  The drive moves *)
(* between any two accesses of the driver to its ports.  Several writes to *)
(* registers that do nothing but prepare a command are one step with it; a *)
(* poll that finds nothing new changes nothing, and is no step.            *)
(***************************************************************************)
EXTENDS Integers, FiniteSets

CONSTANTS
  LAST_SECTOR,    \* sectors 0 .. LAST_SECTOR
  LBA_LIMIT,      \* 2^28: what the address registers can hold
  Words, WORDS,   \* what a word may be, and how many make a sector (256)
  MAX_COUNT,      \* sectors of a call
  TIMEOUT,        \* polls before ata_wait gives up (100000)
  Faults          \* of the drive: a subset of {"error", "absent"}

ASSUME AtaAssumption ==
    /\ LAST_SECTOR \in Nat /\ LBA_LIMIT \in Nat /\ LAST_SECTOR < LBA_LIMIT
    /\ WORDS \in Nat \ {0} /\ TIMEOUT \in Nat

Sectors == 0..LAST_SECTOR
Index   == 0..WORDS - 1
Data    == [Index -> Words]

VARIABLES
  absent,         \* is there no drive
  medium,         \* what the sectors of the drive hold
  status,         \* the status register: a subset of {"BSY", "DRQ", "ERR"}
  command,        \* the command being carried out
  address,        \* the sector it is for
  cache, pos,     \* the sector behind the data register, and the next word of it
  pc,             \* where the driver is
  op,             \* disk_read or disk_write
  sect, left,     \* the next sector, and how many there are to do
  buf,            \* the part of the caller's buffer that is for that sector
  i, timeout,     \* loop counters of the driver
  stored, failed  \* for the properties only: see SectorDisk

drive  == <<medium, status, command, address, cache, pos>>
driver == <<pc, op, sect, left, buf, i, timeout>>
vars   == <<absent, drive, driver, stored, failed>>

-----------------------------------------------------------------------------
(* The drive.                                                               *)

\* A byte written to the command register, behind the address of a sector.
Command(c, lba) ==
    /\ IF absent \/ status \cap {"BSY", "DRQ"} # {} THEN UNCHANGED <<status, command, address, pos>>
       ELSE status' = {"BSY"} /\ command' = c /\ address' = lba /\ pos' = 0
    /\ UNCHANGED <<medium, cache>>

DriveDone ==
    /\ "BSY" \in status
    /\ status' = IF command = "read" \/ (command = "write" /\ pos = 0) THEN {"DRQ"} ELSE {}
    /\ cache' = IF command = "read" THEN medium[address] ELSE cache
    /\ IF command = "write" /\ pos = WORDS
       THEN medium' = [medium EXCEPT ![address] = cache] /\ stored' = TRUE
       ELSE UNCHANGED <<medium, stored>>
    /\ UNCHANGED <<absent, command, address, pos, driver, failed>>

DriveFails ==
    /\ "error" \in Faults
    /\ "BSY" \in status
    /\ status' = {"ERR"}
    /\ failed' = TRUE
    /\ UNCHANGED <<absent, medium, command, address, cache, pos, driver, stored>>

\* A word has gone through the data register; after the last, the status is s.
Advanced(s) ==
    /\ pos' = pos + 1
    /\ status' = IF pos + 1 = WORDS THEN s ELSE status
    /\ UNCHANGED <<medium, command, address>>

-----------------------------------------------------------------------------
(* disk_read and disk_write: sector after sector.                           *)

Begin(what, first, count) ==
    /\ pc = "idle"
    /\ pc' = "next" /\ op' = what /\ sect' = first /\ left' = count
    /\ UNCHANGED <<absent, drive, buf, i, timeout, stored, failed>>

\* Always with RES_OK.
Return ==
    /\ pc = "next" /\ left = 0
    /\ pc' = "idle"
    /\ UNCHANGED <<absent, drive, op, sect, left, buf, i, timeout, stored, failed>>

\* Mutant: the upper part of the address is dropped.
AddressLow(lba) == lba % (LBA_LIMIT \div 2)

\* Bits 0 to 27 of lba, in four registers.
Address(lba) == lba % LBA_LIMIT

\* A sector is begun, and is done.
Entered(at) == pc' = at /\ i' = 0 /\ stored' = FALSE /\ failed' = absent
Left        == pc' = "next" /\ sect' = sect + 1 /\ left' = left - 1

-----------------------------------------------------------------------------
(* ata_read_sector.                                                         *)

\* The drive is not waited for: the call before left it at rest.
StartRead ==
    /\ pc = "next" /\ left > 0 /\ op = "read"
    /\ Command("read", Address(sect))
    /\ Entered("wait_bsy")
    /\ UNCHANGED <<absent, op, sect, left, buf, timeout>>

\* ata_wait: the loop that waits until BSY is clear ...
WaitNotBusy ==
    /\ pc = "wait_bsy" /\ "BSY" \notin status
    /\ pc' = IF "DRQ" \in status THEN "in" ELSE "wait_drq"
    /\ timeout' = TIMEOUT
    /\ UNCHANGED <<absent, drive, op, sect, left, buf, i, stored, failed>>

\* Mutant: DRQ is waited for as long as it takes.
WaitDataForEver ==
    /\ pc = "wait_drq" /\ status \cap {"DRQ", "ERR"} # {}
    /\ pc' = "in"
    /\ UNCHANGED <<absent, drive, op, sect, left, buf, i, timeout, stored, failed>>

\* ... and a round of the one that waits for DRQ, an error, or the end of patience.
WaitData ==
    /\ pc = "wait_drq"
    /\ pc' = IF timeout = 0 \/ status \cap {"DRQ", "ERR"} # {} THEN "in" ELSE pc
    /\ timeout' = IF timeout = 0 THEN 0 ELSE timeout - 1
    /\ UNCHANGED <<absent, drive, op, sect, left, buf, i, stored, failed>>

\* Mutant: the last word is not fetched.
ReadWordShort ==
    /\ pc = "in"
    /\ \E word \in Words :
          /\ "DRQ" \in status => word = cache[pos]
          /\ buf' = [buf EXCEPT ![i] = word]
    /\ IF "DRQ" \in status THEN Advanced({}) /\ UNCHANGED cache ELSE UNCHANGED drive
    /\ i' = i + 1
    /\ IF i + 2 >= WORDS THEN Left ELSE UNCHANGED <<pc, sect, left>>
    /\ UNCHANGED <<absent, op, timeout, stored, failed>>

\* Mutant: a word too many is fetched.
ReadWordLong ==
    /\ pc = "in"
    /\ \E word \in Words :
          /\ "DRQ" \in status => word = cache[pos]
          /\ buf' = [buf EXCEPT ![i] = word]
    /\ IF "DRQ" \in status THEN Advanced({}) /\ UNCHANGED cache ELSE UNCHANGED drive
    /\ i' = i + 1
    /\ IF i = WORDS THEN Left ELSE UNCHANGED <<pc, sect, left>>
    /\ UNCHANGED <<absent, op, timeout, stored, failed>>

\* A word from the data register: any, when the drive has none to give.
ReadWord ==
    /\ pc = "in"
    /\ \E word \in Words :
          /\ "DRQ" \in status => word = cache[pos]
          /\ buf' = [buf EXCEPT ![i] = word]
    /\ IF "DRQ" \in status THEN Advanced({}) /\ UNCHANGED cache ELSE UNCHANGED drive
    /\ i' = i + 1
    /\ IF i + 1 = WORDS THEN Left ELSE UNCHANGED <<pc, sect, left>>
    /\ UNCHANGED <<absent, op, timeout, stored, failed>>

-----------------------------------------------------------------------------
(* ata_write_sector.                                                        *)

StartWrite ==
    /\ pc = "next" /\ left > 0 /\ op = "write"
    /\ "BSY" \notin status
    /\ Command("write", Address(sect))
    /\ Entered("wait_write")
    /\ buf' \in Data
    /\ UNCHANGED <<absent, op, sect, left, timeout>>

\* Until DRQ or an error, for ever if neither comes.
WaitWrite ==
    /\ pc = "wait_write"
    /\ \/ /\ "ERR" \in status /\ Left
       \/ /\ "ERR" \notin status /\ "DRQ" \in status
          /\ pc' = "out" /\ UNCHANGED <<sect, left>>
    /\ UNCHANGED <<absent, drive, op, buf, i, timeout, stored, failed>>

WriteWord ==
    /\ pc = "out"
    /\ IF "DRQ" \in status THEN Advanced({"BSY"}) /\ cache' = [cache EXCEPT ![pos] = buf[i]]
       ELSE UNCHANGED drive
    /\ i' = i + 1
    /\ pc' = IF i + 1 = WORDS THEN "flush" ELSE pc
    /\ UNCHANGED <<absent, op, sect, left, buf, timeout, stored, failed>>

\* The drive may still be busy with the sector, and then takes no notice.
Flush ==
    /\ pc = "flush"
    /\ Command("flush", address)
    /\ pc' = "wait_flush"
    /\ UNCHANGED <<absent, op, sect, left, buf, i, timeout, stored, failed>>

WaitFlush ==
    /\ pc = "wait_flush" /\ "BSY" \notin status
    /\ Left
    /\ UNCHANGED <<absent, drive, op, buf, i, timeout, stored, failed>>

-----------------------------------------------------------------------------
Init ==
    /\ absent \in {FALSE} \cup (IF "absent" \in Faults THEN {TRUE} ELSE {})
    /\ medium \in [Sectors -> Data] /\ cache \in Data /\ buf \in Data
    /\ status = {} /\ command = "none" /\ address = 0 /\ pos = 0
    /\ pc = "idle" /\ op = "none" /\ sect = 0 /\ left = 0 /\ i = 0 /\ timeout = 0
    /\ stored = FALSE /\ failed = FALSE

Call ==
    \E what \in {"read", "write"}, first \in Sectors, count \in 1..MAX_COUNT :
        first + count - 1 \in Sectors /\ Begin(what, first, count)

Driver ==
    \/ Return
    \/ StartRead \/ WaitNotBusy \/ WaitData \/ ReadWord
    \/ StartWrite \/ WaitWrite \/ WriteWord \/ Flush \/ WaitFlush

Drive == DriveDone \/ DriveFails

Next == Call \/ Driver \/ Drive

(* The processor goes on, and a busy drive gets done or reports an error.     *)
Fairness == WF_vars(Driver) /\ WF_vars(Drive)

Spec == Init /\ [][Next]_vars /\ Fairness
-----------------------------------------------------------------------------
TypeOK ==
    /\ medium \in [Sectors -> Data] /\ cache \in Data /\ buf \in Data
    /\ status \in {{}, {"BSY"}, {"DRQ"}, {"ERR"}}
    /\ address \in Sectors /\ pos \in 0..WORDS
    /\ sect \in 0..LAST_SECTOR + 1 /\ left \in Nat /\ sect + left <= LAST_SECTOR + 1
    /\ i \in 0..WORDS /\ (pc \in {"in", "out"} => i < WORDS)
    /\ timeout \in 0..TIMEOUT
    /\ absent \in BOOLEAN /\ stored \in BOOLEAN /\ failed \in BOOLEAN

(* Between two sectors the drive is not busy and wants no data, whatever has
   failed: ata_read_sector gives its command without asking.                  *)
DriveAtRest == pc \in {"idle", "next"} => status \cap {"BSY", "DRQ"} = {}

(* What disk_read and disk_write do is what the file system expects of a disk:
   a sector is in the buffer, or on the medium, when the call goes on, and no
   other sector is touched, even by a drive that fails - though the last flush
   may reach a drive that is busy, and ata_wait may give up.                  *)
AsDisk == INSTANCE SectorDisk WITH
              disk    <- medium,
              call    <- IF pc \in {"idle", "next"} THEN "none" ELSE op,
              sector  <- IF pc \in {"idle", "next"} THEN 0 ELSE sect,
              content <- buf
ImplementsSectorDisk == AsDisk!Spec

(* A read ends with any drive and with none (ata_wait gives up); a write, whose
   loops have no bound, ends if there is a drive, which may fail.             *)
TransfersReturn ==
    (pc # "idle" /\ (op = "read" \/ ~absent)) ~> (pc = "idle")

(* "RES_OK = 0: Successful" (diskio.h): when a call has returned, the last of
   its sectors holds what the caller's buffer does (disk_read, disk_write).    *)
OkMeansSuccessful == (pc = "idle" /\ op # "none") => medium[sect - 1] = buf
=============================================================================
