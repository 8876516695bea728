------------------------------ MODULE AtaProofs ------------------------------
(***************************************************************************)
(* The disk layer implements SectorDisk: for sectors of any size, disks of *)
(* any number of sectors, and any faults of the drive.  The invariant says *)
(* at each place of the driver what the drive is doing for it.             *)
(***************************************************************************)
EXTENDS Ata, TLAPS

AtRest   == {"idle", "next"}
InRead   == {"wait_bsy", "wait_drq", "in"}
InWrite  == {"wait_write", "out", "flush", "wait_flush"}

\* The places, and the operation they belong to.
Places ==
    /\ pc \in AtRest \cup InRead \cup InWrite
    /\ pc \in InRead => op = "read" /\ left > 0
    /\ pc \in InWrite => op = "write" /\ left > 0

\* Without a drive the status never changes, and every transfer has failed.
NoDrive == absent => status = {} /\ (pc \notin AtRest => failed)

\* The drive works on the sector the driver asked for.
Serving(c) == command = c /\ address = sect

WhileReading ==
    /\ pc = "wait_bsy" =>
         /\ i = 0
         /\ \/ absent
            \/ /\ Serving("read") /\ pos = 0 /\ ~failed
               /\ status = {"BSY"} \/ (status = {"DRQ"} /\ cache = medium[sect])
            \/ status = {"ERR"} /\ failed
    /\ pc = "wait_drq" => i = 0 /\ status \in {{}, {"ERR"}} /\ failed
    /\ pc = "in" =>
         \/ status \in {{}, {"ERR"}} /\ failed
         \/ /\ status = {"DRQ"} /\ pos = i /\ cache = medium[sect] /\ ~failed
            /\ \A j \in Index : j < i => buf[j] = cache[j]

WhileWriting ==
    /\ pc = "wait_write" =>
         /\ i = 0 /\ ~stored
         /\ \/ absent
            \/ Serving("write") /\ pos = 0 /\ status \in {{"BSY"}, {"DRQ"}}
            \/ status = {"ERR"} /\ failed
    /\ pc = "out" =>
         /\ ~absent /\ ~stored /\ Serving("write") /\ status = {"DRQ"} /\ pos = i
         /\ \A j \in Index : j < i => cache[j] = buf[j]
    /\ pc \in {"flush", "wait_flush"} =>
         \/ /\ Serving("write") /\ status = {"BSY"} /\ pos = WORDS
            /\ cache = buf /\ ~stored
         \/ /\ stored \/ failed
            /\ status \in {{}, {"ERR"}} \/ (status = {"BSY"} /\ command = "flush")

IInv == TypeOK /\ DriveAtRest /\ Places /\ NoDrive /\ WhileReading /\ WhileWriting

-----------------------------------------------------------------------------
\* A sector of the disk has an address of its own.
LEMMA AddressIsSector == ASSUME NEW s \in Sectors PROVE Address(s) = s
  BY AtaAssumption DEF Address, Sectors

\* Two sectors' contents that agree word by word are the same.
LEMMA SameData ==
    ASSUME NEW f \in Data, NEW g \in Data, \A j \in Index : f[j] = g[j]
    PROVE  f = g
  BY DEF Data

\* A sector can still be transferred while there are some left.
LEMMA SectorLeft == ASSUME TypeOK, left > 0 PROVE sect \in Sectors
  BY AtaAssumption DEF TypeOK, Sectors

LEMMA InitIInv == Init => IInv
<1> SUFFICES ASSUME Init PROVE IInv
  OBVIOUS
<1>1. TypeOK
  <2>1. sect \in 0..LAST_SECTOR + 1 /\ left \in Nat /\ sect + left <= LAST_SECTOR + 1
    BY AtaAssumption DEF Init
  <2>2. address \in Sectors /\ pos \in 0..WORDS /\ i \in 0..WORDS /\ timeout \in 0..TIMEOUT
    BY AtaAssumption DEF Init, Sectors
  <2> QED
    BY <2>1, <2>2 DEF Init, TypeOK
<1>2. DriveAtRest /\ Places /\ NoDrive
  BY DEF Init, DriveAtRest, Places, NoDrive, AtRest, InRead, InWrite
<1>3. WhileReading /\ WhileWriting
  BY DEF Init, WhileReading, WhileWriting
<1> QED
  BY <1>1, <1>2, <1>3 DEF IInv

-----------------------------------------------------------------------------
(* The drive's steps.                                                       *)

LEMMA DriveDoneKeeps == ASSUME IInv, DriveDone PROVE IInv'
<1> USE DEF DriveDone, driver
<1>1. status = {"BSY"} /\ pc \notin AtRest /\ ~absent
  BY DEF IInv, TypeOK, DriveAtRest, NoDrive, AtRest
<1>2. TypeOK'
  BY <1>1 DEF IInv, TypeOK, Data, Sectors
<1>3. DriveAtRest' /\ Places' /\ NoDrive'
  BY <1>1 DEF IInv, DriveAtRest, Places, NoDrive, AtRest
<1>4. WhileReading'
  BY <1>1 DEF IInv, WhileReading, Serving
<1>5. WhileWriting'
  <2>1. 0 # WORDS
    BY AtaAssumption
  <2>2. CASE pc = "wait_write"
    BY <1>1, <2>1, <2>2 DEF IInv, WhileWriting, Serving
  <2>3. CASE pc = "out"
    BY <1>1, <2>3 DEF IInv, WhileWriting, Serving
  <2>4. CASE pc \in {"flush", "wait_flush"}
    BY <1>1, <2>1, <2>4 DEF IInv, WhileWriting, Serving
  <2> QED
    BY <2>2, <2>3, <2>4 DEF WhileWriting
<1> QED
  BY <1>2, <1>3, <1>4, <1>5 DEF IInv

LEMMA DriveFailsKeeps == ASSUME IInv, DriveFails PROVE IInv'
<1> USE DEF DriveFails, driver
<1>1. status = {"BSY"} /\ pc \notin AtRest /\ ~absent
  BY DEF IInv, TypeOK, DriveAtRest, NoDrive, AtRest
<1>2. TypeOK'
  BY <1>1 DEF IInv, TypeOK
<1>3. DriveAtRest' /\ Places' /\ NoDrive'
  BY <1>1 DEF IInv, DriveAtRest, Places, NoDrive, AtRest
<1>4. WhileReading' /\ WhileWriting'
  BY <1>1 DEF IInv, WhileReading, WhileWriting, Serving
<1> QED
  BY <1>2, <1>3, <1>4 DEF IInv

-----------------------------------------------------------------------------
(* The driver's steps.                                                      *)

LEMMA BetweenSectorsKeeps == ASSUME IInv, Call \/ Return PROVE IInv'
<1>1. TypeOK'
  BY AtaAssumption DEF IInv, TypeOK, Call, Begin, Return, Sectors, drive
<1>2. DriveAtRest' /\ Places' /\ NoDrive'
  BY DEF IInv, Call, Begin, Return, DriveAtRest, Places, NoDrive, AtRest, InRead, InWrite, drive
<1>3. WhileReading' /\ WhileWriting'
  BY DEF Call, Begin, Return, WhileReading, WhileWriting
<1> QED
  BY <1>1, <1>2, <1>3 DEF IInv

\* A command given to a drive at rest.
LEMMA Commanded ==
    ASSUME IInv, NEW c, pc = "next", left > 0, Command(c, Address(sect))
    PROVE  /\ absent => UNCHANGED <<status, command, address, pos>>
           /\ ~absent => status' = {"BSY"} /\ command' = c /\ address' = sect /\ pos' = 0
           /\ UNCHANGED <<medium, cache>>
<1>1. Address(sect) = sect
  BY AddressIsSector, SectorLeft DEF IInv
<1>2. status \cap {"BSY", "DRQ"} = {}
  BY DEF IInv, DriveAtRest
<1> QED
  BY <1>1, <1>2 DEF Command

LEMMA StartReadKeeps == ASSUME IInv, StartRead PROVE IInv'
<1> USE DEF StartRead, Entered
<1>1. /\ absent => UNCHANGED <<status, command, address, pos>>
      /\ ~absent => status' = {"BSY"} /\ command' = "read" /\ address' = sect /\ pos' = 0
      /\ UNCHANGED <<medium, cache>>
  BY Commanded
<1>2. sect \in Sectors
  BY SectorLeft DEF IInv
<1>3. TypeOK'
  <2>1. /\ status' \in {{}, {"BSY"}, {"DRQ"}, {"ERR"}}
        /\ address' \in Sectors /\ pos' \in 0..WORDS
    BY <1>1, <1>2, AtaAssumption DEF IInv, TypeOK
  <2>2. i' \in 0..WORDS /\ pc' \notin {"in", "out"}
    BY AtaAssumption
  <2>3. failed' \in BOOLEAN /\ stored' \in BOOLEAN
    BY ZenonT(30) DEF IInv, TypeOK
  <2> QED
    BY <1>1, <2>1, <2>2, <2>3 DEF IInv, TypeOK
<1>4. DriveAtRest' /\ Places' /\ NoDrive'
  BY <1>1 DEF IInv, DriveAtRest, Places, NoDrive, AtRest, InRead, InWrite
<1>5. WhileReading' /\ WhileWriting'
  BY <1>1 DEF WhileReading, WhileWriting, Serving
<1> QED
  BY <1>3, <1>4, <1>5 DEF IInv

LEMMA StartWriteKeeps == ASSUME IInv, StartWrite PROVE IInv'
<1> USE DEF StartWrite, Entered
<1>1. /\ absent => UNCHANGED <<status, command, address, pos>>
      /\ ~absent => status' = {"BSY"} /\ command' = "write" /\ address' = sect /\ pos' = 0
      /\ UNCHANGED <<medium, cache>>
  BY Commanded
<1>2. sect \in Sectors
  BY SectorLeft DEF IInv
<1>3. TypeOK'
  <2>1. /\ status' \in {{}, {"BSY"}, {"DRQ"}, {"ERR"}}
        /\ address' \in Sectors /\ pos' \in 0..WORDS
    BY <1>1, <1>2, AtaAssumption DEF IInv, TypeOK
  <2>2. i' \in 0..WORDS /\ pc' \notin {"in", "out"}
    BY AtaAssumption
  <2>3. failed' \in BOOLEAN /\ stored' \in BOOLEAN
    BY ZenonT(30) DEF IInv, TypeOK
  <2> QED
    BY <1>1, <2>1, <2>2, <2>3 DEF IInv, TypeOK
<1>4. DriveAtRest' /\ Places' /\ NoDrive'
  BY <1>1 DEF IInv, DriveAtRest, Places, NoDrive, AtRest, InRead, InWrite
<1>5. WhileReading' /\ WhileWriting'
  BY <1>1 DEF WhileReading, WhileWriting, Serving
<1> QED
  BY <1>3, <1>4, <1>5 DEF IInv

LEMMA WaitNotBusyKeeps == ASSUME IInv, WaitNotBusy PROVE IInv'
<1> USE DEF WaitNotBusy, drive
<1>1. TypeOK'
  BY AtaAssumption DEF IInv, TypeOK, WhileReading
<1>2. DriveAtRest' /\ Places' /\ NoDrive'
  BY DEF IInv, DriveAtRest, Places, NoDrive, AtRest, InRead, InWrite
<1>3. WhileReading' /\ WhileWriting'
  BY DEF IInv, TypeOK, NoDrive, AtRest, WhileReading, WhileWriting, Serving, Index
<1> QED
  BY <1>1, <1>2, <1>3 DEF IInv

LEMMA WaitDataKeeps == ASSUME IInv, WaitData PROVE IInv'
<1> USE DEF WaitData, drive
<1>1. TypeOK'
  BY AtaAssumption DEF IInv, TypeOK, WhileReading
<1>2. DriveAtRest' /\ Places' /\ NoDrive'
  BY DEF IInv, DriveAtRest, Places, NoDrive, AtRest, InRead, InWrite
<1>3. WhileReading' /\ WhileWriting'
  BY DEF IInv, WhileReading, WhileWriting
<1> QED
  BY <1>1, <1>2, <1>3 DEF IInv

LEMMA WaitWriteKeeps == ASSUME IInv, WaitWrite PROVE IInv'
<1> USE DEF WaitWrite, Left, drive
<1>1. sect \in Sectors
  BY SectorLeft DEF IInv, Places, InWrite
<1>2. TypeOK'
  BY <1>1, AtaAssumption DEF IInv, TypeOK, Places, InWrite, WhileWriting, Sectors
<1>3. DriveAtRest' /\ Places' /\ NoDrive'
  BY DEF IInv, TypeOK, DriveAtRest, Places, NoDrive, AtRest, InRead, InWrite
<1>4. WhileReading' /\ WhileWriting'
  BY DEF IInv, TypeOK, NoDrive, AtRest, WhileReading, WhileWriting, Serving, Index
<1> QED
  BY <1>2, <1>3, <1>4 DEF IInv

LEMMA FlushKeeps == ASSUME IInv, Flush PROVE IInv'
<1> USE DEF Flush, Command
<1>1. TypeOK'
  BY AtaAssumption DEF IInv, TypeOK
<1>2. DriveAtRest' /\ Places' /\ NoDrive'
  BY DEF IInv, DriveAtRest, Places, NoDrive, AtRest, InRead, InWrite
<1>3. WhileReading' /\ WhileWriting'
  BY DEF IInv, WhileReading, WhileWriting, Serving
<1> QED
  BY <1>1, <1>2, <1>3 DEF IInv

LEMMA WaitFlushKeeps == ASSUME IInv, WaitFlush PROVE IInv'
<1> USE DEF WaitFlush, Left, drive
<1>1. sect \in Sectors
  BY SectorLeft DEF IInv, Places, InWrite
<1>2. TypeOK'
  BY <1>1, AtaAssumption DEF IInv, TypeOK, Places, InWrite, Sectors
<1>3. DriveAtRest' /\ Places' /\ NoDrive'
  BY DEF IInv, DriveAtRest, Places, NoDrive, AtRest, InRead, InWrite, WhileWriting
<1>4. WhileReading' /\ WhileWriting'
  BY DEF WhileReading, WhileWriting
<1> QED
  BY <1>2, <1>3, <1>4 DEF IInv

\* A word read is the next one of the sector, or the transfer has failed.
LEMMA ReadWordKeeps == ASSUME IInv, ReadWord PROVE IInv'
<1> USE DEF ReadWord, Left, Advanced, drive
<1>1. /\ i \in Index /\ left > 0 /\ op = "read" /\ sect \in Sectors
      /\ WORDS \in Nat \ {0}
  BY SectorLeft, AtaAssumption DEF IInv, TypeOK, Places, InRead, Index
<1>2. PICK word \in Words : /\ "DRQ" \in status => word = cache[pos]
                           /\ buf' = [buf EXCEPT ![i] = word]
  OBVIOUS
<1>3. buf' \in Data
  BY <1>1, <1>2 DEF IInv, TypeOK, Data
<1>4. \/ status \in {{}, {"ERR"}} /\ failed /\ UNCHANGED drive
      \/ /\ status = {"DRQ"} /\ pos = i /\ pos' = i + 1 /\ ~failed
         /\ status' = IF i + 1 = WORDS THEN {} ELSE status
         /\ UNCHANGED <<medium, command, address, cache>>
  BY DEF IInv, WhileReading
<1>5. TypeOK'
  <2>1. status' \in {{}, {"BSY"}, {"DRQ"}, {"ERR"}} /\ pos' \in 0..WORDS
    BY <1>1, <1>4 DEF IInv, TypeOK, Index
  <2>2. i' \in 0..WORDS /\ (pc' \in {"in", "out"} => i' < WORDS)
    BY <1>1 DEF Index
  <2>3. sect' \in 0..LAST_SECTOR + 1 /\ left' \in Nat /\ sect' + left' <= LAST_SECTOR + 1
    BY <1>1, AtaAssumption DEF IInv, TypeOK, Sectors
  <2> QED
    BY <1>3, <1>4, <2>1, <2>2, <2>3 DEF IInv, TypeOK
<1>6. DriveAtRest' /\ Places' /\ NoDrive'
  BY <1>1, <1>4 DEF IInv, DriveAtRest, Places, NoDrive, AtRest, InRead, InWrite
<1>7. WhileReading'
  <2>1. CASE pc' = "in" /\ status = {"DRQ"}
    <3>1. \A j \in Index : j < i + 1 => buf'[j] = cache[j]
      BY <1>1, <1>2, <1>4, <2>1 DEF IInv, TypeOK, WhileReading, Data, Index
    <3>2. sect' = sect /\ status' = status
      BY <1>4, <2>1
    <3> QED
      BY <1>1, <1>4, <2>1, <3>1, <3>2 DEF IInv, WhileReading
  <2>2. CASE pc' = "in" /\ status # {"DRQ"}
    BY <1>4, <2>2 DEF WhileReading
  <2>3. pc' \in {"in", "next"}
    OBVIOUS
  <2> QED
    BY <2>1, <2>2, <2>3 DEF WhileReading
<1>8. WhileWriting'
  BY DEF WhileWriting
<1> QED
  BY <1>5, <1>6, <1>7, <1>8 DEF IInv

\* A word written is the next one of the sector; after the last the drive is busy with it.
LEMMA WriteWordKeeps == ASSUME IInv, WriteWord PROVE IInv'
<1> USE DEF WriteWord, Advanced
<1>1. /\ i \in Index /\ left > 0 /\ op = "write" /\ ~absent /\ ~stored
      /\ Serving("write") /\ status = {"DRQ"} /\ pos = i /\ WORDS \in Nat \ {0}
  BY AtaAssumption DEF IInv, TypeOK, Places, InWrite, Index, WhileWriting
<1>2. cache' = [cache EXCEPT ![i] = buf[i]] /\ cache' \in Data /\ buf \in Data
  BY <1>1 DEF IInv, TypeOK, Data
<1>3. \A j \in Index : j < i + 1 => cache'[j] = buf[j]
  BY <1>1, <1>2 DEF IInv, TypeOK, WhileWriting, Data, Index
<1>4. TypeOK'
  <2>1. status' \in {{}, {"BSY"}, {"DRQ"}, {"ERR"}} /\ pos' \in 0..WORDS
    BY <1>1 DEF Index
  <2>2. i' \in 0..WORDS /\ (pc' \in {"in", "out"} => i' < WORDS)
    BY <1>1 DEF Index
  <2> QED
    BY <1>1, <1>2, <2>1, <2>2 DEF IInv, TypeOK
<1>5. DriveAtRest' /\ Places' /\ NoDrive'
  BY <1>1 DEF IInv, DriveAtRest, Places, NoDrive, AtRest, InRead, InWrite
<1>6. WhileReading'
  BY DEF WhileReading
<1>7. WhileWriting'
  <2>1. CASE i + 1 = WORDS
    <3>1. \A j \in Index : cache'[j] = buf[j]
      BY <1>1, <1>3, <2>1 DEF Index
    <3>2. cache' = buf
      BY <1>2, <3>1, SameData
    <3> QED
      BY <1>1, <2>1, <3>2 DEF WhileWriting, Serving
  <2>2. CASE i + 1 # WORDS
    BY <1>1, <1>3, <2>2 DEF WhileWriting, Serving
  <2> QED
    BY <2>1, <2>2
<1> QED
  BY <1>4, <1>5, <1>6, <1>7 DEF IInv

-----------------------------------------------------------------------------
LEMMA NextIInv == ASSUME IInv, [Next]_vars PROVE IInv'
<1>1. CASE UNCHANGED vars
  BY <1>1 DEF vars, drive, driver, IInv, TypeOK, DriveAtRest, Places, NoDrive, WhileReading,
     WhileWriting, Serving
<1>2. CASE Drive
  BY <1>2, DriveDoneKeeps, DriveFailsKeeps DEF Drive
<1>3. CASE Call
  BY <1>3, BetweenSectorsKeeps
<1>4. CASE Driver
  BY <1>4, BetweenSectorsKeeps, StartReadKeeps, WaitNotBusyKeeps, WaitDataKeeps, ReadWordKeeps,
     StartWriteKeeps, WaitWriteKeeps, WriteWordKeeps, FlushKeeps, WaitFlushKeeps DEF Driver
<1> QED
  BY <1>1, <1>2, <1>3, <1>4 DEF Next

THEOREM Invariant == Spec => []IInv
  BY InitIInv, NextIInv, PTL DEF Spec

\* Every register, counter and buffer keeps its range, for every disk and drive.
THEOREM TypeCorrect == Spec => []TypeOK
<1>1. IInv => TypeOK
  BY DEF IInv
<1> QED
  BY <1>1, Invariant, PTL

\* ata_read_sector may give its command without waiting: whatever has failed
\* before, the drive is neither busy nor in the middle of a sector.
THEOREM DriveIsAtRest == Spec => []DriveAtRest
<1>1. IInv => DriveAtRest
  BY DEF IInv
<1> QED
  BY <1>1, Invariant, PTL

-----------------------------------------------------------------------------
(* Each step is one of SectorDisk's, or none.                               *)

LEMMA DriveStep == ASSUME IInv, Drive PROVE [AsDisk!Next]_(AsDisk!vars)
<1> USE DEF driver, AsDisk!vars
<1>1. status = {"BSY"} /\ pc \notin AtRest
  BY DEF IInv, TypeOK, DriveAtRest, AtRest, Drive, DriveDone, DriveFails
<1>2. CASE DriveFails
  <2>1. AsDisk!Fail
    BY <1>1, <1>2 DEF AsDisk!Fail, DriveFails, IInv, Places, AtRest, InRead, InWrite
  <2> QED
    BY <2>1 DEF AsDisk!Next
<1>3. CASE DriveDone /\ command = "write" /\ pos = WORDS
  <2>1. pc \in {"flush", "wait_flush"} /\ address = sect /\ cache = buf /\ ~stored /\ op = "write"
    BY <1>1, <1>3, AtaAssumption
       DEF IInv, Places, AtRest, InRead, InWrite, WhileReading, WhileWriting, Serving, NoDrive
  <2>2. AsDisk!Store
    BY <1>3, <2>1 DEF AsDisk!Store, DriveDone
  <2> QED
    BY <2>2 DEF AsDisk!Next
<1>4. CASE DriveDone /\ ~(command = "write" /\ pos = WORDS)
  BY <1>4 DEF DriveDone
<1> QED
  BY <1>2, <1>3, <1>4 DEF Drive

LEMMA StartStep == ASSUME IInv, StartRead \/ StartWrite PROVE AsDisk!Next
<1>1. sect \in Sectors /\ buf' \in Data
  BY SectorLeft DEF IInv, TypeOK, StartRead, StartWrite
<1>2. medium' = medium
  BY DEF StartRead, StartWrite, Command
<1>3. failed' \in BOOLEAN
  BY ZenonT(30) DEF IInv, TypeOK, StartRead, StartWrite, Entered
<1>4. CASE StartRead
  BY <1>1, <1>2, <1>3, <1>4 DEF StartRead, Entered, AsDisk!Next, AsDisk!Begin
<1>5. CASE StartWrite
  BY <1>1, <1>2, <1>3, <1>5 DEF StartWrite, Entered, AsDisk!Next, AsDisk!Begin
<1> QED
  BY <1>4, <1>5

LEMMA ReadWordStep == ASSUME IInv, ReadWord PROVE AsDisk!Next
<1> USE DEF ReadWord, Left, Advanced, drive
<1>1. i \in Index /\ op = "read" /\ buf' \in Data /\ medium' = medium /\ sect \in Sectors
  <2>1. i \in Index /\ op = "read" /\ sect \in Sectors
    BY SectorLeft, AtaAssumption DEF IInv, TypeOK, Places, InRead, Index
  <2>2. buf' \in Data
    BY ReadWordKeeps DEF IInv, TypeOK
  <2> QED
    BY <2>1, <2>2
<1>2. CASE i + 1 # WORDS
  BY <1>1, <1>2 DEF AsDisk!Next, AsDisk!Fill
<1>3. CASE i + 1 = WORDS
  <2>1. ~failed => \A j \in Index : buf'[j] = cache[j]
    <3>1. PICK word \in Words : /\ "DRQ" \in status => word = cache[pos]
                               /\ buf' = [buf EXCEPT ![i] = word]
      OBVIOUS
    <3> QED
      BY <1>1, <1>3, <3>1, AtaAssumption DEF IInv, TypeOK, WhileReading, Data, Index
  <2>2. ~failed => buf' = medium[sect]
    BY <1>1, <2>1, SameData DEF IInv, TypeOK, WhileReading
  <2> QED
    BY <1>1, <1>3, <2>2 DEF AsDisk!Next, AsDisk!EndRead
<1> QED
  BY <1>2, <1>3

LEMMA EndWriteStep == ASSUME IInv, WaitFlush \/ WaitWrite PROVE [AsDisk!Next]_(AsDisk!vars)
<1> USE DEF WaitFlush, WaitWrite, Left, drive
<1>1. op = "write"
  BY DEF IInv, Places, InWrite
<1>2. CASE pc' = "next"
  <2>1. failed \/ stored
    BY <1>2 DEF IInv, TypeOK, NoDrive, WhileWriting
  <2> QED
    BY <1>1, <1>2, <2>1 DEF AsDisk!Next, AsDisk!EndWrite
<1>3. CASE pc' # "next"
  BY <1>3 DEF AsDisk!vars
<1> QED
  BY <1>2, <1>3

LEMMA QuietStep ==
    ASSUME IInv, Call \/ Return \/ WaitNotBusy \/ WaitData \/ WriteWord \/ Flush
    PROVE  UNCHANGED AsDisk!vars
<1>1. CASE Call \/ Return
  BY <1>1 DEF Call, Begin, Return, drive, AsDisk!vars
<1>2. CASE WaitNotBusy \/ WaitData \/ Flush
  BY <1>2 DEF WaitNotBusy, WaitData, Flush, Command, drive, AsDisk!vars
<1>3. CASE WriteWord
  BY <1>3 DEF WriteWord, Advanced, drive, AsDisk!vars
<1> QED
  BY <1>1, <1>2, <1>3

\* Whatever the drive does between two accesses to its ports, disk_read and
\* disk_write transfer whole sectors, the right ones, and end a transfer that
\* has not failed only when it is complete.
THEOREM LayerIsSectorDisk == Spec => ImplementsSectorDisk
<1>1. Init => AsDisk!Init
  BY DEF Init, AsDisk!Init
<1>2. IInv /\ [Next]_vars => [AsDisk!Next]_(AsDisk!vars)
  <2>1. ASSUME UNCHANGED vars PROVE UNCHANGED AsDisk!vars
    BY <2>1 DEF vars, drive, driver, AsDisk!vars
  <2> QED
    BY <2>1, DriveStep, StartStep, ReadWordStep, EndWriteStep, QuietStep DEF Next, Driver
<1> QED
  BY <1>1, <1>2, Invariant, PTL DEF Spec, ImplementsSectorDisk, AsDisk!Spec
=============================================================================
