------------------------ MODULE KeyboardDriverProofs ------------------------
(***************************************************************************)
(* Theorems about the keyboard path, for a ring of any size, any set of    *)
(* strokes and any controller backlog.                                     *)
(***************************************************************************)
EXTENDS KeyboardDriver, TLAPS

N == KEYBOARD_BUFFER_SIZE

-----------------------------------------------------------------------------
(* The ring's index arithmetic                                             *)

\* One step around the ring, without the modulo.
LEMMA SuccFacts ==
    ASSUME NEW i \in Slots
    PROVE  /\ Succ(i) = IF i = N - 1 THEN 0 ELSE i + 1
           /\ Succ(i) \in Slots
<1>1. N \in Nat /\ N >= 2 /\ i \in 0..(N - 1)
  BY RingAssumption DEF N, Slots
<1>2. i + 1 < N => (i + 1) % N = i + 1
  BY <1>1
<1>3. i + 1 = N => (i + 1) % N = 0
  BY <1>1
<1> QED
  BY <1>1, <1>2, <1>3 DEF Succ, N, Slots

\* An index less than one lap ahead, without the modulo.
LEMMA Wrap ==
    ASSUME NEW i \in Slots, NEW n \in Slots
    PROVE  (i + n) % N = IF i + n < N THEN i + n ELSE i + n - N
<1>1. N \in Nat /\ N >= 2 /\ i \in 0..(N - 1) /\ n \in 0..(N - 1)
  BY RingAssumption DEF N, Slots
<1>2. i + n < N => (i + n) % N = i + n
  BY <1>1
<1>3. i + n >= N => (i + n) % N = i + n - N
  BY <1>1
<1> QED
  BY <1>1, <1>2, <1>3

-----------------------------------------------------------------------------
(* Type correctness                                                        *)

\* The decoder puts only keys into the ring.
LEMMA EmittedIsKey ==
    ASSUME FlagsOK, NEW byte \in Byte
    PROVE  Emitted(byte) \subseteq Key
<1>1. ArrowCodes \subseteq 0..127 /\ Letters \subseteq 0..127
  BY DEF ArrowCodes, Letters
<1>2. ~ Released(byte) => byte \in 0..127
  BY DEF Byte, Released, Release
<1>3. byte \in 0..127 => map_scancode_to_char(byte) \in Key
  BY DEF map_scancode_to_char, Key
<1> QED
  BY <1>1, <1>2, <1>3 DEF Emitted, Key

\* Decoding keeps the flags Boolean.
LEMMA DecodeType ==
    ASSUME FlagsOK, NEW byte \in Byte, Decode(byte)
    PROVE  FlagsOK'
BY DEF FlagsOK, Decode, SetPrefix, CtrlKey, ShiftKey, CapsLockPress,
       OrdinaryKey, Released

\* buffer_put keeps the ring well formed.
LEMMA PutType ==
    ASSUME TypeOK, NEW k \in Key, buffer_put(k)
    PROVE  /\ key_buffer' \in [Slots -> Key]
           /\ buffer_head' \in Slots
           /\ buffer_tail' \in Slots
           /\ event' \in {Idle} \cup ({"offered", "taken"} \X Key)
BY SuccFacts DEF TypeOK, buffer_put

LEMMA InitType == Init => TypeOK
<1>1. 0 \in Slots
  BY RingAssumption DEF Slots
<1>2. NoKey \in Key
  BY DEF NoKey, Key
<1> QED
  BY <1>1, <1>2 DEF Init, TypeOK, FlagsInit, FlagsOK

LEMMA NextType == TypeOK /\ [Next]_vars => TypeOK'
<1> SUFFICES ASSUME TypeOK, [Next]_vars PROVE TypeOK'
  OBVIOUS
<1> USE DEF TypeOK, FlagsOK
<1>1. CASE Hardware
  <2>1. ASSUME NEW stroke \in Strokes, Type(stroke) PROVE TypeOK'
    BY <2>1, StrokesAssumption
       DEF Type, flags, ring, pic, cpu, task
  <2>2. CASE Present
    BY <2>2 DEF Present, flags, ring, cpu, task, IRQs
  <2>3. CASE Tick
    BY <2>3 DEF Tick, flags, ring, controller, cpu, task, IRQs
  <2> QED
    BY <1>1, <2>1, <2>2, <2>3 DEF Hardware
<1>2. ASSUME NEW i \in IRQs, Interrupt(i) PROVE TypeOK'
  BY <1>2 DEF Interrupt, flags, ring, controller
<1>3. CASE CallRoutine
  <2>1. CASE irq = Kbd /\ routine /\ keyboard_callback
    <3>1. port60 \in Byte
      BY <2>1 DEF keyboard_callback
    <3>2. FlagsOK'
      BY <2>1, <3>1, DecodeType DEF keyboard_callback
    <3>3. /\ key_buffer' \in [Slots -> Key]
          /\ buffer_head' \in Slots
          /\ buffer_tail' \in Slots
          /\ event' \in {Idle} \cup ({"offered", "taken"} \X Key)
      BY <2>1, <3>1, EmittedIsKey, PutType DEF keyboard_callback, ring
    <3> QED
      BY <1>3, <2>1, <3>2, <3>3
         DEF CallRoutine, keyboard_callback, pic, task
  <2>2. CASE ~ (irq = Kbd /\ routine /\ keyboard_callback)
    BY <1>3, <2>2 DEF CallRoutine, flags, ring, pic, task
  <2> QED
    BY <2>1, <2>2
<1>4. CASE EndOfInterrupt
  BY <1>4 DEF EndOfInterrupt, flags, ring, controller, task
<1>5. CASE keyboard_init
  BY <1>5 DEF keyboard_init, flags, ring, controller, pic, cpu
<1>6. CASE CallGetchar
  BY <1>6 DEF CallGetchar, flags, ring, controller, pic, cpu
<1>7. CASE Getchar
  <2>1. CASE GetcharCheck
    BY <2>1 DEF GetcharCheck, flags, ring, controller, pic, cpu
  <2>2. CASE GetcharHlt
    BY <2>2 DEF GetcharHlt, flags, ring, controller, pic, cpu
  <2>3. CASE GetcharLoad
    <3>1. NoKey \in Key
      BY DEF NoKey, Key
    <3> QED
      BY <2>3, <3>1 DEF GetcharLoad, flags, ring, controller, pic, cpu
  <2>4. CASE GetcharAdvance
    BY <2>4, SuccFacts DEF GetcharAdvance, flags, controller, pic, cpu
  <2> QED
    BY <1>7, <2>1, <2>2, <2>3, <2>4 DEF Getchar
<1>8. CASE UNCHANGED vars
  BY <1>8 DEF vars, flags, ring, controller, pic, cpu, task
<1> QED
  BY <1>1, <1>2, <1>3, <1>4, <1>5, <1>6, <1>7, <1>8 DEF Next

\* Every variable keeps its type.
THEOREM TypeCorrect == Spec => []TypeOK
BY InitType, NextType, PTL DEF Spec

-----------------------------------------------------------------------------
(* No byte waits in the controller without an interrupt                    *)

(***************************************************************************)
(* NoLostEdge alone is not inductive: it needs to know that the handler is *)
(* entered only with a byte to read, that an edge is latched only with a   *)
(* byte to read (so one edge cannot stand for two bytes), and that nothing *)
(* is typed before the routine is there to read it.                        *)
(***************************************************************************)
EdgeInv ==
    /\ NoLostEdge
    /\ Kbd \in requested => port60 # Empty
    /\ irq = Kbd /\ irq_pc = "handler" => port60 # Empty /\ Kbd \notin requested
    /\ pc = "boot" => device = <<>> /\ port60 = Empty
    /\ pc # "boot" => routine

LEMMA EdgeStep ==
    ASSUME TypingDuringBoot = FALSE, TypeOK, EdgeInv, [Next]_vars
    PROVE  EdgeInv'
<1> USE DEF EdgeInv, NoLostEdge, EdgePending
<1>1. CASE Hardware
  <2>1. ASSUME NEW stroke \in Strokes, Type(stroke) PROVE EdgeInv'
    BY <2>1 DEF Type, pic, cpu, task
  <2>2. CASE Present
    <3>1. Head(device) \in Byte
      BY <2>2 DEF Present, TypeOK
    <3>2. port60' # Empty
      <4>1. \A b \in Byte : b # Empty
        BY DEF Byte, Empty
      <4> QED
        BY <2>2, <3>1, <4>1 DEF Present
    <3>3. pc # "boot" /\ ~ (irq = Kbd /\ irq_pc = "handler")
      BY <2>2 DEF Present
    <3>4. UNCHANGED <<irq, irq_pc, pc, routine>> /\ Kbd \in requested'
      BY <2>2 DEF Present, cpu, task
    <3> QED
      BY <3>2, <3>3, <3>4
  <2>3. CASE Tick
    BY <2>3 DEF Tick, controller, cpu, task, Kbd, Timer
  <2> QED
    BY <1>1, <2>1, <2>2, <2>3 DEF Hardware
<1>2. ASSUME NEW i \in IRQs, Interrupt(i) PROVE EdgeInv'
  <2>1. i = Kbd \/ i = Timer
    BY DEF IRQs
  <2>2. pc' = "boot" <=> pc = "boot"
    BY <1>2 DEF Interrupt
  <2> QED
    BY <1>2, <2>1, <2>2 DEF Interrupt, controller, Kbd, Timer, None
<1>3. CASE CallRoutine
  BY <1>3 DEF CallRoutine, keyboard_callback, pic, task
<1>4. CASE EndOfInterrupt
  BY <1>4 DEF EndOfInterrupt, controller, task, None, Kbd
<1>5. CASE keyboard_init
  BY <1>5 DEF keyboard_init, controller, pic, cpu
<1>6. CASE CallGetchar
  BY <1>6 DEF CallGetchar, controller, pic, cpu
<1>7. CASE Getchar
  BY <1>7 DEF Getchar, GetcharCheck, GetcharHlt, GetcharLoad, GetcharAdvance,
              controller, pic, cpu
<1>8. CASE UNCHANGED vars
  BY <1>8 DEF vars, controller, pic, cpu, task
<1> QED
  BY <1>1, <1>2, <1>3, <1>4, <1>5, <1>6, <1>7, <1>8 DEF Next

\* When nothing is typed before keyboard_init, the keyboard never falls silent:
\* whatever the ticks, the prefixes and the state of the ring, every byte in
\* the controller has its interrupt on the way.
THEOREM NoEdgeIsLost ==
    ASSUME TypingDuringBoot = FALSE
    PROVE  Spec => []NoLostEdge
<1>1. Init => EdgeInv
  BY DEF Init, EdgeInv, NoLostEdge, None, Kbd
<1>2. TypeOK /\ EdgeInv /\ [Next]_vars => EdgeInv'
  BY EdgeStep
<1>3. EdgeInv => NoLostEdge
  BY DEF EdgeInv
<1> QED
  BY <1>1, <1>2, <1>3, TypeCorrect, PTL DEF Spec

-----------------------------------------------------------------------------
(* The reader's window                                                     *)

\* A put leaves the oldest slot alone and never makes the ring look empty.
LEMMA PutSparesTail ==
    ASSUME TypeOK, ~ buffer_is_empty, NEW k \in Key, buffer_put(k)
    PROVE  /\ ~ buffer_is_empty'
           /\ key_buffer'[buffer_tail'] = key_buffer[buffer_tail]
BY SuccFacts DEF TypeOK, buffer_put, buffer_is_full, buffer_is_empty

LEMMA ReaderStep ==
    ASSUME TypeOK, GetcharDelivers, [Next]_vars
    PROVE  GetcharDelivers'
<1> USE DEF GetcharDelivers
<1>1. CASE CallRoutine
  <2>1. CASE irq = Kbd /\ routine /\ keyboard_callback
    <3>1. UNCHANGED <<pc, c>>
      BY <1>1 DEF CallRoutine, task
    <3>2. CASE UNCHANGED ring
      BY <3>1, <3>2 DEF ring, buffer_is_empty
    <3>3. CASE \E k \in Key : buffer_put(k)
      BY <3>1, <3>3, PutSparesTail
    <3>4. port60 \in Byte
      BY <2>1 DEF keyboard_callback, TypeOK
    <3> QED
      BY <2>1, <3>2, <3>3, <3>4, EmittedIsKey DEF keyboard_callback, TypeOK
  <2>2. CASE ~ (irq = Kbd /\ routine /\ keyboard_callback)
    BY <1>1, <2>2 DEF CallRoutine, ring, task, buffer_is_empty
  <2> QED
    BY <2>1, <2>2
<1>2. CASE Hardware \/ EndOfInterrupt \/ keyboard_init \/ CallGetchar
  BY <1>2 DEF Hardware, Type, Present, Tick, EndOfInterrupt, keyboard_init,
              CallGetchar, ring, task, buffer_is_empty
<1>3. ASSUME NEW i \in IRQs, Interrupt(i) PROVE GetcharDelivers'
  BY <1>3 DEF Interrupt, ring, buffer_is_empty
<1>4. CASE Getchar
  BY <1>4 DEF Getchar, GetcharCheck, GetcharHlt, GetcharLoad, GetcharAdvance,
              ring, buffer_is_empty
<1>5. CASE UNCHANGED vars
  BY <1>5 DEF vars, ring, task, buffer_is_empty
<1> QED
  BY <1>1, <1>2, <1>3, <1>4, <1>5 DEF Next

\* getchar never returns the 0 of an empty ring, nor a key from a slot that a
\* callback reused between the load and the move of the tail.
THEOREM ReaderIsServed == Spec => []GetcharDelivers
<1>1. Init => GetcharDelivers
  BY DEF Init, GetcharDelivers
<1>2. TypeOK /\ GetcharDelivers /\ [Next]_vars => GetcharDelivers'
  BY ReaderStep
<1> QED
  BY <1>1, <1>2, TypeCorrect, PTL DEF Spec

-----------------------------------------------------------------------------
(* The ring is a bounded FIFO                                              *)

\* A window has Count elements, one less than the slots at most; element j,
\* counting from 0, is in the slot j places behind the tail.
LEMMA WindowType ==
    ASSUME NEW b \in [Slots -> Key], NEW h \in Slots, NEW t \in Slots
    PROVE  /\ Count(h, t) \in 0..(N - 1)
           /\ Window(b, h, t) \in Seq(Key)
           /\ Len(Window(b, h, t)) = Count(h, t)
           /\ \A j \in 0..(Count(h, t) - 1) :
                 j \in Slots /\ Window(b, h, t)[j + 1] = b[(t + j) % N]
<1>1. N \in Nat /\ N >= 2 /\ h \in 0..(N - 1) /\ t \in 0..(N - 1)
  BY RingAssumption DEF Slots, N
<1>2. Count(h, t) \in 0..(N - 1)
  BY <1>1 DEF Count, N
<1>3. ASSUME NEW i \in 1..Count(h, t)
      PROVE  (t + (i - 1)) % N \in Slots
  BY <1>1, <1>2 DEF Slots, N
<1>4. Window(b, h, t) \in Seq(Key) /\ Len(Window(b, h, t)) = Count(h, t)
  BY <1>2, <1>3 DEF Window, N
<1>5. ASSUME NEW j \in 0..(Count(h, t) - 1)
      PROVE  j \in Slots /\ Window(b, h, t)[j + 1] = b[(t + j) % N]
  <2>1. j \in Slots /\ j + 1 \in 1..Count(h, t) /\ (j + 1) - 1 = j
    BY <1>1, <1>2 DEF Slots, N
  <2> QED
    BY <2>1 DEF Window, N
<1> QED
  BY <1>2, <1>4, <1>5

\* A put at a head that does not run into the tail appends its key.
LEMMA WindowPut ==
    ASSUME NEW b \in [Slots -> Key], NEW h \in Slots, NEW t \in Slots,
           NEW k \in Key, Succ(h) # t
    PROVE  Window([b EXCEPT ![h] = k], Succ(h), t) = Append(Window(b, h, t), k)
<1>1. N \in Nat /\ N >= 2 /\ h \in 0..(N - 1) /\ t \in 0..(N - 1)
  BY RingAssumption DEF Slots, N
<1>2. Succ(h) \in Slots /\ Succ(h) = IF h = N - 1 THEN 0 ELSE h + 1
  BY SuccFacts
<1> DEFINE put == [b EXCEPT ![h] = k]
<1>3. put \in [Slots -> Key]
  OBVIOUS
<1> HIDE DEF put
<1>4. PICK n \in 0..(N - 1) : n = Count(h, t)
  BY WindowType
<1>5. Count(Succ(h), t) = n + 1 /\ n \in Slots
  BY <1>1, <1>2, <1>4 DEF Count, Slots, N
<1>6. (t + n) % N = h
  <2>1. (t + n) % N = IF t + n < N THEN t + n ELSE t + n - N
    BY <1>5, Wrap
  <2> QED
    BY <1>1, <1>4, <2>1 DEF Count, N
<1>7. PICK old \in Seq(Key) : old = Window(b, h, t)
  BY WindowType
<1>8. PICK new \in Seq(Key) : new = Window(put, Succ(h), t)
  BY <1>2, <1>3, WindowType
<1>9. Len(old) = n /\ \A j \in 0..(n - 1) : j \in Slots /\ old[j + 1] = b[(t + j) % N]
  BY <1>4, <1>7, WindowType
<1>10. Len(new) = n + 1 /\ \A j \in 0..n : new[j + 1] = put[(t + j) % N]
  <2>1. (n + 1) - 1 = n
    BY <1>4
  <2>2. /\ Len(new) = Count(Succ(h), t)
        /\ \A j \in 0..(Count(Succ(h), t) - 1) : new[j + 1] = put[(t + j) % N]
    BY <1>2, <1>3, <1>8, WindowType
  <2> QED
    BY <1>5, <2>1, <2>2
<1>11. new[n + 1] = k
  <2>1. new[n + 1] = put[(t + n) % N]
    BY <1>4, <1>10
  <2> QED
    BY <1>6, <2>1 DEF put
<1>12. ASSUME NEW j \in 0..(n - 1) PROVE new[j + 1] = old[j + 1]
  <2>1. j \in Slots /\ old[j + 1] = b[(t + j) % N] /\ new[j + 1] = put[(t + j) % N]
    BY <1>4, <1>9, <1>10
  <2>2. (t + j) % N = IF t + j < N THEN t + j ELSE t + j - N
    BY <2>1, Wrap
  <2>3. h = IF t + n < N THEN t + n ELSE t + n - N
    BY <1>5, <1>6, Wrap
  <2>4. j \in Int /\ 0 <= j /\ j < n /\ n < N
    BY <1>1, <1>4
  <2>5. /\ (IF t + j < N THEN t + j ELSE t + j - N) # h
        /\ (IF t + j < N THEN t + j ELSE t + j - N) \in 0..(N - 1)
    BY <1>1, <2>3, <2>4
  <2> QED
    BY <2>1, <2>2, <2>5 DEF put, Slots, N
<1>13. ASSUME NEW i \in 1..n PROVE new[i] = old[i]
  <2>1. i - 1 \in 0..(n - 1) /\ (i - 1) + 1 = i
    BY <1>4
  <2> QED
    BY <1>12, <2>1
<1>14. new = Append(old, k)
  BY <1>4, <1>9, <1>10, <1>11, <1>13
<1> QED
  BY <1>7, <1>8, <1>14 DEF put

\* Moving the tail of a window that is not empty removes its first key.
LEMMA WindowTake ==
    ASSUME NEW b \in [Slots -> Key], NEW h \in Slots, NEW t \in Slots, h # t
    PROVE  /\ Window(b, h, t) # <<>>
           /\ Head(Window(b, h, t)) = b[t]
           /\ Window(b, h, Succ(t)) = Tail(Window(b, h, t))
<1>1. N \in Nat /\ N >= 2 /\ h \in 0..(N - 1) /\ t \in 0..(N - 1)
  BY RingAssumption DEF Slots, N
<1>2. Succ(t) \in Slots /\ Succ(t) = IF t = N - 1 THEN 0 ELSE t + 1
  BY SuccFacts
<1>3. PICK n \in 1..(N - 1) : n = Count(h, t)
  <2>1. Count(h, t) \in 1..(N - 1)
    BY <1>1 DEF Count, N
  <2> QED
    BY <2>1
<1>4. Count(h, Succ(t)) = n - 1
  BY <1>1, <1>2, <1>3 DEF Count, N
<1>5. PICK old \in Seq(Key) : old = Window(b, h, t)
  BY WindowType
<1>6. PICK new \in Seq(Key) : new = Window(b, h, Succ(t))
  BY <1>2, WindowType
<1>7. Len(old) = n /\ \A j \in 0..(n - 1) : j \in Slots /\ old[j + 1] = b[(t + j) % N]
  BY <1>3, <1>5, WindowType
<1>8. /\ Len(new) = n - 1
      /\ \A j \in 0..(n - 2) : j \in Slots /\ new[j + 1] = b[(Succ(t) + j) % N]
  <2>1. (n - 1) - 1 = n - 2
    BY <1>3
  <2>2. /\ Len(new) = Count(h, Succ(t))
        /\ \A j \in 0..(Count(h, Succ(t)) - 1) :
              j \in Slots /\ new[j + 1] = b[(Succ(t) + j) % N]
    BY <1>2, <1>6, WindowType
  <2> QED
    BY <1>4, <2>1, <2>2
<1>9. old[1] = b[t]
  <2>1. 0 \in 0..(n - 1) /\ 0 + 1 = 1
    BY <1>1, <1>3
  <2>2. old[1] = b[(t + 0) % N]
    BY <1>7, <2>1
  <2>3. (t + 0) % N = t
    BY <1>1
  <2> QED
    BY <2>2, <2>3
<1>10. ASSUME NEW j \in 0..(n - 2) PROVE new[j + 1] = old[j + 2]
  <2>1. j \in Slots /\ new[j + 1] = b[(Succ(t) + j) % N]
    BY <1>8
  <2>2. j + 1 \in 0..(n - 1) /\ (j + 1) + 1 = j + 2
    BY <1>1, <1>3
  <2>3. j + 1 \in Slots /\ old[j + 2] = b[(t + (j + 1)) % N]
    BY <1>7, <2>2
  <2>4. (Succ(t) + j) % N = (t + (j + 1)) % N
    <3>1. (t + (j + 1)) % N
            = IF t + (j + 1) < N THEN t + (j + 1) ELSE t + (j + 1) - N
      BY <2>3, Wrap
    <3>2. (Succ(t) + j) % N
            = IF Succ(t) + j < N THEN Succ(t) + j ELSE Succ(t) + j - N
      BY <1>2, <2>1, Wrap
    <3>3. j \in 0..(N - 2)
      BY <1>1, <1>3
    <3> QED
      BY <1>1, <1>2, <3>1, <3>2, <3>3
  <2> QED
    BY <2>1, <2>3, <2>4
<1>11. ASSUME NEW i \in 1..(n - 1) PROVE new[i] = old[i + 1]
  <2>1. i - 1 \in 0..(n - 2) /\ (i - 1) + 1 = i /\ (i - 1) + 2 = i + 1
    BY <1>1, <1>3
  <2> QED
    BY <1>10, <2>1
<1>12. old # <<>> /\ Head(old) = b[t] /\ new = Tail(old)
  BY <1>1, <1>3, <1>7, <1>8, <1>9, <1>11
<1> QED
  BY <1>5, <1>6, <1>12

\* A put appends its key when the queue has room and changes nothing else.
LEMMA PutOffers ==
    ASSUME TypeOK, NEW k \in Key, buffer_put(k)
    PROVE  Contents' = IF Len(Contents) < N - 1
                       THEN Append(Contents, k)
                       ELSE Contents
<1>1. /\ N \in Nat /\ N >= 2
      /\ buffer_head \in 0..(N - 1) /\ buffer_tail \in 0..(N - 1)
  BY RingAssumption DEF TypeOK, Slots, N
<1>2. Succ(buffer_head) = IF buffer_head = N - 1 THEN 0 ELSE buffer_head + 1
  BY SuccFacts DEF TypeOK
<1>3. Len(Contents) = Count(buffer_head, buffer_tail)
  BY WindowType DEF Contents, TypeOK
<1>4. buffer_is_full <=> Len(Contents) = N - 1
  BY <1>1, <1>2, <1>3 DEF buffer_is_full, Count, N
<1>5. Len(Contents) <= N - 1
  BY <1>1, <1>3, WindowType DEF TypeOK
<1>6. CASE buffer_is_full
  BY <1>1, <1>4, <1>6 DEF buffer_put, Contents
<1>7. CASE ~ buffer_is_full
  <2>1. Contents' = Append(Contents, k)
    <3>1. Window([key_buffer EXCEPT ![buffer_head] = k],
                 Succ(buffer_head), buffer_tail) = Append(Contents, k)
      BY <1>7, WindowPut DEF buffer_is_full, Contents, TypeOK
    <3>2. /\ key_buffer' = [key_buffer EXCEPT ![buffer_head] = k]
          /\ buffer_head' = Succ(buffer_head)
          /\ buffer_tail' = buffer_tail
      BY <1>7 DEF buffer_put
    <3> QED
      BY <3>1, <3>2 DEF Contents
  <2>2. Len(Contents) \in Nat
    BY <1>1, <1>3, WindowType DEF TypeOK
  <2> QED
    BY <1>1, <1>4, <1>5, <1>7, <2>1, <2>2
<1> QED
  BY <1>6, <1>7

LEMMA QueueStep ==
    ASSUME TypeOK, GetcharDelivers, [Next]_vars
    PROVE  [Queue!Next]_(Queue!vars)
<1> USE DEF Queue!vars
<1>1. CASE CallRoutine
  <2>1. CASE irq = Kbd /\ routine /\ keyboard_callback
    <3>1. CASE UNCHANGED <<ring, event>>
      BY <3>1 DEF ring, Contents
    <3>2. ASSUME NEW k \in Key, buffer_put(k) PROVE Queue!Next
      <4>1. Queue!Offer(k)
        BY <3>2, PutOffers DEF Queue!Offer, buffer_put, N
      <4> QED
        BY <4>1 DEF Queue!Next
    <3>3. port60 \in Byte
      BY <2>1 DEF keyboard_callback, TypeOK
    <3> QED
      BY <2>1, <3>1, <3>2, <3>3, EmittedIsKey DEF keyboard_callback, TypeOK
  <2>2. CASE ~ (irq = Kbd /\ routine /\ keyboard_callback)
    BY <1>1, <2>2 DEF CallRoutine, ring, Contents
  <2> QED
    BY <2>1, <2>2
<1>2. CASE GetcharAdvance
  <2>1. Queue!Take
    BY <1>2, WindowTake
       DEF Queue!Take, GetcharAdvance, GetcharDelivers, Contents,
           buffer_is_empty, TypeOK
  <2> QED
    BY <2>1 DEF Queue!Next
<1>3. CASE UNCHANGED <<ring, event>>
  BY <1>3 DEF ring, Contents
<1>4. ASSUME NEW i \in IRQs, Interrupt(i) PROVE UNCHANGED <<ring, event>>
  BY <1>4 DEF Interrupt
<1> QED
  BY <1>1, <1>2, <1>3, <1>4
     DEF Next, Hardware, Type, Present, Tick, EndOfInterrupt, keyboard_init,
         CallGetchar, Getchar, GetcharCheck, GetcharHlt, GetcharLoad, vars

\* The ring buffer shared by the interrupt handler and the reader implements a
\* FIFO of KEYBOARD_BUFFER_SIZE - 1 keys, for every size and interleaving.
THEOREM RingIsQueue == Spec => ImplementsQueue
<1>1. Init => Queue!Init
  <2>1. ASSUME Init PROVE Contents = <<>>
    <3>1. Count(buffer_head, buffer_tail) = 0 /\ TypeOK
      BY <2>1, InitType DEF Init, Count
    <3> QED
      BY <3>1, WindowType DEF Contents, TypeOK
  <2> QED
    BY <2>1 DEF Init, Queue!Init, Idle, Queue!Idle
<1>2. TypeOK /\ GetcharDelivers /\ [Next]_vars
        => [Queue!Next]_(Queue!vars)
  BY QueueStep
<1> QED
  BY <1>1, <1>2, TypeCorrect, ReaderIsServed, PTL
     DEF Spec, ImplementsQueue, Queue!Spec
=============================================================================
