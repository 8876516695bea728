-------------------------- MODULE KeystrokesProofs --------------------------
(***************************************************************************)
(* What reaches the ring buffer is what was typed, and no modifier stays   *)
(* stuck: for any keyboards, wires and histories of any length.            *)
(*                                                                         *)
(* The decoder becomes a value, and its flags and the keys it has put out  *)
(* a function of the byte it takes.  The invariant looks at the decoder    *)
(* as it will be at the end of the wire: that one agrees with the keys     *)
(* that are physically down, whatever is still to be read.  A press or a   *)
(* release moves that end on by the bytes of one key, and reading a byte   *)
(* leaves it where it is.                                                  *)
(***************************************************************************)
EXTENDS Keystrokes, SequenceTheorems, FiniteSetTheorems, TLAPS

\* The decoder as a value: its flags, and what it has put into the ring.
Decoders == [shift : BOOLEAN, caps : BOOLEAN, ctrl : BOOLEAN, ext : BOOLEAN, out : Seq(Key)]

\* The one the driver's variables are.
Now == [shift |-> shift_pressed, caps |-> caps_lock, ctrl |-> ctrl_pressed,
        ext |-> extended, out |-> emitted]

\* map_scancode_to_char, of the value.
Mapped(d, sc) ==
    IF d.shift \/ (sc \in Letters /\ d.caps) THEN <<"shifted", sc>> ELSE <<"plain", sc>>

\* What the decoder puts into the ring for a byte, as a sequence.
Puts(d, byte) ==
    IF ~ IsOrdinary(byte) \/ Released(byte) THEN <<>>
    ELSE IF d.ext THEN IF byte \in ArrowCodes THEN <<<<"arrow", byte>>>> ELSE <<>>
    ELSE IF d.ctrl /\ byte \in Letters THEN <<<<"control", byte>>>>
    ELSE IF byte \in Unused THEN <<>> ELSE <<Mapped(d, byte)>>

\* Where a byte takes it.
After(d, byte) ==
    [shift |-> IF IsShift(byte) THEN ~ Released(byte) ELSE d.shift,
     caps  |-> IF IsCapsPress(byte) THEN ~ d.caps ELSE d.caps,
     ctrl  |-> IF IsCtrl(byte) THEN ~ Released(byte) ELSE d.ctrl,
     ext   |-> byte = Prefix,
     out   |-> d.out \o Puts(d, byte)]

\* The bytes of w take the decoder from d to e: there is a run of it, one step for each
\* byte, and nothing it has put out is ever taken back.
Leads(d, w, e) ==
    \E run \in [0..Len(w) -> Decoders] :
        /\ run[0] = d /\ run[Len(w)] = e
        /\ \A i \in 1..Len(w) : run[i] = After(run[i - 1], w[i])
        /\ \A i \in 0..Len(w) : IsPrefix(run[i].out, e.out)

-----------------------------------------------------------------------------
(* Sequences *)

\* A prefix stays one when more is appended.
LEMMA PrefixOfConcat ==
    ASSUME NEW S, NEW a \in Seq(S), NEW b \in Seq(S), NEW c \in Seq(S), IsPrefix(a, b)
    PROVE  IsPrefix(a, b \o c)
<1>1. /\ Len(a) \in Nat /\ Len(b) \in Nat /\ Len(c) \in Nat /\ Len(a) <= Len(b)
      /\ SubSeq(a, 1, Len(a)) = SubSeq(b, 1, Len(a))
  BY DEF IsPrefix
<1>2. /\ b \o c \in Seq(S) /\ Len(b \o c) = Len(b) + Len(c)
      /\ \A i \in 1..Len(b) : (b \o c)[i] = b[i]
  BY ConcatProperties
<1>3. SubSeq(b \o c, 1, Len(a)) = SubSeq(b, 1, Len(a))
  <2> DEFINE n == Len(a)
             x == SubSeq(b \o c, 1, n)
             y == SubSeq(b, 1, n)
  <2>1. n \in Nat /\ 1 \in Int /\ n \in Int /\ n <= Len(b) BY <1>1
  <2>2. \A i \in 1..n : b[i] \in S /\ (b \o c)[i] \in S BY <1>1, <1>2, <2>1
  <2>3. x = [i \in 1..n |-> (b \o c)[i]] /\ y = [i \in 1..n |-> b[i]] BY <1>1, <1>2, <2>1
  <2>4. QED BY <1>2, <2>1, <2>3
<1>4. QED BY <1>1, <1>2, <1>3 DEF IsPrefix

\* A sequence is a prefix of itself.
LEMMA PrefixOfItself == ASSUME NEW S, NEW a \in Seq(S) PROVE IsPrefix(a, a)
BY DEF IsPrefix

\* Emitted gives no key, or one: the sequence of none.
LEMMA SetToSeqNone == SetToSeq({}) = <<>>
<1>1. Cardinality({}) = 0 BY FS_EmptySet
<1>2. ASSUME NEW f \in [1..0 -> {}] PROVE f = <<>>
  <2>1. f \in Seq({}) OBVIOUS
  <2>2. Len(f) = 0 BY <2>1
  <2>3. QED BY <2>1, <2>2, EmptySeq
<1>5. <<>> \in [1..0 -> {}] OBVIOUS
<1>3. IsInjective(<<>>) BY DEF IsInjective
<1>4. QED BY <1>1, <1>2, <1>3, <1>5 DEF SetToSeq

\* The sequence of one.
LEMMA SetToSeqOne == ASSUME NEW x PROVE SetToSeq({x}) = <<x>>
<1>1. Cardinality({x}) = 1 BY FS_Singleton
<1>2. \A f \in [1..1 -> {x}] : f = <<x>> OBVIOUS
<1>3. <<x>> \in [1..1 -> {x}] /\ IsInjective(<<x>>) BY DEF IsInjective
<1>4. QED BY <1>1, <1>2, <1>3 DEF SetToSeq

-----------------------------------------------------------------------------
(* Runs of the decoder *)

\* The bytes keyboard_driver.c names.
LEMMA ByteFacts ==
    /\ Prefix = 224 /\ Release = 128 /\ CtrlCode = 29 /\ CapsCode = 58
    /\ ShiftCodes = {42, 54} /\ ArrowCodes = {72, 80, 75, 77}
    /\ Prefix \in Byte
BY DEF Prefix, Release, CtrlCode, CapsCode, ShiftCodes, ArrowCodes, Byte

\* Only keys are put into the ring.
LEMMA PutsKeys == ASSUME NEW d \in Decoders, NEW byte \in Byte PROVE Puts(d, byte) \in Seq(Key)
<1>1. <<>> \in Seq(Key) /\ \A k \in Key : <<k>> \in Seq(Key) OBVIOUS
<1>2. ~ Released(byte) => byte \in 0..127 BY ByteFacts DEF Byte, Released
<1>3. byte \in 0..127 => Mapped(d, byte) \in Key BY DEF Mapped, Key
<1>4. byte \in ArrowCodes => <<"arrow", byte>> \in Key BY DEF Key
<1>5. byte \in Letters => <<"control", byte>> \in Key BY DEF Key
<1>6. QED BY <1>1, <1>2, <1>3, <1>4, <1>5 DEF Puts

\* A byte leads from a decoder to a decoder, whose history is longer.
LEMMA AfterDecoder ==
    ASSUME NEW d \in Decoders, NEW byte \in Byte
    PROVE  After(d, byte) \in Decoders /\ IsPrefix(d.out, After(d, byte).out)
<1>1. Puts(d, byte) \in Seq(Key) /\ d.out \in Seq(Key) BY PutsKeys DEF Decoders
<1>2. d.out \o Puts(d, byte) \in Seq(Key) BY <1>1, ConcatProperties
<1>3. After(d, byte) \in Decoders /\ After(d, byte).out = d.out \o Puts(d, byte)
  BY <1>2 DEF After, Decoders, Released
<1>4. IsPrefix(d.out, d.out \o Puts(d, byte)) BY <1>1, PrefixOfItself, PrefixOfConcat
<1>5. QED BY <1>3, <1>4

\* Without bytes nothing changes.
LEMMA LeadsNowhere == ASSUME NEW d \in Decoders PROVE Leads(d, <<>>, d)
<1> DEFINE run == [i \in 0..0 |-> d]
<1>1. Len(<<>>) = 0 /\ 0..Len(<<>>) = 0..0 BY EmptySeq
<1>2. run \in [0..0 -> Decoders] /\ run[0] = d OBVIOUS
<1>3. IsPrefix(d.out, d.out) BY PrefixOfItself DEF Decoders
<1> HIDE DEF run
<1>4. \A i \in 0..0 : run[i] = d
  <2>1. \A i \in 0..0 : i = 0 OBVIOUS
  <2>2. QED BY <1>2, <2>1
<1>5. 1..0 = {} OBVIOUS
<1>6. QED BY <1>1, <1>2, <1>3, <1>4, <1>5 DEF Leads

\* And nothing else can be reached without bytes.
LEMMA LedNowhere == ASSUME NEW d, NEW e, Leads(d, <<>>, e) PROVE d = e
<1>1. Len(<<>>) = 0 BY EmptySeq
<1>2. QED BY <1>1 DEF Leads

\* Both ends of a run are decoders, and nothing put out is taken back.
LEMMA LedIsDecoder ==
    ASSUME NEW d, NEW w \in Seq(Byte), NEW e, Leads(d, w, e)
    PROVE  d \in Decoders /\ e \in Decoders /\ IsPrefix(d.out, e.out)
<1>1. Len(w) \in Nat /\ 0 \in 0..Len(w) /\ Len(w) \in 0..Len(w) BY LenProperties
<1>2. QED BY <1>1 DEF Leads

\* One byte more on the wire.
LEMMA LeadsOn ==
    ASSUME NEW d, NEW w \in Seq(Byte), NEW e, Leads(d, w, e), NEW byte \in Byte
    PROVE  Leads(d, Append(w, byte), After(e, byte))
<1> DEFINE n == Len(w)
           v == Append(w, byte)
           f == After(e, byte)
<1>1. PICK run \in [0..n -> Decoders] :
          /\ run[0] = d /\ run[n] = e
          /\ \A i \in 1..n : run[i] = After(run[i - 1], w[i])
          /\ \A i \in 0..n : IsPrefix(run[i].out, e.out)
  BY DEF Leads
<1>2. n \in Nat /\ Len(v) = n + 1 /\ v[n + 1] = byte /\ \A i \in 1..n : v[i] = w[i]
  BY LenProperties, AppendProperties
<1>3. e \in Decoders /\ f \in Decoders /\ IsPrefix(e.out, f.out) BY LedIsDecoder, AfterDecoder
<1> DEFINE next == [i \in 0..n + 1 |-> IF i = n + 1 THEN f ELSE run[i]]
<1> HIDE DEF n, v, f
<1>4. next \in [0..n + 1 -> Decoders] BY <1>1, <1>2, <1>3
<1>5. next[0] = d /\ next[n + 1] = f BY <1>1, <1>2
<1>6. ASSUME NEW i \in 1..n + 1 PROVE next[i] = After(next[i - 1], v[i])
  <2>1. CASE i = n + 1
    <3>1. next[i] = f /\ next[i - 1] = e /\ v[i] = byte BY <1>1, <1>2, <2>1
    <3>2. QED BY <3>1 DEF f
  <2>2. CASE i # n + 1
    <3>1. i \in 1..n /\ i - 1 \in 0..n + 1 /\ i - 1 # n + 1 BY <1>2, <2>2
    <3>2. next[i] = run[i] /\ next[i - 1] = run[i - 1] /\ v[i] = w[i] BY <1>2, <3>1
    <3>3. QED BY <1>1, <3>1, <3>2
  <2>3. QED BY <2>1, <2>2
<1>7. ASSUME NEW i \in 0..n + 1 PROVE IsPrefix(next[i].out, f.out)
  <2>1. CASE i = n + 1
    <3>1. next[i] = f BY <2>1
    <3>2. QED BY <1>3, <3>1, PrefixOfItself DEF Decoders
  <2>2. CASE i # n + 1
    <3>1. i \in 0..n /\ next[i] = run[i] BY <1>2, <2>2
    <3>2. run[i] \in Decoders /\ IsPrefix(run[i].out, e.out) BY <1>1, <3>1
    <3>3. f.out = e.out \o Puts(e, byte) BY DEF f, After
    <3>4. /\ run[i].out \in Seq(Key) /\ e.out \in Seq(Key)
          /\ Puts(e, byte) \in Seq(Key)
      BY <1>3, <3>2, PutsKeys DEF Decoders
    <3>5. QED BY <3>1, <3>2, <3>3, <3>4, PrefixOfConcat
  <2>3. QED BY <2>1, <2>2
<1> HIDE DEF next
<1>8. QED BY <1>2, <1>4, <1>5, <1>6, <1>7 DEF Leads, f, v

\* The first byte is taken.
LEMMA LeadsFrom ==
    ASSUME NEW d, NEW w \in Seq(Byte), NEW e, Leads(d, w, e), w # <<>>
    PROVE  Leads(After(d, Head(w)), Tail(w), e)
<1> DEFINE n == Len(w)
           v == Tail(w)
<1>1. PICK run \in [0..n -> Decoders] :
          /\ run[0] = d /\ run[n] = e
          /\ \A i \in 1..n : run[i] = After(run[i - 1], w[i])
          /\ \A i \in 0..n : IsPrefix(run[i].out, e.out)
  BY DEF Leads
<1>2. n \in Nat /\ n >= 1 /\ v \in Seq(Byte) /\ Len(v) = n - 1 /\ Head(w) = w[1]
      /\ \A i \in 1..n - 1 : v[i] = w[i + 1]
  BY HeadTailProperties, EmptySeq
<1> DEFINE next == [i \in 0..n - 1 |-> run[i + 1]]
<1> HIDE DEF n, v
<1>3. next \in [0..n - 1 -> Decoders] BY <1>1, <1>2
<1>4. next[0] = After(d, Head(w)) /\ next[n - 1] = e
  <2>1. 1 \in 1..n /\ run[1] = After(run[0], w[1]) BY <1>1, <1>2
  <2>2. QED BY <1>1, <1>2, <2>1
<1>5. ASSUME NEW i \in 1..n - 1 PROVE next[i] = After(next[i - 1], v[i])
  <2>1. /\ i \in 0..n - 1 /\ i - 1 \in 0..n - 1 /\ i - 1 + 1 = i /\ i + 1 \in 1..n
        /\ i + 1 - 1 = i /\ v[i] = w[i + 1]
    BY <1>2
  <2>2. next[i] = run[i + 1] /\ next[i - 1] = run[i] BY <2>1
  <2>3. run[i + 1] = After(run[i], w[i + 1]) BY <1>1, <2>1
  <2>4. QED BY <2>1, <2>2, <2>3
<1>6. ASSUME NEW i \in 0..n - 1 PROVE IsPrefix(next[i].out, e.out)
  BY <1>1, <1>2
<1> HIDE DEF next
<1>7. QED BY <1>2, <1>3, <1>4, <1>5, <1>6 DEF Leads, v

\* A step of the driver is a step of the decoder.
LEMMA DecodeIsAfter ==
    ASSUME Now \in Decoders, NEW byte \in Byte, Decode(byte),
           emitted' = emitted \o SetToSeq(Emitted(byte))
    PROVE  Now' = After(Now, byte)
<1>0. FlagsOK BY DEF Now, Decoders, FlagsOK
<1>1. SetToSeq(Emitted(byte)) = Puts(Now, byte)
  <2>1. CASE ~ IsOrdinary(byte) \/ Released(byte)
    BY <2>1, SetToSeqNone DEF Emitted, Puts
  <2>2. CASE IsOrdinary(byte) /\ ~ Released(byte) /\ extended
    <3>1. CASE byte \in ArrowCodes
      <4>1. Emitted(byte) = {<<"arrow", byte>>} BY <2>2, <3>1 DEF Emitted
      <4>2. Puts(Now, byte) = <<<<"arrow", byte>>>> BY <2>2, <3>1 DEF Puts, Now
      <4>3. QED BY <4>1, <4>2, SetToSeqOne
    <3>2. CASE byte \notin ArrowCodes
      <4>1. Emitted(byte) = {} BY <2>2, <3>2 DEF Emitted
      <4>2. Puts(Now, byte) = <<>> BY <2>2, <3>2 DEF Puts, Now
      <4>3. QED BY <4>1, <4>2, SetToSeqNone
    <3>3. QED BY <3>1, <3>2
  <2>3. CASE IsOrdinary(byte) /\ ~ Released(byte) /\ ~ extended /\ ctrl_pressed /\ byte \in Letters
    <3>1. Emitted(byte) = {<<"control", byte>>} BY <2>3 DEF Emitted
    <3>2. Puts(Now, byte) = <<<<"control", byte>>>> BY <2>3 DEF Puts, Now
    <3>3. QED BY <3>1, <3>2, SetToSeqOne
  <2>4. CASE IsOrdinary(byte) /\ ~ Released(byte) /\ ~ extended
             /\ ~ (ctrl_pressed /\ byte \in Letters)
    <3>1. CASE byte \in Unused
      <4>1. Emitted(byte) = {} BY <2>4, <3>1 DEF Emitted
      <4>2. Puts(Now, byte) = <<>> BY <2>4, <3>1 DEF Puts, Now
      <4>3. QED BY <4>1, <4>2, SetToSeqNone
    <3>2. CASE byte \notin Unused
      <4>1. Emitted(byte) = {map_scancode_to_char(byte)} BY <2>4, <3>2 DEF Emitted
      <4>2. Puts(Now, byte) = <<Mapped(Now, byte)>> BY <2>4, <3>2 DEF Puts, Now
      <4>3. map_scancode_to_char(byte) = Mapped(Now, byte)
        BY <1>0 DEF map_scancode_to_char, Mapped, Now, FlagsOK
      <4>4. QED BY <4>1, <4>2, <4>3, SetToSeqOne
    <3>3. QED BY <3>1, <3>2
  <2>5. QED BY <1>0, <2>1, <2>2, <2>3, <2>4 DEF FlagsOK
<1>2. Now' = [shift |-> shift_pressed', caps |-> caps_lock', ctrl |-> ctrl_pressed',
              ext |-> extended', out |-> emitted']
  BY DEF Now
<1>3. /\ shift_pressed' = IF IsShift(byte) THEN ~ Released(byte) ELSE shift_pressed
      /\ caps_lock' = IF IsCapsPress(byte) THEN ~ caps_lock ELSE caps_lock
      /\ ctrl_pressed' = IF IsCtrl(byte) THEN ~ Released(byte) ELSE ctrl_pressed
      /\ extended' = (byte = Prefix)
  <2>1. byte # Prefix => /\ IsCtrl(byte) <=> Code(byte) = CtrlCode
                         /\ IsShift(byte) <=> Code(byte) \in ShiftCodes
    BY DEF IsCtrl, IsShift
  <2>2. IsCapsPress(byte) => Code(byte) = 58 BY ByteFacts DEF IsCapsPress, Code
  <2>3. CASE SetPrefix(byte)
    <3>1. byte = Prefix /\ ~ IsCtrl(byte) /\ ~ IsShift(byte) /\ ~ IsCapsPress(byte)
      BY <2>3, ByteFacts DEF SetPrefix, IsShift, IsCapsPress, IsCtrl
    <3>2. QED BY <2>3, <3>1 DEF SetPrefix
  <2>4. CASE CtrlKey(byte)
    <3>1. byte # Prefix /\ IsCtrl(byte) /\ ~ IsShift(byte) /\ ~ IsCapsPress(byte)
      BY <2>1, <2>2, <2>4, ByteFacts DEF CtrlKey, IsCtrl
    <3>2. QED BY <2>4, <3>1 DEF CtrlKey
  <2>5. CASE ShiftKey(byte)
    <3>1. byte # Prefix /\ ~ IsCtrl(byte) /\ IsShift(byte) /\ ~ IsCapsPress(byte)
      BY <2>1, <2>2, <2>5, ByteFacts DEF ShiftKey, IsShift
    <3>2. QED BY <2>5, <3>1 DEF ShiftKey
  <2>6. CASE CapsLockPress(byte)
    <3>1. byte # Prefix /\ ~ IsCtrl(byte) /\ ~ IsShift(byte) /\ IsCapsPress(byte)
      BY <2>1, <2>2, <2>6, ByteFacts DEF CapsLockPress, IsCapsPress
    <3>2. QED BY <2>6, <3>1 DEF CapsLockPress
  <2>7. CASE OrdinaryKey(byte)
    BY <2>7 DEF OrdinaryKey, IsOrdinary
  <2>8. QED BY <2>3, <2>4, <2>5, <2>6, <2>7 DEF Decode
<1>4. QED BY <1>1, <1>2, <1>3 DEF After, Now

-----------------------------------------------------------------------------
(* What the keyboard sends for a key, and where it takes the decoder. *)

\* The keys, one by one.
LEMMA KeysNamed ==
    AnyKey = {"A", "One", "F1", "LeftShift", "RightShift", "LeftCtrl", "CapsLock",
              "RightCtrl", "Up", "Left", "Del", "PrintScreen"}
BY DEF AnyKey, Plain, Prefixed

\* What a press sends.
LEMMA PressSends ==
    /\ PressBytes("A") = <<30>> /\ PressBytes("One") = <<2>> /\ PressBytes("F1") = <<59>>
    /\ PressBytes("LeftShift") = <<42>> /\ PressBytes("RightShift") = <<54>>
    /\ PressBytes("LeftCtrl") = <<29>> /\ PressBytes("CapsLock") = <<58>>
    /\ PressBytes("RightCtrl") = <<224, 29>> /\ PressBytes("Up") = <<224, 72>>
    /\ PressBytes("Left") = <<224, 75>> /\ PressBytes("Del") = <<224, 83>>
    /\ PressBytes("PrintScreen") = <<224, 42, 224, 55>>
BY ByteFacts DEF PressBytes, Plain, Prefixed

\* What a release sends.
LEMMA ReleaseSends ==
    /\ ReleaseBytes("A") = <<158>> /\ ReleaseBytes("One") = <<130>>
    /\ ReleaseBytes("F1") = <<187>>
    /\ ReleaseBytes("LeftShift") = <<170>> /\ ReleaseBytes("RightShift") = <<182>>
    /\ ReleaseBytes("LeftCtrl") = <<157>> /\ ReleaseBytes("CapsLock") = <<186>>
    /\ ReleaseBytes("RightCtrl") = <<224, 157>> /\ ReleaseBytes("Up") = <<224, 200>>
    /\ ReleaseBytes("Left") = <<224, 203>> /\ ReleaseBytes("Del") = <<224, 211>>
    /\ ReleaseBytes("PrintScreen") = <<224, 183, 224, 170>>
BY ByteFacts DEF ReleaseBytes, Plain, Prefixed

\* They are bytes.
LEMMA BytesSent ==
    /\ {30, 2, 59, 42, 54, 29, 58, 72, 75, 83, 55, 224} \subseteq Byte
    /\ {158, 130, 187, 170, 182, 157, 186, 200, 203, 211, 183} \subseteq Byte
BY DEF Byte

\* Which branch of the callback a byte takes.
LEMMA KindsOfBytes ==
    /\ ~ IsShift(224) /\ ~ IsCtrl(224) /\ ~ IsCapsPress(224) /\ ~ IsOrdinary(224)
    /\ \A b \in {42, 54, 170, 182} :
           /\ IsShift(b) /\ ~ IsCtrl(b) /\ ~ IsCapsPress(b) /\ ~ IsOrdinary(b) /\ b # 224
           /\ Released(b) <=> b \in {170, 182}
    /\ \A b \in {29, 157} :
           /\ IsCtrl(b) /\ ~ IsShift(b) /\ ~ IsCapsPress(b) /\ ~ IsOrdinary(b) /\ b # 224
           /\ Released(b) <=> b = 157
    /\ IsCapsPress(58) /\ ~ IsShift(58) /\ ~ IsCtrl(58) /\ ~ IsOrdinary(58)
    /\ \A b \in {30, 2, 59, 72, 75, 83, 55} \cup {158, 130, 187, 186, 200, 203, 211, 183} :
           /\ IsOrdinary(b) /\ ~ IsShift(b) /\ ~ IsCtrl(b) /\ ~ IsCapsPress(b) /\ b # 224
           /\ Released(b) <=> b \in {158, 130, 187, 186, 200, 203, 211, 183}
BY ByteFacts DEF IsShift, IsCtrl, IsCapsPress, IsOrdinary, Code, Released

\* One, two, or four bytes at the end of the wire.
LEMMA BytesAppended ==
    ASSUME NEW w \in Seq(Byte), NEW a \in Byte, NEW b \in Byte, NEW c \in Byte, NEW e \in Byte
    PROVE  /\ w \o <<a>> = Append(w, a)
           /\ w \o <<a, b>> = Append(Append(w, a), b)
           /\ w \o <<a, b, c, e>> = Append(Append(Append(Append(w, a), b), c), e)
<1>1. ASSUME NEW v \in Seq(Byte), NEW x \in Byte
      PROVE  Append(v, x) \in Seq(Byte) /\ w \o Append(v, x) = Append(w \o v, x)
  <2>1. <<x>> \in Seq(Byte) /\ w \o v \in Seq(Byte) BY ConcatProperties
  <2>2. Append(v, x) = v \o <<x>> /\ Append(w \o v, x) = (w \o v) \o <<x>>
    BY <2>1, AppendIsConcat
  <2>3. w \o (v \o <<x>>) = (w \o v) \o <<x>> BY <2>1, ConcatAssociative
  <2>4. QED BY <2>2, <2>3
<1>2. <<>> \in Seq(Byte) /\ w \o <<>> = w BY ConcatEmptySeq
<1>3. /\ <<a>> = Append(<<>>, a) /\ <<a, b>> = Append(<<a>>, b)
      /\ <<a, b, c>> = Append(<<a, b>>, c) /\ <<a, b, c, e>> = Append(<<a, b, c>>, e)
  OBVIOUS
<1>4. <<a>> \in Seq(Byte) /\ <<a, b>> \in Seq(Byte) /\ <<a, b, c>> \in Seq(Byte)
  BY <1>1, <1>2, <1>3
<1>5. w \o <<a>> = Append(w, a) BY <1>1, <1>2, <1>3
<1>6. w \o <<a, b>> = Append(Append(w, a), b) BY <1>1, <1>3, <1>4, <1>5
<1>7. w \o <<a, b, c>> = Append(Append(Append(w, a), b), c) BY <1>1, <1>3, <1>4, <1>6
<1>8. w \o <<a, b, c, e>> = Append(Append(Append(Append(w, a), b), c), e)
  BY <1>1, <1>3, <1>4, <1>7
<1>9. QED BY <1>5, <1>6, <1>8

\* A byte that puts nothing into the ring leaves the history of d.
LEMMA NothingPut == ASSUME NEW d \in Decoders PROVE d.out \o <<>> = d.out
BY ConcatEmptySeq DEF Decoders

\* The fields of the decoder after a byte.
LEMMA AfterFields ==
    ASSUME NEW d, NEW b
    PROVE  /\ After(d, b).shift = IF IsShift(b) THEN ~ Released(b) ELSE d.shift
           /\ After(d, b).caps = IF IsCapsPress(b) THEN ~ d.caps ELSE d.caps
           /\ After(d, b).ctrl = IF IsCtrl(b) THEN ~ Released(b) ELSE d.ctrl
           /\ After(d, b).ext = (b = 224)
           /\ After(d, b).out = d.out \o Puts(d, b)
BY ByteFacts DEF After

\* The flags and the history of e are those of d, but for what the byte is about.
LEMMA AfterPrefix ==
    ASSUME NEW d \in Decoders
    PROVE  LET e == After(d, 224)
           IN  e.shift = d.shift /\ e.caps = d.caps /\ e.ctrl = d.ctrl /\ e.ext /\ e.out = d.out
<1>1. Puts(d, 224) = <<>> BY KindsOfBytes DEF Puts
<1>2. ~ IsShift(224) /\ ~ IsCtrl(224) /\ ~ IsCapsPress(224) BY KindsOfBytes
<1> DEFINE e == After(d, 224)
<1>3. e.shift = d.shift /\ e.caps = d.caps /\ e.ctrl = d.ctrl BY <1>2, AfterFields
<1>4. e.ext = (224 = 224) BY AfterFields
<1>8. e.out = d.out \o Puts(d, 224) BY AfterFields
<1>5. e.ext BY <1>4
<1> HIDE DEF e
<1>10. e.out = d.out BY <1>1, <1>8, NothingPut
<1> USE DEF e
<1>6. QED BY <1>3, <1>4, <1>5, <1>10

\* A press or a release of a Shift key, or of the fake one of PrintScreen.
LEMMA AfterShift ==
    ASSUME NEW d \in Decoders, NEW b \in {42, 54, 170, 182}
    PROVE  LET e == After(d, b)
           IN  /\ e.shift <=> b \in {42, 54}
               /\ e.caps = d.caps /\ e.ctrl = d.ctrl /\ ~ e.ext /\ e.out = d.out
<1>1. IsShift(b) /\ ~ IsCtrl(b) /\ ~ IsCapsPress(b) /\ ~ IsOrdinary(b) /\ b # 224
      /\ (Released(b) <=> b \in {170, 182})
  BY KindsOfBytes
<1>2. Puts(d, b) = <<>> BY <1>1 DEF Puts
<1> DEFINE e == After(d, b)
<1>3. e.caps = d.caps /\ e.ctrl = d.ctrl BY <1>1, AfterFields
<1>4. e.shift = ~ Released(b) BY <1>1, AfterFields
<1>5. ~ Released(b) <=> b \in {42, 54} BY <1>1
<1>6. e.ext = (b = 224) BY AfterFields
<1>11. e.out = d.out \o Puts(d, b) BY AfterFields
<1>7. ~ e.ext BY <1>1, <1>6
<1> HIDE DEF e
<1>10. e.out = d.out BY <1>2, <1>11, NothingPut
<1>8. e.shift <=> b \in {42, 54} BY <1>4, <1>5
<1>9. QED BY <1>3, <1>7, <1>8, <1>10 DEF e

\* A press or a release of a Ctrl key, with its prefix or without.
LEMMA AfterCtrl ==
    ASSUME NEW d \in Decoders, NEW b \in {29, 157}
    PROVE  LET e == After(d, b)
           IN  /\ e.ctrl <=> b = 29
               /\ e.shift = d.shift /\ e.caps = d.caps /\ ~ e.ext /\ e.out = d.out
<1>1. IsCtrl(b) /\ ~ IsShift(b) /\ ~ IsCapsPress(b) /\ ~ IsOrdinary(b) /\ b # 224
      /\ (Released(b) <=> b = 157)
  BY KindsOfBytes
<1>2. Puts(d, b) = <<>> BY <1>1 DEF Puts
<1> DEFINE e == After(d, b)
<1>3. e.shift = d.shift /\ e.caps = d.caps BY <1>1, AfterFields
<1>4. e.ctrl = ~ Released(b) BY <1>1, AfterFields
<1>5. ~ Released(b) <=> b = 29 BY <1>1
<1>6. e.ext = (b = 224) BY AfterFields
<1>11. e.out = d.out \o Puts(d, b) BY AfterFields
<1>7. ~ e.ext BY <1>1, <1>6
<1> HIDE DEF e
<1>10. e.out = d.out BY <1>2, <1>11, NothingPut
<1>8. e.ctrl <=> b = 29 BY <1>4, <1>5
<1>9. QED BY <1>3, <1>7, <1>8, <1>10 DEF e

\* A press of Caps Lock.
LEMMA AfterCaps ==
    ASSUME NEW d \in Decoders
    PROVE  LET e == After(d, 58)
           IN  /\ e.caps = ~ d.caps
               /\ e.shift = d.shift /\ e.ctrl = d.ctrl /\ ~ e.ext /\ e.out = d.out
<1>1. IsCapsPress(58) /\ ~ IsShift(58) /\ ~ IsCtrl(58) /\ ~ IsOrdinary(58) BY KindsOfBytes
<1>2. Puts(d, 58) = <<>> BY <1>1 DEF Puts
<1> DEFINE e == After(d, 58)
<1>3. e.shift = d.shift /\ e.ctrl = d.ctrl /\ e.caps = ~ d.caps BY <1>1, AfterFields
<1>4. e.ext = (58 = 224) BY AfterFields
<1>11. e.out = d.out \o Puts(d, 58) BY AfterFields
<1> DEFINE b == 58
<1>7. e.ext = (b = 224) /\ b # 224 BY <1>4
<1> HIDE DEF b, e
<1>5. ~ e.ext BY <1>7
<1>10. e.out = d.out BY <1>2, <1>11, NothingPut
<1> USE DEF e
<1>6. QED BY <1>3, <1>4, <1>5, <1>10

\* The decoder e is d after a byte b that is no modifier and no prefix.
Ordinary(d, b, e) ==
    /\ e.shift = d.shift /\ e.caps = d.caps /\ e.ctrl = d.ctrl /\ ~ e.ext
    /\ e.out = d.out \o Puts(d, b)

\* Any other byte leaves the modifiers.
LEMMA AfterOrdinary ==
    ASSUME NEW d \in Decoders,
           NEW b \in {30, 2, 59, 72, 75, 83, 55} \cup {158, 130, 187, 186, 200, 203, 211, 183}
    PROVE  Ordinary(d, b, After(d, b))
<1>1. ~ IsShift(b) /\ ~ IsCtrl(b) /\ ~ IsCapsPress(b) /\ b # 224 BY KindsOfBytes
<1> DEFINE e == After(d, b)
<1>2. e.shift = d.shift /\ e.caps = d.caps /\ e.ctrl = d.ctrl /\ e.out = d.out \o Puts(d, b)
  BY <1>1, AfterFields
<1>3. e.ext = (b = 224) BY AfterFields
<1>4. ~ e.ext BY <1>1, <1>3
<1>5. QED BY <1>2, <1>4 DEF Ordinary

\* What the driver makes of a key, in the state of the flags.
Says(d, k) ==
    CASE k = "A" /\ d.ctrl    -> <<<<"control", 30>>>>
      [] k = "A" /\ ~ d.ctrl  -> <<<<IF d.shift \/ d.caps THEN "shifted" ELSE "plain", 30>>>>
      [] k = "One"            -> <<<<IF d.shift THEN "shifted" ELSE "plain", 2>>>>
      [] k = "Up"             -> <<<<"arrow", 72>>>>
      [] k = "Left"           -> <<<<"arrow", 75>>>>
      [] OTHER                -> <<>>

\* The bytes of the other keys put out what Says says; releases put out nothing.
LEMMA PutsOfKeys ==
    ASSUME NEW d \in Decoders
    PROVE  /\ ~ d.ext => Puts(d, 30) = Says(d, "A") /\ Puts(d, 2) = Says(d, "One")
                         /\ Puts(d, 59) = <<>>
           /\ d.ext => Puts(d, 72) = Says(d, "Up") /\ Puts(d, 75) = Says(d, "Left")
                       /\ Puts(d, 83) = <<>> /\ Puts(d, 55) = <<>>
           /\ \A b \in {158, 130, 187, 186, 200, 203, 211, 183} : Puts(d, b) = <<>>
<1>1. /\ \A b \in {30, 2, 59, 72, 75, 83, 55} : IsOrdinary(b) /\ ~ Released(b)
      /\ \A b \in {158, 130, 187, 186, 200, 203, 211, 183} : Released(b)
  BY KindsOfBytes
<1>2. 30 \in Letters /\ 2 \notin Letters /\ 30 \notin Unused /\ 2 \notin Unused /\ 59 \in Unused
  BY DEF Letters, Unused
<1>3. Mapped(d, 30) = <<IF d.shift \/ d.caps THEN "shifted" ELSE "plain", 30>>
      /\ Mapped(d, 2) = <<IF d.shift THEN "shifted" ELSE "plain", 2>>
  BY <1>2 DEF Mapped
<1>4. ~ d.ext => Puts(d, 30) = Says(d, "A")
  BY <1>1, <1>2, <1>3 DEF Puts, Says
<1>5. ~ d.ext => Puts(d, 2) = Says(d, "One") BY <1>1, <1>2, <1>3 DEF Puts, Says
<1>6. ~ d.ext => Puts(d, 59) = <<>> BY <1>1, <1>2 DEF Puts, Letters
<1>7. d.ext => Puts(d, 72) = Says(d, "Up") /\ Puts(d, 75) = Says(d, "Left")
  BY <1>1, ByteFacts DEF Puts, Says
<1>8. d.ext => Puts(d, 83) = <<>> /\ Puts(d, 55) = <<>> BY <1>1, ByteFacts DEF Puts
<1>9. QED BY <1>1, <1>4, <1>5, <1>6, <1>7, <1>8 DEF Puts

-----------------------------------------------------------------------------
(* Where a key takes the decoder *)

\* The keys that set shift_pressed.
ShiftSetters == ShiftKeys \cup {"PrintScreen"}

\* Two bytes; then those of a key that is pressed, and let go.
After2(d, a, b) == After(After(d, a), b)

KeyDown(d, k) ==
    IF k = "PrintScreen" THEN After2(After2(d, 224, 42), 224, 55)
    ELSE IF k \in DOMAIN Plain THEN After(d, Plain[k]) ELSE After2(d, 224, Prefixed[k])

KeyUp(d, k) ==
    IF k = "PrintScreen" THEN After2(After2(d, 224, 183), 224, 170)
    ELSE IF k \in DOMAIN Plain THEN After(d, Plain[k] + 128)
    ELSE After2(d, 224, Prefixed[k] + 128)

\* The codes of the keys, one by one.
LEMMA KeyCodes ==
    /\ DOMAIN Plain = {"A", "One", "F1", "LeftShift", "RightShift", "LeftCtrl", "CapsLock"}
    /\ Plain["A"] = 30 /\ Plain["One"] = 2 /\ Plain["F1"] = 59 /\ Plain["LeftShift"] = 42
    /\ Plain["RightShift"] = 54 /\ Plain["LeftCtrl"] = 29 /\ Plain["CapsLock"] = 58
    /\ DOMAIN Prefixed = {"RightCtrl", "Up", "Left", "Del"}
    /\ Prefixed["RightCtrl"] = 29 /\ Prefixed["Up"] = 72 /\ Prefixed["Left"] = 75
    /\ Prefixed["Del"] = 83
BY ByteFacts DEF Plain, Prefixed

\* One byte, then two.
LEMMA LeadsByte ==
    ASSUME NEW c, NEW w \in Seq(Byte), NEW d, Leads(c, w, d), NEW b \in Byte
    PROVE  Leads(c, w \o <<b>>, After(d, b)) /\ w \o <<b>> \in Seq(Byte)
<1>1. w \o <<b>> = Append(w, b) BY BytesAppended
<1>2. Append(w, b) \in Seq(Byte) BY AppendProperties
<1>3. Leads(c, Append(w, b), After(d, b)) BY LeadsOn
<1>4. QED BY <1>1, <1>2, <1>3

\* Two bytes.
LEMMA LeadsPair ==
    ASSUME NEW c, NEW w \in Seq(Byte), NEW d, Leads(c, w, d), NEW a \in Byte, NEW b \in Byte
    PROVE  Leads(c, w \o <<a, b>>, After2(d, a, b)) /\ w \o <<a, b>> \in Seq(Byte)
<1>1. Leads(c, Append(w, a), After(d, a)) BY LeadsOn
<1>2. Append(w, a) \in Seq(Byte) BY AppendProperties
<1>3. Leads(c, Append(Append(w, a), b), After2(d, a, b)) BY <1>1, <1>2, LeadsOn DEF After2
<1>4. Append(Append(w, a), b) \in Seq(Byte) BY <1>2, AppendProperties
<1>5. w \o <<a, b>> = Append(Append(w, a), b) BY BytesAppended
<1>6. QED BY <1>3, <1>4, <1>5

\* Four bytes: PrintScreen.
LEMMA LeadsTwoPairs ==
    ASSUME NEW c, NEW w \in Seq(Byte), NEW d, Leads(c, w, d),
           NEW a \in Byte, NEW b \in Byte, NEW x \in Byte, NEW y \in Byte
    PROVE  /\ Leads(c, w \o <<a, b, x, y>>, After2(After2(d, a, b), x, y))
           /\ w \o <<a, b, x, y>> \in Seq(Byte)
<1>1. Leads(c, w \o <<a, b>>, After2(d, a, b)) /\ w \o <<a, b>> \in Seq(Byte) BY LeadsPair
<1>2. /\ Leads(c, (w \o <<a, b>>) \o <<x, y>>, After2(After2(d, a, b), x, y))
      /\ (w \o <<a, b>>) \o <<x, y>> \in Seq(Byte)
  BY <1>1, LeadsPair
<1>3. w \o <<a, b, x, y>> = Append(Append(Append(Append(w, a), b), x), y) BY BytesAppended
<1>4. (w \o <<a, b>>) \o <<x, y>> = Append(Append(w \o <<a, b>>, x), y) BY <1>1, BytesAppended
<1>5. w \o <<a, b>> = Append(Append(w, a), b) BY BytesAppended
<1>6. QED BY <1>2, <1>3, <1>4, <1>5

\* All the bytes of a key, pressed or let go.
LEMMA KeyLeads ==
    ASSUME NEW c, NEW w \in Seq(Byte), NEW d, Leads(c, w, d), NEW k \in AnyKey
    PROVE  /\ Leads(c, w \o PressBytes(k), KeyDown(d, k)) /\ w \o PressBytes(k) \in Seq(Byte)
           /\ Leads(c, w \o ReleaseBytes(k), KeyUp(d, k)) /\ w \o ReleaseBytes(k) \in Seq(Byte)
<1>0. {224, 42, 55, 183, 170} \subseteq Byte BY BytesSent
<1>1. CASE k = "PrintScreen"
  <2>1. PressBytes(k) = <<224, 42, 224, 55>> /\ ReleaseBytes(k) = <<224, 183, 224, 170>>
    BY <1>1, PressSends, ReleaseSends
  <2>2. KeyDown(d, k) = After2(After2(d, 224, 42), 224, 55) BY <1>1 DEF KeyDown
  <2>3. KeyUp(d, k) = After2(After2(d, 224, 183), 224, 170) BY <1>1 DEF KeyUp
  <2>4. QED BY <1>0, <2>1, <2>2, <2>3, LeadsTwoPairs
<1>2. CASE k \in DOMAIN Plain
  <2>0. k # "PrintScreen" BY <1>2, KeyCodes
  <2>1. PressBytes(k) = <<Plain[k]>> /\ ReleaseBytes(k) = <<Plain[k] + 128>>
    BY <1>2, <2>0, ByteFacts DEF PressBytes, ReleaseBytes
  <2>2. KeyDown(d, k) = After(d, Plain[k]) /\ KeyUp(d, k) = After(d, Plain[k] + 128)
    BY <1>2, <2>0 DEF KeyDown, KeyUp
  <2>5. Plain[k] \in {30, 2, 59, 42, 54, 29, 58} BY <1>2, KeyCodes
  <2>6. \A n \in {30, 2, 59, 42, 54, 29, 58} : n \in Byte /\ n + 128 \in Byte BY DEF Byte
  <2>3. Plain[k] \in Byte /\ Plain[k] + 128 \in Byte BY <2>5, <2>6
  <2>4. QED BY <2>1, <2>2, <2>3, LeadsByte
<1>3. CASE k \notin DOMAIN Plain /\ k # "PrintScreen"
  <2>1. PressBytes(k) = <<224, Prefixed[k]>> /\ ReleaseBytes(k) = <<224, Prefixed[k] + 128>>
    BY <1>3, ByteFacts DEF PressBytes, ReleaseBytes
  <2>2. KeyDown(d, k) = After2(d, 224, Prefixed[k]) /\ KeyUp(d, k) = After2(d, 224, Prefixed[k] + 128)
    BY <1>3 DEF KeyDown, KeyUp
  <2>0. k \in {"RightCtrl", "Up", "Left", "Del"} BY <1>3, KeysNamed, KeyCodes
  <2>5. Prefixed[k] \in {29, 72, 75, 83} BY <2>0, KeyCodes
  <2>6. \A n \in {29, 72, 75, 83} : n \in Byte /\ n + 128 \in Byte BY DEF Byte
  <2>3. Prefixed[k] \in Byte /\ Prefixed[k] + 128 \in Byte BY <2>5, <2>6
  <2>4. QED BY <1>0, <2>1, <2>2, <2>3, LeadsPair
<1>4. QED BY <1>1, <1>2, <1>3

-----------------------------------------------------------------------------
\* e is where a settled decoder d is when the bytes of a key have been read.
Pressed(d, k, e) ==
    /\ e.shift <=> (k \in ShiftSetters \/ d.shift)
    /\ e.ctrl <=> (k \in CtrlKeys \/ d.ctrl)
    /\ e.caps <=> (d.caps # (k = "CapsLock"))
    /\ ~ e.ext
    /\ e.out = d.out \o Says(d, k)

\* The same, let go.
LetUp(d, k, e) ==
    /\ e.shift <=> (k \notin ShiftSetters /\ d.shift)
    /\ e.ctrl <=> (k \notin CtrlKeys /\ d.ctrl)
    /\ e.caps <=> d.caps
    /\ ~ e.ext
    /\ e.out = d.out

\* Keys that are no characters leave the history.
LEMMA SaysNothing ==
    ASSUME NEW d \in Decoders, NEW k \in AnyKey \ {"A", "One", "Up", "Left"}
    PROVE  d.out \o Says(d, k) = d.out
<1>1. Says(d, k) = <<>> BY DEF Says
<1>2. QED BY <1>1, NothingPut

\* A plain letter, digit or function key; a prefixed one.
LEMMA OrdinaryDown ==
    ASSUME NEW d \in Decoders, NEW k \in AnyKey, k \notin ShiftSetters, k \notin CtrlKeys,
           k # "CapsLock",
           NEW b \in {30, 2, 59, 72, 75, 83, 55} \cup {158, 130, 187, 186, 200, 203, 211, 183},
           Puts(d, b) = Says(d, k)
    PROVE  Pressed(d, k, After(d, b))
<1> DEFINE e == After(d, b)
<1>1. /\ e.shift = d.shift /\ e.caps = d.caps /\ e.ctrl = d.ctrl /\ ~ e.ext
      /\ e.out = d.out \o Puts(d, b)
  <2>1. ~ IsShift(b) /\ ~ IsCtrl(b) /\ ~ IsCapsPress(b) /\ b # 224 BY KindsOfBytes
  <2>2. /\ e.shift = d.shift /\ e.caps = d.caps /\ e.ctrl = d.ctrl
        /\ e.out = d.out \o Puts(d, b)
    BY <2>1, AfterFields
  <2>3. e.ext = (b = 224) BY AfterFields
  <2>4. ~ e.ext BY <2>1, <2>3
  <2>5. QED BY <2>2, <2>4
<1>2. d.shift \in BOOLEAN /\ d.caps \in BOOLEAN /\ d.ctrl \in BOOLEAN BY DEF Decoders
<1> HIDE DEF e
<1>3. e.out = d.out \o Says(d, k) BY <1>1
<1>4. e.caps <=> (d.caps # (k = "CapsLock")) BY <1>1, <1>2
<1>5. e.shift <=> (k \in ShiftSetters \/ d.shift) BY <1>1
<1>6. e.ctrl <=> (k \in CtrlKeys \/ d.ctrl) BY <1>1
<1>7. QED BY <1>1, <1>3, <1>4, <1>5, <1>6 DEF Pressed, e

\* The bytes of a press take a settled decoder to a settled one, with the modifier set.
LEMMA KeyDownIs ==
    ASSUME NEW d \in Decoders, ~ d.ext, NEW k \in AnyKey
    PROVE  Pressed(d, k, KeyDown(d, k))
<1>0. d.shift \in BOOLEAN /\ d.caps \in BOOLEAN /\ d.ctrl \in BOOLEAN BY DEF Decoders
<1> DEFINE p == After(d, 224)
<1>1. p.shift = d.shift /\ p.caps = d.caps /\ p.ctrl = d.ctrl /\ p.ext /\ p.out = d.out
  BY AfterPrefix
<1>2. p \in Decoders BY AfterDecoder, ByteFacts
<1>3. CASE k \in {"LeftShift", "RightShift"}
  <2>1. PICK b \in {42, 54} : KeyDown(d, k) = After(d, b)
    BY <1>3, KeyCodes DEF KeyDown
  <2>2. k \in ShiftSetters /\ k \notin CtrlKeys /\ k # "CapsLock"
    BY <1>3 DEF ShiftSetters, ShiftKeys, CtrlKeys
  <2> DEFINE e == After(d, b)
  <2>3. b \in {42, 54, 170, 182} OBVIOUS
  <2>4. e.shift /\ e.caps = d.caps /\ e.ctrl = d.ctrl /\ ~ e.ext /\ e.out = d.out
    BY <2>3, AfterShift
  <2> HIDE DEF e
  <2>5. e.out = d.out \o Says(d, k) BY <1>3, <2>4, SaysNothing
  <2>6. e.caps <=> (d.caps # (k = "CapsLock")) BY <1>0, <2>2, <2>4
  <2>7. e.ctrl <=> (k \in CtrlKeys \/ d.ctrl) BY <2>2, <2>4
  <2>8. Pressed(d, k, e) BY <2>2, <2>4, <2>5, <2>6, <2>7 DEF Pressed
  <2>9. QED BY <2>1, <2>8 DEF e
<1>4. CASE k = "LeftCtrl"
  <2>1. KeyDown(d, k) = After(d, 29) BY <1>4, KeyCodes DEF KeyDown
  <2>2. k \notin ShiftSetters /\ k \in CtrlKeys /\ k # "CapsLock"
    BY <1>4 DEF ShiftSetters, ShiftKeys, CtrlKeys
  <2> DEFINE e == After(d, 29)
  <2>4. e.shift = d.shift /\ e.caps = d.caps /\ e.ctrl /\ ~ e.ext /\ e.out = d.out
    BY AfterCtrl
  <2> HIDE DEF e
  <2>5. e.out = d.out \o Says(d, k) BY <1>4, <2>4, SaysNothing
  <2>6. e.caps <=> (d.caps # (k = "CapsLock")) BY <1>0, <2>2, <2>4
  <2>7. e.shift <=> (k \in ShiftSetters \/ d.shift) BY <2>2, <2>4
  <2>8. Pressed(d, k, e) BY <2>2, <2>4, <2>5, <2>6, <2>7 DEF Pressed
  <2>9. QED BY <2>1, <2>8 DEF e
<1>5. CASE k = "RightCtrl"
  <2>1. KeyDown(d, k) = After(p, 29) BY <1>5, KeyCodes DEF KeyDown, After2
  <2>2. k \notin ShiftSetters /\ k \in CtrlKeys /\ k # "CapsLock"
    BY <1>5 DEF ShiftSetters, ShiftKeys, CtrlKeys
  <2> DEFINE e == After(p, 29)
  <2> HIDE DEF p
  <2>4. e.shift = p.shift /\ e.caps = p.caps /\ e.ctrl /\ ~ e.ext /\ e.out = p.out
    BY <1>2, AfterCtrl
  <2> HIDE DEF e
  <2>5. e.out = d.out \o Says(d, k) BY <1>1, <1>5, <2>4, SaysNothing
  <2>6. e.caps <=> (d.caps # (k = "CapsLock")) BY <1>0, <1>1, <2>2, <2>4
  <2>7. e.shift <=> (k \in ShiftSetters \/ d.shift) BY <1>1, <2>2, <2>4
  <2>8. Pressed(d, k, e) BY <2>2, <2>4, <2>5, <2>6, <2>7 DEF Pressed
  <2>9. QED BY <2>1, <2>8 DEF e
<1>6. CASE k = "CapsLock"
  <2>1. KeyDown(d, k) = After(d, 58) BY <1>6, KeyCodes DEF KeyDown
  <2>2. k \notin ShiftSetters /\ k \notin CtrlKeys
    BY <1>6 DEF ShiftSetters, ShiftKeys, CtrlKeys
  <2> DEFINE e == After(d, 58)
  <2>4. e.shift = d.shift /\ e.caps = ~ d.caps /\ e.ctrl = d.ctrl /\ ~ e.ext /\ e.out = d.out
    BY AfterCaps
  <2> HIDE DEF e
  <2>5. e.out = d.out \o Says(d, k) BY <1>6, <2>4, SaysNothing
  <2>6. e.caps <=> (d.caps # (k = "CapsLock")) BY <1>0, <1>6, <2>4
  <2>7. e.shift <=> (k \in ShiftSetters \/ d.shift) BY <2>2, <2>4
  <2>3. e.ctrl <=> (k \in CtrlKeys \/ d.ctrl) BY <2>2, <2>4
  <2>8. Pressed(d, k, e) BY <2>3, <2>4, <2>5, <2>6, <2>7 DEF Pressed
  <2>9. QED BY <2>1, <2>8 DEF e
<1>7. CASE k \in {"A", "One", "F1"}
  <2>1. k \notin ShiftSetters /\ k \notin CtrlKeys /\ k # "CapsLock"
    BY <1>7 DEF ShiftSetters, ShiftKeys, CtrlKeys
  <2>2. k = "F1" => Says(d, k) = <<>> BY DEF Says
  <2>3. PICK b \in {30, 2, 59} : KeyDown(d, k) = After(d, b) /\ Puts(d, b) = Says(d, k)
    BY <1>7, <2>2, KeyCodes, PutsOfKeys DEF KeyDown
  <2>4. QED BY <2>1, <2>3, OrdinaryDown
<1>8. CASE k \in {"Up", "Left", "Del"}
  <2>1. k \notin ShiftSetters /\ k \notin CtrlKeys /\ k # "CapsLock"
    BY <1>8 DEF ShiftSetters, ShiftKeys, CtrlKeys
  <2>2. Says(p, k) = Says(d, k) /\ (k = "Del" => Says(p, k) = <<>>) BY <1>8 DEF Says
  <2> HIDE DEF p
  <2>5. KeyDown(d, k) = After(p, Prefixed[k]) BY <1>8, KeyCodes DEF KeyDown, After2, p
  <2>3. PICK b \in {72, 75, 83} : KeyDown(d, k) = After(p, b) /\ Puts(p, b) = Says(p, k)
    BY <1>1, <1>2, <1>8, <2>2, <2>5, KeyCodes, PutsOfKeys
  <2>4. Pressed(p, k, After(p, b)) BY <1>2, <2>1, <2>3, OrdinaryDown
  <2>6. QED BY <1>1, <2>2, <2>3, <2>4 DEF Pressed
<1>9. CASE k = "PrintScreen"
  <2> DEFINE q == After(p, 42)
             r == After(q, 224)
             e == After(r, 55)
  <2> HIDE DEF p
  <2>1. q.shift /\ q.caps = p.caps /\ q.ctrl = p.ctrl /\ q.out = p.out BY <1>2, AfterShift
  <2>2. q \in Decoders BY <1>2, AfterDecoder, BytesSent
  <2> HIDE DEF q
  <2>3. r.shift = q.shift /\ r.caps = q.caps /\ r.ctrl = q.ctrl /\ r.ext /\ r.out = q.out
    BY <2>2, AfterPrefix
  <2>4. r \in Decoders BY <2>2, AfterDecoder, BytesSent
  <2> HIDE DEF r
  <2>5. /\ e.shift = r.shift /\ e.caps = r.caps /\ e.ctrl = r.ctrl /\ ~ e.ext
        /\ e.out = r.out \o Puts(r, 55)
    <3>1. Ordinary(r, 55, e) BY <2>4, AfterOrdinary
    <3>2. QED BY <3>1 DEF Ordinary
  <2>6. Puts(r, 55) = <<>> BY <2>3, <2>4, PutsOfKeys
  <2> HIDE DEF e
  <2>7. e.out = r.out BY <2>4, <2>5, <2>6, NothingPut
  <2>8. k \in ShiftSetters /\ k \notin CtrlKeys /\ k # "CapsLock"
    BY <1>9 DEF ShiftSetters, ShiftKeys, CtrlKeys
  <2>9. e.out = d.out \o Says(d, k) BY <1>1, <1>9, <2>1, <2>3, <2>7, SaysNothing
  <2>10. e.caps <=> (d.caps # (k = "CapsLock")) BY <1>0, <1>1, <2>1, <2>3, <2>5, <2>8
  <2>11. e.shift BY <2>1, <2>3, <2>5
  <2>12. e.ctrl <=> (k \in CtrlKeys \/ d.ctrl) BY <1>1, <2>1, <2>3, <2>5, <2>8
  <2>13. Pressed(d, k, e) BY <2>5, <2>8, <2>9, <2>10, <2>11, <2>12 DEF Pressed
  <2>14. KeyDown(d, k) = e BY <1>9 DEF KeyDown, After2, e, r, q, p
  <2>15. QED BY <2>13, <2>14
<1>10. QED BY <1>3, <1>4, <1>5, <1>6, <1>7, <1>8, <1>9, KeysNamed

\* Those of a release too, with the modifier cleared.
LEMMA KeyUpIs ==
    ASSUME NEW d \in Decoders, ~ d.ext, NEW k \in AnyKey
    PROVE  LetUp(d, k, KeyUp(d, k))
<1> DEFINE p == After(d, 224)
<1>1. p.shift = d.shift /\ p.caps = d.caps /\ p.ctrl = d.ctrl /\ p.ext /\ p.out = d.out
  BY AfterPrefix
<1>2. p \in Decoders BY AfterDecoder, ByteFacts
<1>3. ASSUME NEW x \in Decoders, NEW b \in {158, 130, 187, 186, 200, 203, 211, 183}
      PROVE  LET e == After(x, b)
             IN  e.shift = x.shift /\ e.caps = x.caps /\ e.ctrl = x.ctrl /\ ~ e.ext /\ e.out = x.out
  <2> DEFINE e == After(x, b)
  <2>1. /\ e.shift = x.shift /\ e.caps = x.caps /\ e.ctrl = x.ctrl /\ ~ e.ext
        /\ e.out = x.out \o Puts(x, b)
    <3>1. b \in {30, 2, 59, 72, 75, 83, 55} \cup {158, 130, 187, 186, 200, 203, 211, 183} BY <1>3
    <3>2. Ordinary(x, b, e) BY <1>3, <3>1, AfterOrdinary
    <3>3. QED BY <3>2 DEF Ordinary
  <2>2. Puts(x, b) = <<>> BY <1>3, PutsOfKeys
  <2> HIDE DEF e
  <2>3. e.out = x.out BY <2>1, <2>2, NothingPut
  <2>4. QED BY <2>1, <2>3 DEF e
<1>4. CASE k \in {"LeftShift", "RightShift"}
  <2>1. PICK b \in {170, 182} : KeyUp(d, k) = After(d, b) BY <1>4, KeyCodes DEF KeyUp
  <2>2. k \in ShiftSetters /\ k \notin CtrlKeys BY <1>4 DEF ShiftSetters, ShiftKeys, CtrlKeys
  <2>3. b \in {42, 54, 170, 182} /\ b \notin {42, 54} OBVIOUS
  <2> DEFINE e == After(d, b)
  <2>4. ~ e.shift /\ e.caps = d.caps /\ e.ctrl = d.ctrl /\ ~ e.ext /\ e.out = d.out
    BY <2>3, AfterShift
  <2> HIDE DEF e
  <2>5. LetUp(d, k, e) BY <2>2, <2>4 DEF LetUp
  <2>6. QED BY <2>1, <2>5 DEF e
<1>5. CASE k \in CtrlKeys
  <2>0. k \in {"LeftCtrl", "RightCtrl"} /\ k \notin ShiftSetters
    BY <1>5 DEF ShiftSetters, ShiftKeys, CtrlKeys
  <2> HIDE DEF p
  <2>1. KeyUp(d, k) = After(d, 157) \/ KeyUp(d, k) = After(p, 157)
    BY <2>0, KeyCodes DEF KeyUp, After2, p
  <2>2. ASSUME NEW x \in {d, p} PROVE LetUp(d, k, After(x, 157))
    <3> DEFINE e == After(x, 157)
    <3>1. x \in Decoders BY <1>2
    <3>2. e.shift = x.shift /\ e.caps = x.caps /\ ~ e.ctrl /\ ~ e.ext /\ e.out = x.out
      BY <3>1, AfterCtrl
    <3> HIDE DEF e
    <3>3. e.shift = d.shift /\ e.caps = d.caps /\ e.out = d.out BY <1>1, <3>2
    <3>4. LetUp(d, k, e) BY <1>5, <2>0, <3>2, <3>3 DEF LetUp
    <3>5. QED BY <3>4 DEF e
  <2>3. QED BY <2>1, <2>2
<1>6. CASE k \in {"A", "One", "F1", "CapsLock", "Up", "Left", "Del"}
  <2>0. k \notin ShiftSetters /\ k \notin CtrlKeys BY <1>6 DEF ShiftSetters, ShiftKeys, CtrlKeys
  <2> HIDE DEF p
  <2>1. PICK x \in {d, p}, b \in {158, 130, 187, 186, 200, 203, 211} : KeyUp(d, k) = After(x, b)
    BY <1>6, KeyCodes DEF KeyUp, After2, p
  <2> DEFINE e == After(x, b)
  <2>2. x \in Decoders /\ b \in {158, 130, 187, 186, 200, 203, 211, 183} BY <1>2
  <2>3. e.shift = x.shift /\ e.caps = x.caps /\ e.ctrl = x.ctrl /\ ~ e.ext /\ e.out = x.out
    BY <1>3, <2>2
  <2> HIDE DEF e
  <2>4. e.shift = d.shift /\ e.caps = d.caps /\ e.ctrl = d.ctrl /\ e.out = d.out BY <1>1, <2>3
  <2>5. LetUp(d, k, e) BY <2>0, <2>3, <2>4 DEF LetUp
  <2>6. QED BY <2>1, <2>5 DEF e
<1>7. CASE k = "PrintScreen"
  <2> DEFINE q == After(p, 183)
             r == After(q, 224)
             e == After(r, 170)
  <2> HIDE DEF p
  <2>1. q.caps = p.caps /\ q.ctrl = p.ctrl /\ q.out = p.out BY <1>2, <1>3
  <2>2. q \in Decoders BY <1>2, AfterDecoder, BytesSent
  <2> HIDE DEF q
  <2>3. r.caps = q.caps /\ r.ctrl = q.ctrl /\ r.out = q.out BY <2>2, AfterPrefix
  <2>4. r \in Decoders BY <2>2, AfterDecoder, BytesSent
  <2> HIDE DEF r
  <2>5. 170 \in {42, 54, 170, 182} /\ 170 \notin {42, 54} OBVIOUS
  <2>6. ~ e.shift /\ e.caps = r.caps /\ e.ctrl = r.ctrl /\ ~ e.ext /\ e.out = r.out
    BY <2>4, <2>5, AfterShift
  <2> HIDE DEF e
  <2>7. k \in ShiftSetters /\ k \notin CtrlKeys BY <1>7 DEF ShiftSetters, ShiftKeys, CtrlKeys
  <2>8. e.caps = d.caps /\ e.ctrl = d.ctrl /\ e.out = d.out BY <1>1, <2>1, <2>3, <2>6
  <2>9. LetUp(d, k, e) BY <2>6, <2>7, <2>8 DEF LetUp
  <2>10. KeyUp(d, k) = e BY <1>7 DEF KeyUp, After2, e, r, q, p
  <2>11. QED BY <2>9, <2>10
<1>8. QED BY <1>4, <1>5, <1>6, <1>7, KeysNamed DEF CtrlKeys

-----------------------------------------------------------------------------
(* The inductive invariant *)

\* Once the bytes of the wire have been read, the decoder knows of the person's
\* hands what its flags can say.
Agrees(d) ==
    /\ ~ d.ext
    /\ d.caps <=> caps_on
    /\ d.shift => held \cap ShiftSetters # {}
    /\ d.ctrl => held \cap CtrlKeys # {}

\* On an unambiguous keyboard it knows all that the keys mean.
Knows(d) ==
    /\ d.out = typed
    /\ "A" \in keyboard => (held \cap CtrlKeys # {} => d.ctrl)
    /\ keyboard \cap {"A", "One"} # {} => (held \cap ShiftKeys # {} => d.shift)

\* The keys that are down are of the keyboard in use.
HandsOK ==
    /\ keyboard \in Keyboards
    /\ held \subseteq keyboard
    /\ caps_on \in BOOLEAN
    /\ caps_on => "CapsLock" \in keyboard

\* The end of the wire agrees with the hands.
IInv ==
    /\ HandsOK
    /\ wire \in Seq(Byte)
    /\ \E d : /\ Leads(Now, wire, d)
              /\ Agrees(d)
              /\ Unambiguous(keyboard) => Knows(d)

\* On such a keyboard a key means what the driver makes of it.
LEMMA SaysMeaning ==
    ASSUME HandsOK, Unambiguous(keyboard), NEW d \in Decoders, Agrees(d), Knows(d),
           NEW k \in keyboard
    PROVE  Says(d, k) = Meaning(k)
<1> DEFINE shift == held \cap ShiftKeys # {}
           ctrl == held \cap CtrlKeys # {}
<1>1. d.shift \in BOOLEAN /\ d.ctrl \in BOOLEAN /\ d.caps \in BOOLEAN BY DEF Decoders
<1>2. keyboard \cap {"A", "One"} # {} => (d.shift <=> shift)
  <2> SUFFICES ASSUME keyboard \cap {"A", "One"} # {} PROVE d.shift <=> shift OBVIOUS
  <2>1. "PrintScreen" \notin held BY DEF Unambiguous, HandsOK
  <2>2. held \cap ShiftSetters = held \cap ShiftKeys BY <2>1 DEF ShiftSetters
  <2>3. QED BY <2>2 DEF Agrees, Knows
<1>3. "A" \in keyboard => (d.ctrl <=> ctrl) BY DEF Agrees, Knows
<1>4. "A" \in keyboard => ~ (caps_on /\ shift) BY DEF Unambiguous, HandsOK
<1>5. Plain.A = 30 /\ Plain.One = 2 /\ Prefixed.Up = 72 /\ Prefixed.Left = 75 BY KeyCodes
<1> DEFINE table(upper) == IF upper THEN "shifted" ELSE "plain"
<1>6. CASE k = "A"
  <2>1. (d.ctrl <=> ctrl) /\ (d.shift <=> shift) /\ (d.caps <=> caps_on) /\ ~ (caps_on /\ shift)
    BY <1>2, <1>3, <1>4, <1>6 DEF Agrees
  <2>2. CASE ctrl
    <3>1. Meaning(k) = <<<<"control", 30>>>> BY <1>5, <1>6, <2>2 DEF Meaning
    <3>2. Says(d, k) = <<<<"control", 30>>>> BY <1>6, <2>1, <2>2 DEF Says
    <3>3. QED BY <3>1, <3>2
  <2>3. CASE ~ ctrl
    <3>1. Meaning(k) = <<<<table(shift # caps_on), 30>>>> BY <1>5, <1>6, <2>3 DEF Meaning
    <3>2. Says(d, k) = <<<<table(d.shift \/ d.caps), 30>>>> BY <1>6, <2>1, <2>3 DEF Says
    <3>3. (shift # caps_on) <=> (d.shift \/ d.caps)
      BY <1>1, <2>1 DEF HandsOK
    <3>4. table(shift # caps_on) = table(d.shift \/ d.caps) BY <3>3
    <3>5. QED BY <3>1, <3>2, <3>4
  <2>4. QED BY <2>2, <2>3
<1>7. CASE k = "One"
  <2>1. d.shift <=> shift BY <1>2, <1>7
  <2>2. Meaning(k) = <<<<table(shift), 2>>>> BY <1>5, <1>7 DEF Meaning
  <2>3. Says(d, k) = <<<<table(d.shift), 2>>>> BY <1>7 DEF Says
  <2>4. table(shift) = table(d.shift) BY <2>1
  <2>5. QED BY <2>2, <2>3, <2>4
<1>8. CASE k \in {"Up", "Left"}
  BY <1>5, <1>8, KeyCodes DEF Meaning, Says
<1>9. CASE k \notin {"A", "One", "Up", "Left"}
  BY <1>9 DEF Meaning, Says
<1>10. QED BY <1>6, <1>7, <1>8, <1>9

\* Before the first key.
LEMMA InitIInv == Init => IInv
<1> SUFFICES ASSUME Init PROVE IInv OBVIOUS
<1>1. HandsOK BY DEF Init, HandsOK
<1>2. wire = <<>> /\ wire \in Seq(Byte) BY DEF Init
<1>3. Now \in Decoders /\ Now.out = <<>> /\ ~ Now.ext /\ ~ Now.caps /\ ~ Now.shift /\ ~ Now.ctrl
  <2>1. Now = [shift |-> FALSE, caps |-> FALSE, ctrl |-> FALSE, ext |-> FALSE, out |-> <<>>]
    BY DEF Init, FlagsInit, Now
  <2>2. <<>> \in Seq(Key) OBVIOUS
  <2>3. QED BY <2>1, <2>2 DEF Decoders
<1>4. Leads(Now, wire, Now) BY <1>2, <1>3, LeadsNowhere
<1>5. Agrees(Now) BY <1>3 DEF Agrees, Init
<1>6. Knows(Now) BY <1>3 DEF Knows, Init
<1>7. QED BY <1>1, <1>2, <1>4, <1>5, <1>6 DEF IInv

\* A press moves the end of the wire on by one key, as it moves what was typed.
LEMMA PressKeeps == ASSUME IInv, NEW k \in keyboard, Press(k) PROVE IInv'
<1>1. /\ HandsOK /\ wire \in Seq(Byte) /\ k \in AnyKey
      /\ \E d : Leads(Now, wire, d) /\ Agrees(d) /\ (Unambiguous(keyboard) => Knows(d))
  BY KeyboardsAssumption DEF IInv, HandsOK
<1>2. PICK d : Leads(Now, wire, d) /\ Agrees(d) /\ (Unambiguous(keyboard) => Knows(d))
  BY <1>1
<1>3. /\ held' = held \cup {k} /\ caps_on' = (caps_on # (k = "CapsLock"))
      /\ wire' = wire \o PressBytes(k) /\ typed' = typed \o Meaning(k)
      /\ keyboard' = keyboard /\ Now' = Now
  BY DEF Press, flags, Now
<1> DEFINE e == KeyDown(d, k)
<1>4. d \in Decoders BY <1>1, <1>2, LedIsDecoder
<1>5. ~ d.ext BY <1>2 DEF Agrees
<1>6. Pressed(d, k, e) BY <1>1, <1>4, <1>5, KeyDownIs
<1>7. Leads(Now, wire', e) /\ wire' \in Seq(Byte) BY <1>1, <1>2, <1>3, KeyLeads
<1> HIDE DEF e
<1>8. HandsOK'
  <2>1. caps_on' \in BOOLEAN BY <1>3
  <2>2. held' \subseteq keyboard' BY <1>1, <1>3 DEF HandsOK
  <2>3. caps_on' => "CapsLock" \in keyboard'
    <3>1. CASE k = "CapsLock" BY <1>3, <3>1
    <3>2. CASE k # "CapsLock"
      <4>1. k = "CapsLock" <=> FALSE BY <3>2
      <4>2. caps_on' <=> caps_on BY <1>1, <1>3, <4>1 DEF HandsOK
      <4>3. QED BY <1>1, <1>3, <4>2 DEF HandsOK
    <3>3. QED BY <3>1, <3>2
  <2>4. QED BY <1>1, <1>3, <2>1, <2>2, <2>3 DEF HandsOK
<1>9. Agrees(e)'
  <2>1. ~ e.ext BY <1>6 DEF Pressed
  <2>2. e.caps <=> caps_on'
    <3>1. caps_on \in BOOLEAN /\ d.caps \in BOOLEAN BY <1>1, <1>4 DEF HandsOK, Decoders
    <3>2. d.caps <=> caps_on BY <1>2 DEF Agrees
    <3>3. d.caps = caps_on BY <3>1, <3>2
    <3>4. caps_on' = (d.caps # (k = "CapsLock")) BY <1>3, <3>3
    <3>5. e.caps <=> (d.caps # (k = "CapsLock")) BY <1>6 DEF Pressed
    <3>6. QED BY <3>4, <3>5
  <2>3. e.shift => held' \cap ShiftSetters # {} BY <1>2, <1>3, <1>6 DEF Agrees, Pressed
  <2>4. e.ctrl => held' \cap CtrlKeys # {} BY <1>2, <1>3, <1>6 DEF Agrees, Pressed
  <2>5. QED BY <2>1, <2>2, <2>3, <2>4 DEF Agrees
<1>10. ASSUME Unambiguous(keyboard) PROVE Knows(e)'
  <2>1. Knows(d) BY <1>2, <1>10
  <2>2. Says(d, k) = Meaning(k) BY <1>1, <1>2, <1>4, <1>10, <2>1, SaysMeaning
  <2>3. e.out = typed' BY <1>3, <1>6, <2>1, <2>2 DEF Pressed, Knows
  <2>4. "A" \in keyboard => (held' \cap CtrlKeys # {} => e.ctrl)
    BY <1>3, <1>6, <2>1 DEF Pressed, Knows
  <2>5. keyboard \cap {"A", "One"} # {} => (held' \cap ShiftKeys # {} => e.shift)
    BY <1>3, <1>6, <2>1 DEF Pressed, Knows, ShiftSetters
  <2>6. QED BY <1>3, <2>3, <2>4, <2>5 DEF Knows
<1>11. (Unambiguous(keyboard) => Knows(e))' BY <1>3, <1>10
<1>12. Leads(Now, wire, e)' BY <1>3, <1>7
<1>13. QED BY <1>7, <1>8, <1>9, <1>11, <1>12 DEF IInv

\* A release clears what no other key that is down could still mean.
LEMMA LetGoKeeps == ASSUME IInv, NEW k \in keyboard, LetGo(k) PROVE IInv'
<1>1. /\ HandsOK /\ wire \in Seq(Byte) /\ k \in AnyKey
      /\ \E d : Leads(Now, wire, d) /\ Agrees(d) /\ (Unambiguous(keyboard) => Knows(d))
  BY KeyboardsAssumption DEF IInv, HandsOK
<1>2. PICK d : Leads(Now, wire, d) /\ Agrees(d) /\ (Unambiguous(keyboard) => Knows(d))
  BY <1>1
<1>3. /\ held' = held \ {k} /\ caps_on' = caps_on
      /\ wire' = wire \o ReleaseBytes(k) /\ typed' = typed
      /\ keyboard' = keyboard /\ Now' = Now
  BY DEF LetGo, flags, Now
<1> DEFINE e == KeyUp(d, k)
<1>4. d \in Decoders BY <1>1, <1>2, LedIsDecoder
<1>5. ~ d.ext BY <1>2 DEF Agrees
<1>6. LetUp(d, k, e) BY <1>1, <1>4, <1>5, KeyUpIs
<1>7. Leads(Now, wire', e) /\ wire' \in Seq(Byte) BY <1>1, <1>2, <1>3, KeyLeads
<1> HIDE DEF e
<1>8. HandsOK' BY <1>1, <1>3 DEF HandsOK
<1>9. Agrees(e)'
  <2>1. ~ e.ext BY <1>6 DEF LetUp
  <2>2. e.caps <=> caps_on' BY <1>2, <1>3, <1>6 DEF Agrees, LetUp
  <2>3. e.shift => held' \cap ShiftSetters # {} BY <1>2, <1>3, <1>6 DEF Agrees, LetUp
  <2>4. e.ctrl => held' \cap CtrlKeys # {} BY <1>2, <1>3, <1>6 DEF Agrees, LetUp
  <2>5. QED BY <2>1, <2>2, <2>3, <2>4 DEF Agrees
<1>10. ASSUME Unambiguous(keyboard) PROVE Knows(e)'
  <2>1. Knows(d) BY <1>2, <1>10
  <2>2. e.out = typed' BY <1>3, <1>6, <2>1 DEF LetUp, Knows
  <2>3. "A" \in keyboard => (held' \cap CtrlKeys # {} => e.ctrl)
    <3> SUFFICES ASSUME "A" \in keyboard, held' \cap CtrlKeys # {} PROVE e.ctrl OBVIOUS
    <3>1. d.ctrl BY <1>3, <2>1 DEF Knows
    <3>2. ~ CtrlKeys \subseteq keyboard BY <1>10 DEF Unambiguous
    <3>3. k \notin CtrlKeys BY <1>1, <1>3, <3>2 DEF CtrlKeys, HandsOK
    <3>4. QED BY <1>6, <3>1, <3>3 DEF LetUp
  <2>4. keyboard \cap {"A", "One"} # {} => (held' \cap ShiftKeys # {} => e.shift)
    <3> SUFFICES ASSUME keyboard \cap {"A", "One"} # {}, held' \cap ShiftKeys # {} PROVE e.shift
      OBVIOUS
    <3>1. d.shift BY <1>3, <2>1 DEF Knows
    <3>2. ~ ShiftKeys \subseteq keyboard /\ "PrintScreen" \notin keyboard
      BY <1>10 DEF Unambiguous
    <3>3. k \notin ShiftSetters BY <1>1, <1>3, <3>2 DEF ShiftKeys, ShiftSetters, HandsOK
    <3>4. QED BY <1>6, <3>1, <3>3 DEF LetUp
  <2>5. QED BY <1>3, <2>2, <2>3, <2>4 DEF Knows
<1>11. (Unambiguous(keyboard) => Knows(e))' BY <1>3, <1>10
<1>12. Leads(Now, wire, e)' BY <1>3, <1>7
<1>13. QED BY <1>7, <1>8, <1>9, <1>11, <1>12 DEF IInv

\* Reading a byte leaves the end of the wire where it is.
LEMMA CallbackKeeps == ASSUME IInv, keyboard_callback PROVE IInv'
<1>1. HandsOK /\ wire \in Seq(Byte) BY DEF IInv
<1>2. PICK d : Leads(Now, wire, d) /\ Agrees(d) /\ (Unambiguous(keyboard) => Knows(d))
  BY DEF IInv
<1>3. /\ wire # <<>> /\ wire' = Tail(wire)
      /\ keyboard' = keyboard /\ held' = held /\ caps_on' = caps_on /\ typed' = typed
  BY DEF keyboard_callback
<1>4. Now \in Decoders BY <1>1, <1>2, LedIsDecoder
<1>5. Head(wire) \in Byte /\ Tail(wire) \in Seq(Byte) BY <1>1, <1>3, HeadTailProperties
<1>6. Now' = After(Now, Head(wire)) BY <1>4, <1>5, DecodeIsAfter DEF keyboard_callback
<1>7. Leads(Now', wire', d) BY <1>1, <1>2, <1>3, <1>6, LeadsFrom
<1>8. HandsOK' /\ Agrees(d)' /\ (Unambiguous(keyboard) => Knows(d))'
  BY <1>1, <1>2, <1>3 DEF HandsOK, Agrees, Knows
<1>9. QED BY <1>3, <1>5, <1>7, <1>8 DEF IInv

\* Every step.
LEMMA StepIInv == IInv /\ [Next]_vars => IInv'
<1> SUFFICES ASSUME IInv, [Next]_vars PROVE IInv' OBVIOUS
<1>1. ASSUME NEW k \in keyboard, Press(k) PROVE IInv' BY <1>1, PressKeeps
<1>2. ASSUME NEW k \in keyboard, LetGo(k) PROVE IInv' BY <1>2, LetGoKeeps
<1>3. CASE keyboard_callback BY <1>3, CallbackKeeps
<1>4. CASE UNCHANGED vars
  <2>1. /\ Now' = Now /\ wire' = wire /\ keyboard' = keyboard /\ held' = held
        /\ caps_on' = caps_on /\ typed' = typed
    BY <1>4 DEF vars, flags, Now
  <2>2. HandsOK' /\ wire' \in Seq(Byte) BY <2>1 DEF IInv, HandsOK
  <2>3. PICK d : Leads(Now, wire, d) /\ Agrees(d) /\ (Unambiguous(keyboard) => Knows(d))
    BY DEF IInv
  <2>4. Leads(Now, wire, d)' /\ Agrees(d)' /\ (Unambiguous(keyboard) => Knows(d))'
    BY <2>1, <2>3 DEF Agrees, Knows
  <2>5. QED BY <2>2, <2>4 DEF IInv
<1>5. QED BY <1>1, <1>2, <1>3, <1>4 DEF Next

\* The inductive invariant holds in every reachable state.
LEMMA SpecIInv == Spec => []IInv
BY InitIInv, StepIInv, PTL DEF Spec

-----------------------------------------------------------------------------
(* Results *)

\* In whatever order keys go down, repeat and come up, on whatever keyboard: when all their
\* bytes have been read, no modifier is on without a key that sets it, and no prefix is
\* left over (keyboard_callback).
THEOREM NoModifierStuck == Spec => []NoStuckModifier
<1>1. IInv => NoStuckModifier
  <2> SUFFICES ASSUME IInv, wire = <<>>
               PROVE  /\ shift_pressed => held \cap (ShiftKeys \cup {"PrintScreen"}) # {}
                      /\ ctrl_pressed => held \cap CtrlKeys # {}
                      /\ ~ extended
    BY DEF NoStuckModifier
  <2>1. PICK d : Leads(Now, wire, d) /\ Agrees(d) BY DEF IInv
  <2>2. d = Now BY <2>1, LedNowhere
  <2>3. Agrees(Now) BY <2>1, <2>2
  <2>4. Now.shift = shift_pressed /\ Now.ctrl = ctrl_pressed /\ Now.ext = extended BY DEF Now
  <2>5. QED BY <2>3, <2>4 DEF Agrees, ShiftSetters
<1>2. QED BY <1>1, SpecIInv, PTL

\* The ring buffer gets what was typed, key for key and in order, on every keyboard whose
\* modifiers the driver can tell apart (keyboard_callback, map_scancode_to_char).
THEOREM EmittedIsWhatWasTyped ==
    ASSUME \A kb \in Keyboards : Unambiguous(kb)
    PROVE  Spec => []EmittedIsTyped
<1>1. IInv => EmittedIsTyped
  <2> SUFFICES ASSUME IInv PROVE EmittedIsTyped OBVIOUS
  <2>0. wire \in Seq(Byte) /\ Unambiguous(keyboard) BY DEF IInv, HandsOK
  <2>1. PICK d : Leads(Now, wire, d) /\ Knows(d) BY <2>0 DEF IInv
  <2>2. d.out = typed /\ Now.out = emitted BY <2>1 DEF Knows, Now
  <2>3. IsPrefix(emitted, typed)
    <3>1. IsPrefix(Now.out, d.out) BY <2>0, <2>1, LedIsDecoder
    <3>2. QED BY <2>2, <3>1
  <2>4. wire = <<>> => emitted = typed
    <3>1. wire = <<>> => Now = d BY <2>1, LedNowhere
    <3>2. QED BY <2>2, <3>1
  <2>5. QED BY <2>3, <2>4 DEF EmittedIsTyped
<1>2. QED BY <1>1, SpecIInv, PTL
=============================================================================
