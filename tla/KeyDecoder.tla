----------------------------- MODULE KeyDecoder -----------------------------
(***************************************************************************)
(* The scancode decoder of keyboard_driver.c: the four flags that          *)
(* keyboard_callback keeps between bytes, how one byte from port 0x60      *)
(* changes them, and which key (if any) the byte makes it put into the     *)
(* ring buffer.  Bytes are the numbers the 8042 delivers (scancode set 1). *)
(*                                                                         *)
(* A key is <<table, scancode>>: the table it was looked up in ("plain" is *)
(* scancode_to_ascii, "shifted" is scancode_shifted, "control" the Ctrl    *)
(* code of a letter, "arrow" one of KEY_UP .. KEY_RIGHT) and the position. *)
(***************************************************************************)
EXTENDS Integers, Sequences

VARIABLES
    shift_pressed,
    caps_lock,
    ctrl_pressed,
    extended

flags == <<shift_pressed, caps_lock, ctrl_pressed, extended>>

Byte == 0..255

Prefix  == \hE0
Release == \h80

CtrlCode   == \h1D
ShiftCodes == {\h2A, \h36}
CapsCode   == \h3A
ArrowCodes == {\h48, \h50, \h4B, \h4D}

\* Positions of the scancode tables that hold a letter, and those that hold 0.
Letters == (16..25) \cup (30..38) \cup (44..50)
Unused  == {0, 29, 42, 54, 56} \cup (58..127)

Key ==
    ({"plain", "shifted"} \X (0..127))
        \cup ({"control"} \X Letters)
        \cup ({"arrow"} \X ArrowCodes)

Released(byte) == byte >= Release
Code(byte)     == byte % Release

FlagsOK ==
    /\ shift_pressed \in BOOLEAN
    /\ caps_lock \in BOOLEAN
    /\ ctrl_pressed \in BOOLEAN
    /\ extended \in BOOLEAN

FlagsInit ==
    /\ shift_pressed = FALSE
    /\ caps_lock = FALSE
    /\ ctrl_pressed = FALSE
    /\ extended = FALSE

-----------------------------------------------------------------------------
(* Which of the callback's branches a byte takes.                          *)

IsCtrl(byte)  == byte # Prefix /\ Code(byte) = CtrlCode
IsShift(byte) == byte # Prefix /\ Code(byte) \in ShiftCodes
IsCapsPress(byte) == byte = CapsCode

IsOrdinary(byte) ==
    byte # Prefix /\ ~ IsCtrl(byte) /\ ~ IsShift(byte) /\ ~ IsCapsPress(byte)

map_scancode_to_char(sc) ==
    LET table == IF shift_pressed THEN "shifted" ELSE "plain"
    IN  IF sc \in Letters /\ table = "plain" /\ shift_pressed # caps_lock
        THEN <<"shifted", sc>>
        ELSE <<table, sc>>

\* The keys one byte puts into the ring: none or one.
Emitted(byte) ==
    IF ~ IsOrdinary(byte) \/ Released(byte) THEN {}
    ELSE IF extended THEN {<<"arrow", sc>> : sc \in {byte} \cap ArrowCodes}
    ELSE IF ctrl_pressed /\ byte \in Letters THEN {<<"control", byte>>}
    ELSE {map_scancode_to_char(sc) : sc \in {byte} \ Unused}

-----------------------------------------------------------------------------
(* The callback's effect on the flags, one action per branch.              *)

SetPrefix(byte) ==
    /\ byte = Prefix
    /\ extended' = TRUE
    /\ UNCHANGED <<shift_pressed, caps_lock, ctrl_pressed>>

\* Mutant: the release of the right Ctrl key is missed.
CtrlKeyLeftReleaseOnly(byte) ==
    /\ IsCtrl(byte)
    /\ ctrl_pressed' = (~ Released(byte) \/ (extended /\ ctrl_pressed))
    /\ extended' = FALSE
    /\ UNCHANGED <<shift_pressed, caps_lock>>

CtrlKey(byte) ==
    /\ IsCtrl(byte)
    /\ ctrl_pressed' = ~ Released(byte)
    /\ extended' = FALSE
    /\ UNCHANGED <<shift_pressed, caps_lock>>

ShiftKey(byte) ==
    /\ IsShift(byte)
    /\ shift_pressed' = ~ Released(byte)
    /\ extended' = FALSE
    /\ UNCHANGED <<caps_lock, ctrl_pressed>>

CapsLockPress(byte) ==
    /\ IsCapsPress(byte)
    /\ caps_lock' = ~ caps_lock
    /\ extended' = FALSE
    /\ UNCHANGED <<shift_pressed, ctrl_pressed>>

\* Mutant: `extended` is cleared by presses only.
OrdinaryKeyReleaseKeepsPrefix(byte) ==
    /\ IsOrdinary(byte)
    /\ extended' = (extended /\ Released(byte))
    /\ UNCHANGED <<shift_pressed, caps_lock, ctrl_pressed>>

OrdinaryKey(byte) ==
    /\ IsOrdinary(byte)
    /\ extended' = FALSE
    /\ UNCHANGED <<shift_pressed, caps_lock, ctrl_pressed>>

\* keyboard_callback up to the call of buffer_put.
Decode(byte) ==
    \/ SetPrefix(byte)
    \/ CtrlKey(byte)
    \/ ShiftKey(byte)
    \/ CapsLockPress(byte)
    \/ OrdinaryKey(byte)
=============================================================================
