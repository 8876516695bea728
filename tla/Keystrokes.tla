----------------------------- MODULE Keystrokes -----------------------------
(***************************************************************************)
(* A person at a PS/2 keyboard in front of the decoder: physical keys go   *)
(* down, repeat and come up, each as the bytes the keyboard sends for it;  *)
(* the bytes wait on the wire and the decoder takes them one at a time.    *)
(*                                                                         *)
(* `typed` is what the person meant, computed from the keys physically     *)
(* held at the moment of the press and never from the decoder's flags;     *)
(* `emitted` is what the decoder passed to buffer_put.                     *)
(***************************************************************************)
EXTENDS KeyDecoder, SequencesExt

CONSTANTS
    Keyboards,  \* keyboards, each the set of physical keys that are used
    MaxWire,    \* bound: bytes on the wire
    MaxTyped    \* bound: length of the histories `typed` and `emitted`

VARIABLES
    keyboard,   \* the one in use
    held,       \* physical keys that are down
    caps_on,    \* the person has switched Caps Lock on
    wire,       \* bytes sent and not yet read
    typed,
    emitted

vars == <<flags, keyboard, held, caps_on, wire, typed, emitted>>

-----------------------------------------------------------------------------
(* The physical keyboard (external): bytes of a press, bytes of a release. *)

Plain    == [A |-> 30, One |-> 2, F1 |-> \h3B, LeftShift |-> \h2A,
             RightShift |-> \h36, LeftCtrl |-> CtrlCode, CapsLock |-> CapsCode]
Prefixed == [RightCtrl |-> CtrlCode, Up |-> \h48, Left |-> \h4B, Del |-> \h53]

AnyKey == (DOMAIN Plain) \cup (DOMAIN Prefixed) \cup {"PrintScreen"}

ASSUME KeyboardsAssumption == Keyboards \subseteq SUBSET AnyKey

PressBytes(k) ==
    IF k = "PrintScreen" THEN <<Prefix, \h2A, Prefix, \h37>>
    ELSE IF k \in DOMAIN Plain THEN <<Plain[k]>>
    ELSE <<Prefix, Prefixed[k]>>

ReleaseBytes(k) ==
    IF k = "PrintScreen"
    THEN <<Prefix, \h37 + Release, Prefix, \h2A + Release>>
    ELSE IF k \in DOMAIN Plain THEN <<Plain[k] + Release>>
    ELSE <<Prefix, Prefixed[k] + Release>>

ShiftKeys == {"LeftShift", "RightShift"}
CtrlKeys  == {"LeftCtrl", "RightCtrl"}

\* What a press of k means while the keys of `held` are down: Shift and Caps
\* Lock cancel on letters, Ctrl turns letters into control codes.
Meaning(k) ==
    LET shift == held \cap ShiftKeys # {}
        ctrl  == held \cap CtrlKeys # {}
        table(upper) == IF upper THEN "shifted" ELSE "plain"
    IN  CASE k = "A" /\ ctrl     -> <<<<"control", Plain.A>>>>
          [] k = "A" /\ ~ ctrl   -> <<<<table(shift # caps_on), Plain.A>>>>
          [] k = "One"           -> <<<<table(shift), Plain.One>>>>
          [] k \in {"Up", "Left"} -> <<<<"arrow", Prefixed[k]>>>>
          [] OTHER               -> <<>>

-----------------------------------------------------------------------------

Init ==
    /\ FlagsInit
    /\ keyboard \in Keyboards
    /\ held = {}
    /\ caps_on = FALSE
    /\ wire = <<>>
    /\ typed = <<>>
    /\ emitted = <<>>

\* A key goes down, or a key that is down repeats.
Press(k) ==
    /\ Len(wire \o PressBytes(k)) <= MaxWire
    /\ Len(typed \o Meaning(k)) <= MaxTyped
    /\ held' = held \cup {k}
    /\ caps_on' = (caps_on # (k = "CapsLock"))
    /\ wire' = wire \o PressBytes(k)
    /\ typed' = typed \o Meaning(k)
    /\ UNCHANGED <<flags, keyboard, emitted>>

LetGo(k) ==
    /\ k \in held
    /\ Len(wire \o ReleaseBytes(k)) <= MaxWire
    /\ held' = held \ {k}
    /\ wire' = wire \o ReleaseBytes(k)
    /\ UNCHANGED <<flags, keyboard, caps_on, typed, emitted>>

\* keyboard_callback reads and decodes the next byte.
keyboard_callback ==
    /\ wire # <<>>
    /\ Decode(Head(wire))
    /\ emitted' = emitted \o SetToSeq(Emitted(Head(wire)))
    /\ wire' = Tail(wire)
    /\ UNCHANGED <<keyboard, held, caps_on, typed>>

Next ==
    \/ \E k \in keyboard : Press(k) \/ LetGo(k)
    \/ keyboard_callback

Spec == Init /\ [][Next]_vars

-----------------------------------------------------------------------------
(* Properties                                                              *)

\* The driver has one flag for both Shifts, and one for both Ctrls, cleared as
\* soon as one of two is let go; Print Screen sets the one for Shift, and a
\* letter is the capital under Shift and Caps Lock.  A keyboard is unambiguous
\* without the keys for which that makes a difference.
Unambiguous(kb) ==
    /\ "A" \in kb =>
         ~ CtrlKeys \subseteq kb /\ ~ ("CapsLock" \in kb /\ kb \cap ShiftKeys # {})
    /\ kb \cap {"A", "One"} # {} =>
         ~ ShiftKeys \subseteq kb /\ "PrintScreen" \notin kb

\* What arrives in the buffer is what was typed, in order: never a key in the
\* wrong case, a control code for a letter, an arrow for a character, a key
\* swallowed because a prefix byte was left over (keyboard_callback).
EmittedIsTyped ==
    /\ IsPrefix(emitted, typed)
    /\ wire = <<>> => emitted = typed

\* Once every byte has been read, a modifier is on only while a key that sets
\* it is down, and no prefix is left to be applied to the next key: whatever
\* order the keys of both hands come up in, nothing stays stuck.
NoStuckModifier ==
    wire = <<>> =>
        /\ shift_pressed => held \cap (ShiftKeys \cup {"PrintScreen"}) # {}
        /\ ctrl_pressed => held \cap CtrlKeys # {}
        /\ ~ extended
=============================================================================
