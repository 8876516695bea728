---------------------------- MODULE MCKeystrokes ----------------------------
(* Keyboards small enough for TLC.                                         *)
EXTENDS Keystrokes

\* One Shift, one Ctrl, a letter, a digit, an arrow and an ignored grey key.
TypingKeys == {"RightShift", "RightCtrl", "A", "One", "Up", "Del"}

\* Caps Lock without Shift.
CapsKeys == {"CapsLock", "LeftCtrl", "A", "Left", "F1"}

\* Every key that touches shift_pressed, ctrl_pressed or extended.
ModifierKeys ==
    {"LeftShift", "RightShift", "LeftCtrl", "RightCtrl", "PrintScreen", "Del"}

MCKeyboards == {TypingKeys, CapsKeys, ModifierKeys}

\* What KeystrokesProofs asks of the keyboards.
ASSUME UnambiguousKeyboards == \A kb \in MCKeyboards : Unambiguous(kb)
=============================================================================
