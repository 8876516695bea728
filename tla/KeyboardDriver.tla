--------------------------- MODULE KeyboardDriver ---------------------------
(***************************************************************************)
(* The path of a key from the 8042 to the program: controller, 8259 PIC,   *)
(* interrupt entry (idt.c, boot.asm), keyboard_callback with its ring      *)
(* buffer, and the blocking keyboard_getchar that waits with `hlt`.  There *)
(* is one CPU; the task and the interrupt handlers interleave at           *)
(* instruction granularity wherever the order can matter, and handlers run *)
(* with interrupts disabled (interrupt gates, `cli` in the IRQ stubs).     *)
(***************************************************************************)
EXTENDS KeyDecoder

CONSTANTS
    KEYBOARD_BUFFER_SIZE,
    Strokes,           \* what one stroke can send: non-empty byte sequences
    DeviceQueue,       \* bound: bytes waiting inside the keyboard
    TypingDuringBoot   \* strokes may come before keyboard_init

ASSUME RingAssumption == KEYBOARD_BUFFER_SIZE \in Nat /\ KEYBOARD_BUFFER_SIZE >= 2
ASSUME StrokesAssumption == Strokes \subseteq Seq(Byte)
ASSUME DeviceAssumption == DeviceQueue \in Nat /\ TypingDuringBoot \in BOOLEAN

VARIABLES
    key_buffer, buffer_head, buffer_tail,  \* the ring
    device,      \* bytes inside the keyboard, not yet in the controller
    port60,      \* the controller's output buffer: a byte or Empty
    requested,   \* PIC: edges latched in the request register (IRR)
    in_service,  \* PIC: interrupts acknowledged and not ended (ISR)
    routine,     \* irq_routines[1] is keyboard_callback
    irq,         \* the IRQ whose handler the CPU runs, or None
    irq_pc,      \* where in irq_handler
    pc,          \* where the task is
    c,           \* local variable of buffer_get
    event        \* history: last key offered to or taken from the ring

ring       == <<key_buffer, buffer_head, buffer_tail>>
controller == <<device, port60>>
pic        == <<requested, in_service>>
cpu        == <<irq, irq_pc>>
task       == <<pc, c>>
vars == <<flags, ring, controller, pic, cpu, task, routine, event>>

Timer == 0
Kbd   == 1
IRQs  == {Timer, Kbd}

Empty == -1
None  == -1
NoKey == <<"plain", 0>>       \* the zero byte of an unused slot
Idle  == <<"idle">>

Slots == 0..(KEYBOARD_BUFFER_SIZE - 1)

\* Mutant: the index runs off the end of the ring.
SuccUnwrapped(i) == i + 1

Succ(i) == (i + 1) % KEYBOARD_BUFFER_SIZE

buffer_is_empty == buffer_head = buffer_tail
buffer_is_full  == Succ(buffer_head) = buffer_tail

TypeOK ==
    /\ FlagsOK
    /\ key_buffer \in [Slots -> Key]
    /\ buffer_head \in Slots
    /\ buffer_tail \in Slots
    /\ device \in Seq(Byte)
    /\ port60 \in Byte \cup {Empty}
    /\ requested \subseteq IRQs
    /\ in_service \subseteq IRQs
    /\ routine \in BOOLEAN
    /\ irq \in IRQs \cup {None}
    /\ irq_pc \in {"handler", "eoi"}
    /\ pc \in {"boot", "user", "check", "hlt", "asleep", "load", "advance"}
    /\ c \in Key
    /\ event \in {Idle} \cup ({"offered", "taken"} \X Key)

\* kernel_main right after `sti` (kernel.c:35): the PIC is unmasked, no
\* keyboard routine is installed.
Init ==
    /\ FlagsInit
    /\ key_buffer = [i \in Slots |-> NoKey]
    /\ buffer_head = 0
    /\ buffer_tail = 0
    /\ device = <<>>
    /\ port60 = Empty
    /\ requested = {}
    /\ in_service = {}
    /\ routine = FALSE
    /\ irq = None
    /\ irq_pc = "eoi"
    /\ pc = "boot"
    /\ c = NoKey
    /\ event = Idle

-----------------------------------------------------------------------------
(* Hardware: keyboard, controller, timer, interrupt controller.            *)

Type(stroke) ==
    /\ pc = "boot" => TypingDuringBoot
    /\ Len(device) + Len(stroke) <= DeviceQueue
    /\ device' = device \o stroke
    /\ UNCHANGED <<flags, ring, port60, pic, cpu, task, routine, event>>

\* The controller presents the next byte; its line rises, and the PIC latches
\* the edge.  While a byte is unread the line stays high: no new edge.
Present ==
    /\ device # <<>>
    /\ port60 = Empty
    /\ port60' = Head(device)
    /\ device' = Tail(device)
    /\ requested' = requested \cup {Kbd}
    /\ UNCHANGED <<flags, ring, in_service, cpu, task, routine, event>>

\* 55 ms pass between ticks: the last one has been served when the next comes.
Tick ==
    /\ Timer \notin requested \cup in_service
    /\ requested' = requested \cup {Timer}
    /\ UNCHANGED <<flags, ring, controller, in_service, cpu, task, routine, event>>

\* The CPU takes an interrupt between two instructions of the task; a CPU
\* asleep in `hlt` will go on behind it.  The timer has the higher priority.
Interrupt(i) ==
    /\ irq = None
    /\ i \in requested
    /\ i \notin in_service
    /\ \A j \in requested \cup in_service : j >= i
    /\ requested' = requested \ {i}
    /\ in_service' = in_service \cup {i}
    /\ irq' = i
    /\ irq_pc' = "handler"
    /\ pc' = IF pc = "asleep" THEN "check" ELSE pc
    /\ UNCHANGED <<flags, ring, controller, c, routine, event>>

-----------------------------------------------------------------------------
(* irq_handler and keyboard_callback.                                      *)

\* Mutant: a full ring overwrites its oldest key.
buffer_putUnguarded(k) ==
    /\ key_buffer' = [key_buffer EXCEPT ![buffer_head] = k]
    /\ buffer_head' = Succ(buffer_head)
    /\ event' = <<"offered", k>>
    /\ UNCHANGED buffer_tail

buffer_put(k) ==
    /\ IF buffer_is_full
       THEN UNCHANGED <<key_buffer, buffer_head>>
       ELSE /\ key_buffer' = [key_buffer EXCEPT ![buffer_head] = k]
            /\ buffer_head' = Succ(buffer_head)
    /\ event' = <<"offered", k>>
    /\ UNCHANGED buffer_tail

\* Mutant: the handler decides from the flags whether to read the port.
keyboard_callbackSkipsRead ==
    /\ port60 # Empty
    /\ port60' = IF extended THEN port60 ELSE Empty
    /\ Decode(port60)
    /\ \/ \E k \in Emitted(port60) : buffer_put(k)
       \/ Emitted(port60) = {} /\ UNCHANGED <<ring, event>>

\* Reading port 0x60 empties the controller's output buffer.
keyboard_callback ==
    /\ port60 # Empty
    /\ port60' = Empty
    /\ Decode(port60)
    /\ \/ \E k \in Emitted(port60) : buffer_put(k)
       \/ Emitted(port60) = {} /\ UNCHANGED <<ring, event>>

\* The routine of the IRQ, when one is installed; the timer never has one.
CallRoutine ==
    /\ irq # None
    /\ irq_pc = "handler"
    /\ irq_pc' = "eoi"
    /\ \/ irq = Kbd /\ routine /\ keyboard_callback
       \/ /\ ~ (irq = Kbd /\ routine)
          /\ UNCHANGED <<flags, ring, port60, event>>
    /\ UNCHANGED <<device, pic, irq, task, routine>>

\* Mutant: the end of interrupt is sent for IRQs with a routine only.
EndOfInterruptIfHandled ==
    /\ irq # None
    /\ irq_pc = "eoi"
    /\ in_service' = IF irq = Kbd /\ routine THEN in_service \ {irq} ELSE in_service
    /\ irq' = None
    /\ UNCHANGED <<flags, ring, controller, requested, irq_pc, task, routine, event>>

\* outportb(0x20, 0x20) and iret, with interrupts still disabled between them.
EndOfInterrupt ==
    /\ irq # None
    /\ irq_pc = "eoi"
    /\ in_service' = in_service \ {irq}
    /\ irq' = None
    /\ UNCHANGED <<flags, ring, controller, requested, irq_pc, task, routine, event>>

-----------------------------------------------------------------------------
(* The task: kernel_main, the user program, keyboard_getchar.              *)

TaskRuns == irq = None

keyboard_init ==
    /\ TaskRuns
    /\ pc = "boot"
    /\ routine' = TRUE
    /\ pc' = "user"
    /\ UNCHANGED <<flags, ring, controller, pic, cpu, c, event>>

\* The program makes the getchar system call, whose handler enables interrupts.
CallGetchar ==
    /\ TaskRuns
    /\ pc = "user"
    /\ pc' = "check"
    /\ UNCHANGED <<flags, ring, controller, pic, cpu, c, routine, event>>

\* `while (buffer_is_empty())`
GetcharCheck ==
    /\ TaskRuns
    /\ pc = "check"
    /\ pc' = IF buffer_is_empty THEN "hlt" ELSE "load"
    /\ UNCHANGED <<flags, ring, controller, pic, cpu, c, routine, event>>

\* `hlt`: nothing re-checks the ring between the test and this instruction.
GetcharHlt ==
    /\ TaskRuns
    /\ pc = "hlt"
    /\ pc' = "asleep"
    /\ UNCHANGED <<flags, ring, controller, pic, cpu, c, routine, event>>

\* buffer_get: the slot is read, then the tail moves past it.
GetcharLoad ==
    /\ TaskRuns
    /\ pc = "load"
    /\ pc' = IF buffer_is_empty THEN "user" ELSE "advance"
    /\ c' = IF buffer_is_empty THEN NoKey ELSE key_buffer[buffer_tail]
    /\ UNCHANGED <<flags, ring, controller, pic, cpu, routine, event>>

\* Mutant: the tail is moved past the key being delivered and the next one.
GetcharAdvanceTwice ==
    /\ TaskRuns
    /\ pc = "advance"
    /\ buffer_tail' = Succ(Succ(buffer_tail))
    /\ pc' = "user"
    /\ event' = <<"taken", c>>
    /\ UNCHANGED <<flags, key_buffer, buffer_head, controller, pic, cpu, c, routine>>

GetcharAdvance ==
    /\ TaskRuns
    /\ pc = "advance"
    /\ buffer_tail' = Succ(buffer_tail)
    /\ pc' = "user"
    /\ event' = <<"taken", c>>
    /\ UNCHANGED <<flags, key_buffer, buffer_head, controller, pic, cpu, c, routine>>

-----------------------------------------------------------------------------

Hardware == (\E stroke \in Strokes : Type(stroke)) \/ Present \/ Tick

Getchar == GetcharCheck \/ GetcharHlt \/ GetcharLoad \/ GetcharAdvance

Next ==
    \/ Hardware
    \/ \E i \in IRQs : Interrupt(i)
    \/ CallRoutine
    \/ EndOfInterrupt
    \/ keyboard_init
    \/ CallGetchar
    \/ Getchar

Spec == Init /\ [][Next]_vars

(***************************************************************************)
(* The controller presents its bytes, the timer (never masked, programmed  *)
(* by the BIOS) keeps ticking, handlers finish.  A tick is served in far   *)
(* less than the 55 ms to the next one, so neither the task nor the        *)
(* keyboard interrupt is starved by ticks: strong fairness.  Nobody has to *)
(* type, nor to call getchar.                                              *)
(***************************************************************************)
Fairness ==
    /\ WF_vars(Present)
    /\ WF_vars(Tick)
    /\ WF_vars(CallRoutine)
    /\ WF_vars(EndOfInterrupt)
    /\ WF_vars(Interrupt(Timer))
    /\ SF_vars(Interrupt(Kbd))
    /\ SF_vars(keyboard_init)
    /\ SF_vars(Getchar)

FairSpec == Spec /\ Fairness

-----------------------------------------------------------------------------
(* Properties                                                              *)

\* Keys in the ring, oldest first: slots tail, tail + 1, ... up to head.
Count(head, tail) ==
    IF tail <= head THEN head - tail ELSE head - tail + KEYBOARD_BUFFER_SIZE

Window(buffer, head, tail) ==
    [i \in 1..Count(head, tail) |-> buffer[(tail + (i - 1)) % KEYBOARD_BUFFER_SIZE]]

Contents == Window(key_buffer, buffer_head, buffer_tail)

\* The ring with its interrupt-time producer and its interruptible consumer is
\* a queue of KEYBOARD_BUFFER_SIZE - 1 keys: none lost while there is room,
\* none duplicated, none delivered from a slot the callback has reused.
Queue == INSTANCE KeyQueue WITH
            queue <- Contents, Capacity <- KEYBOARD_BUFFER_SIZE - 1

ImplementsQueue == Queue!Spec

\* A byte waiting in the controller always has its interrupt on the way: the
\* edge is latched, or the handler that will read the byte has been entered.
\* (The PIC is edge triggered: a byte without one is never read, nor is
\* any byte after it.)  kernel.c:35 opens the gap before keyboard_init.
EdgePending == Kbd \in requested \/ (irq = Kbd /\ irq_pc = "handler")

NoLostEdge == port60 # Empty => EdgePending

\* getchar never finds the ring empty after its test, and the key loaded by
\* buffer_get is still the oldest one when the tail moves: no callback that ran
\* between the statements touched that slot, not even with the ring full.
GetcharDelivers ==
    /\ pc \in {"load", "advance"} => ~ buffer_is_empty
    /\ pc = "advance" => c = key_buffer[buffer_tail]

InGetchar == pc \in {"check", "hlt", "asleep", "load", "advance"}

\* "Blocking read (for shell)" (keyboard_driver.h:9): the read blocks no longer
\* once a key is in the ring, even if it came between the test and the `hlt`
\* (the next tick wakes the CPU), or a character waits in the controller.
BlockingRead ==
    (InGetchar /\ (~ buffer_is_empty \/ (port60 # Empty /\ Emitted(port60) # {})))
        ~> (pc = "user")
=============================================================================
