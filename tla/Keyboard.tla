------------------------------ MODULE Keyboard ------------------------------
(***************************************************************************)
(* The keyboard path of the kernel: the PS/2 controller and the interrupt   *)
(* controller, the IRQ stub and keyboard_handler that fill the ring buffer  *)
(* of drivers/keyboard.c, and the main program, from boot (kernel.c) to the *)
(* shell's keyboard_getc, that empties it.                                  *)
(*                                                                          *)
(* The main program is split where an interrupt may come in between; an     *)
(* interrupt handler runs with interrupts off and is one step.              *)
(***************************************************************************)
EXTENDS Naturals, Sequences, FiniteSets

CONSTANTS
    BUFFER_SIZE,            \* slots of keyboard_buffer (256 in the code)
    Keys,                   \* scancodes, release bit removed
    Shifts,                 \* those of LSHIFT and RSHIFT
    scancode_ascii,         \* character of each key ...
    scancode_ascii_shift,   \* ... and with shift held
    Chars,                  \* the characters in those tables
    NUL,                    \* the 0 in them: the key has no character
    MaxQueue                \* bound: scancodes waiting in the controller

ASSUME BufferAssumption == BUFFER_SIZE \in Nat /\ BUFFER_SIZE >= 2
ASSUME KeysAssumption ==
    /\ Shifts \subseteq Keys
    /\ NUL \notin Chars
    /\ scancode_ascii \in [Keys -> Chars \cup {NUL}]
    /\ scancode_ascii_shift \in [Keys -> Chars \cup {NUL}]
ASSUME QueueAssumption == MaxQueue \in Nat

TIMER    == 0           \* IRQ0 and IRQ1; every other line stays masked
KEYBOARD == 1
Lines    == {TIMER, KEYBOARD}

Scancode == [down : BOOLEAN, key : Keys]
Slots    == 0..(BUFFER_SIZE - 1)

VARIABLES
    pc,                 \* where the main program is
    iflag,              \* the processor's interrupt flag
    interrupt_handlers, \* lines a handler is registered for
    imr, irr,           \* PIC: masked lines, latched requests
    ps2,                \* scancodes in the controller; non-empty is OUTPUT_FULL
    shift_active, keyboard_buffer, buffer_head, buffer_tail,
    c,                  \* the local of keyboard_getc
    returned            \* what keyboard_getc returned last

ring == <<keyboard_buffer, buffer_head, buffer_tail>>
cpu  == <<pc, iflag, interrupt_handlers>>
pic  == <<imr, irr>>
vars == <<cpu, pic, ps2, shift_active, ring, c, returned>>

\* The kernel is entered with interrupts off (switch_pm.asm).
Init ==
    /\ pc = "boot"
    /\ iflag = FALSE
    /\ interrupt_handlers = {}
    /\ imr = {}
    /\ irr = {}
    /\ ps2 = <<>>
    /\ shift_active = FALSE
    /\ keyboard_buffer = [i \in Slots |-> NUL]
    /\ buffer_head = 0
    /\ buffer_tail = 0
    /\ c = NUL
    /\ returned = NUL

-----------------------------------------------------------------------------
(* The devices *)

\* A key goes down or up.  The controller raises its line when its output
\* buffer becomes full; while it is full a further scancode only waits.
KeyEvent ==
    /\ Len(ps2) < MaxQueue
    /\ \E s \in Scancode : ps2' = Append(ps2, s)
    /\ irr' = IF ps2 = <<>> THEN irr \cup {KEYBOARD} ELSE irr
    /\ UNCHANGED <<cpu, imr, shift_active, ring, c, returned>>

TimerTick ==
    /\ irr' = irr \cup {TIMER}
    /\ UNCHANGED <<cpu, imr, ps2, shift_active, ring, c, returned>>

-----------------------------------------------------------------------------
(* Interrupts: irq1, irq_common_stub, irq_handler, keyboard_handler *)

\* Slip: the index is never brought back to 0.
next_NoWrap(i) == i + 1
next(i) == IF i = BUFFER_SIZE - 1 THEN 0 ELSE i + 1   \* (i + 1) % BUFFER_SIZE

\* The character keyboard_handler finds for a scancode; NUL for a release, a
\* shift key and a key without a character.
CharOf(s) ==
    IF ~s.down \/ s.key \in Shifts THEN NUL
    ELSE IF shift_active THEN scancode_ascii_shift[s.key]
    ELSE scancode_ascii[s.key]

\* Slips: a full ring is overwritten; one slot more is kept free than needed.
push_NoFullTest(char) ==
    IF char # NUL
      THEN /\ keyboard_buffer' = [keyboard_buffer EXCEPT ![buffer_head] = char]
           /\ buffer_head' = next(buffer_head)
           /\ UNCHANGED buffer_tail
      ELSE UNCHANGED ring
push_EarlyFull(char) ==
    IF char # NUL /\ buffer_tail \notin {next(buffer_head), next(next(buffer_head))}
      THEN /\ keyboard_buffer' = [keyboard_buffer EXCEPT ![buffer_head] = char]
           /\ buffer_head' = next(buffer_head)
           /\ UNCHANGED buffer_tail
      ELSE UNCHANGED ring

\* Into the ring, unless that would make it look empty.
push(char) ==
    IF char # NUL /\ next(buffer_head) # buffer_tail
      THEN /\ keyboard_buffer' = [keyboard_buffer EXCEPT ![buffer_head] = char]
           /\ buffer_head' = next(buffer_head)
           /\ UNCHANGED buffer_tail
      ELSE UNCHANGED ring

\* Slips: the interrupt is not acknowledged; a full ring makes the handler
\* return before it has read the scancode.
keyboard_handler_NoEoi ==
    LET s == Head(ps2) IN
    /\ ps2 # <<>>
    /\ ps2' = Tail(ps2)
    /\ UNCHANGED irr
    /\ shift_active' = IF s.key \in Shifts THEN s.down ELSE shift_active
    /\ push(CharOf(s))
keyboard_handler_FullFirst ==
    LET s == Head(ps2) IN
    /\ ps2 # <<>>
    /\ IF next(buffer_head) = buffer_tail
         THEN irr' = irr \ {KEYBOARD} /\ UNCHANGED <<ps2, shift_active, ring>>
         ELSE /\ ps2' = Tail(ps2)
              /\ irr' = IF ps2' = <<>> THEN irr \ {KEYBOARD} ELSE irr
              /\ shift_active' = IF s.key \in Shifts THEN s.down ELSE shift_active
              /\ push(CharOf(s))

\* ps2_read_data empties the output buffer, so the controller can raise its
\* line again for the next scancode.
keyboard_handler ==
    LET s == Head(ps2) IN
    /\ ps2 # <<>>       \* ps2_wait_read
    /\ ps2' = Tail(ps2)
    /\ irr' = IF Tail(ps2) = <<>> THEN irr \ {KEYBOARD} ELSE irr \cup {KEYBOARD}
    /\ shift_active' = IF s.key \in Shifts THEN s.down ELSE shift_active
    /\ push(CharOf(s))

\* An unmasked request interrupts the main program between two instructions,
\* and ends a hlt.  irq_handler acknowledges it whether or not a handler is
\* registered; without one the scancode is not read.
irq_handler(line) ==
    /\ iflag
    /\ line \in irr \ imr
    /\ IF line \in interrupt_handlers
         THEN keyboard_handler
         ELSE irr' = irr \ {line} /\ UNCHANGED <<ps2, shift_active, ring>>
    /\ pc' = IF pc = "halted" THEN "getc" ELSE pc
    /\ UNCHANGED <<iflag, interrupt_handlers, imr, c, returned>>

Irq == \E line \in Lines : irq_handler(line)

-----------------------------------------------------------------------------
(* The main program *)

\* idt_init: the remapping of the PIC forgets what it had latched, and 0xFD
\* masks every line except the keyboard's.
isr_install ==
    /\ pc = "boot"
    /\ pc' = "installed"
    /\ imr' = Lines \ {KEYBOARD}
    /\ irr' = {}
    /\ UNCHANGED <<iflag, interrupt_handlers, ps2, shift_active, ring, c, returned>>

sti ==
    /\ pc = "installed"
    /\ pc' = "enabled"
    /\ iflag' = TRUE
    /\ UNCHANGED <<interrupt_handlers, pic, ps2, shift_active, ring, c, returned>>

\* ps2_init does nothing: what is in the controller stays there.
keyboard_init ==
    /\ pc = "enabled"
    /\ pc' = "shell"
    /\ interrupt_handlers' = interrupt_handlers \cup {KEYBOARD}
    /\ UNCHANGED <<iflag, pic, ps2, shift_active, ring, c, returned>>

\* The shell wants the next character.
shell ==
    /\ pc = "shell"
    /\ pc' = "getc"
    /\ UNCHANGED <<iflag, interrupt_handlers, pic, ps2, shift_active, ring, c, returned>>

\* Slip: the indices are compared as if they never wrapped.
getc_test_Order ==
    /\ pc = "getc"
    /\ pc' = IF buffer_head <= buffer_tail THEN "hlt" ELSE "read"
    /\ UNCHANGED <<iflag, interrupt_handlers, pic, ps2, shift_active, ring, c, returned>>

\* while (buffer_head == buffer_tail): the test, before the hlt or the read.
getc_test ==
    /\ pc = "getc"
    /\ pc' = IF buffer_head = buffer_tail THEN "hlt" ELSE "read"
    /\ UNCHANGED <<iflag, interrupt_handlers, pic, ps2, shift_active, ring, c, returned>>

\* The processor stops until an interrupt.
hlt ==
    /\ pc = "hlt"
    /\ pc' = "halted"
    /\ UNCHANGED <<iflag, interrupt_handlers, pic, ps2, shift_active, ring, c, returned>>

getc_read ==
    /\ pc = "read"
    /\ pc' = "advance"
    /\ c' = keyboard_buffer[buffer_tail]
    /\ UNCHANGED <<iflag, interrupt_handlers, pic, ps2, shift_active, ring, returned>>

getc_return ==
    /\ pc = "advance"
    /\ pc' = "shell"
    /\ buffer_tail' = next(buffer_tail)
    /\ returned' = c
    /\ UNCHANGED <<iflag, interrupt_handlers, pic, ps2, shift_active,
                   keyboard_buffer, buffer_head, c>>

Main == \/ isr_install \/ sti \/ keyboard_init \/ shell
        \/ getc_test \/ hlt \/ getc_read \/ getc_return

Next == KeyEvent \/ TimerTick \/ Irq \/ Main

Spec == Init /\ [][Next]_vars

\* The processor executes the main program (every shell command returns) and
\* takes an interrupt that stays requested.
FairSpec == Spec /\ WF_vars(Main) /\ WF_vars(Irq)

-----------------------------------------------------------------------------
(* Properties *)

TypeOK ==
    /\ pc \in {"boot", "installed", "enabled", "shell", "getc", "hlt",
               "halted", "read", "advance"}
    /\ iflag \in BOOLEAN
    /\ interrupt_handlers \subseteq {KEYBOARD}
    /\ imr \subseteq Lines
    /\ irr \subseteq Lines
    /\ ps2 \in Seq(Scancode)
    /\ shift_active \in BOOLEAN
    /\ keyboard_buffer \in [Slots -> Chars \cup {NUL}]
    /\ buffer_head \in Slots
    /\ buffer_tail \in Slots
    /\ c \in Chars \cup {NUL}
    /\ returned \in Chars \cup {NUL}

\* The characters between tail and head, oldest first.
Count == IF buffer_head >= buffer_tail
           THEN buffer_head - buffer_tail
           ELSE buffer_head + BUFFER_SIZE - buffer_tail
SlotAt(i) == IF buffer_tail + i - 1 < BUFFER_SIZE
               THEN buffer_tail + i - 1
               ELSE buffer_tail + i - 1 - BUFFER_SIZE
buffered == [i \in 1..Count |-> keyboard_buffer[SlotAt(i)]]

\* The ring buffer, filled by the handler at any point of keyboard_getc, is a
\* first-in first-out queue of BUFFER_SIZE - 1 characters.
Queue == INSTANCE KeyQueue WITH queue <- buffered, Capacity <- BUFFER_SIZE - 1
ImplementsQueue == Queue!Spec

\* No character is dropped while the ring has room for it.
AcceptsWhileRoom ==
    [][\A s \in Scancode :
         /\ ps2 # <<>> /\ ps2' = Tail(ps2) /\ s = Head(ps2)
         /\ CharOf(s) # NUL
         /\ Count < BUFFER_SIZE - 1
         => buffered' = Append(buffered, CharOf(s))]_vars

\* When the keyboard interrupt is taken there is a scancode to read: the busy
\* wait of ps2_read_data, which runs with interrupts off, never starts.
HandlerNeverSpins == KEYBOARD \in irr => ps2 # <<>>

\* The controller has a scancode but its request is gone: it will not raise
\* the line again, because nobody reads the scancode.
Wedged == ps2 # <<>> /\ KEYBOARD \notin irr

\* A scancode lost by an interrupt without handler wedges the keyboard; that
\* cannot begin once keyboard_init has registered the handler.
NoWedgeAfterInit ==
    [][Wedged' => Wedged \/ interrupt_handlers = {}]_vars

\* A character in the ring is read if the keyboard keeps interrupting: the
\* shell may sleep on it (keyboard_getc can halt after the interrupt that
\* brought it), but only until the next interrupt.
ReadIfTypingGoesOn ==
    ([]<><<Irq>>_vars) => (Count > 0 ~> pc = "advance")

\* keyboard_getc waits for a key press only while none is there.  The code
\* does not keep this (test and hlt are two steps).
NoSleepOnInput ==
    pc = "halted" => buffer_head = buffer_tail \/ irr \ imr # {}
=============================================================================
