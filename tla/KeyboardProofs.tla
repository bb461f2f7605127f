--------------------------- MODULE KeyboardProofs ---------------------------
(***************************************************************************)
(* Proofs about Keyboard for every buffer size, keyboard layout and number  *)
(* of scancodes waiting.                                                    *)
(***************************************************************************)
EXTENDS Keyboard, SequenceTheorems, TLAPS

(* What the main program knows inside keyboard_getc, whatever the interrupt  *)
(* handler does meanwhile: past the loop the ring is not empty, and after    *)
(* the read, c still is the oldest character.                                *)
GetcInv ==
    /\ pc \in {"read", "advance"} => buffer_head # buffer_tail
    /\ pc = "advance" => c = keyboard_buffer[buffer_tail]

Inv == TypeOK /\ GetcInv /\ HandlerNeverSpins

(* The next index is a slot again, and another one.                          *)
LEMMA NextFacts ==
    ASSUME NEW i \in Slots
    PROVE  /\ next(i) \in Slots
           /\ next(i) # i
BY BufferAssumption DEF Slots, next

(* What the tables give for a scancode is a character or NUL.                *)
LEMMA CharOfType ==
    ASSUME NEW s \in Scancode
    PROVE  CharOf(s) \in Chars \cup {NUL}
BY KeysAssumption DEF CharOf, Scancode

-----------------------------------------------------------------------------
(* The ring as a sequence *)

(* How many characters the two indices enclose, and where they are.          *)
LEMMA CountFacts ==
    ASSUME TypeOK
    PROVE  /\ Count \in 0..(BUFFER_SIZE - 1)
           /\ Count = 0 <=> buffer_head = buffer_tail
           /\ \A i \in 1..BUFFER_SIZE : SlotAt(i) \in Slots
           /\ \A i, j \in 1..BUFFER_SIZE : SlotAt(i) = SlotAt(j) => i = j
           /\ SlotAt(Count + 1) = buffer_head
           /\ Count < BUFFER_SIZE - 1 <=> next(buffer_head) # buffer_tail
           /\ SlotAt(1) = buffer_tail
BY BufferAssumption DEF TypeOK, Slots, Count, SlotAt, next

(* The characters between tail and head form a sequence of that length.      *)
LEMMA BufferedIsSeq ==
    ASSUME TypeOK
    PROVE  /\ buffered \in Seq(Chars \cup {NUL})
           /\ Len(buffered) = Count
           /\ \A i \in 1..Count : buffered[i] = keyboard_buffer[SlotAt(i)]
<1>1. Count \in 0..(BUFFER_SIZE - 1) /\ \A i \in 1..BUFFER_SIZE : SlotAt(i) \in Slots
  BY CountFacts
<1>2. Count \in Nat /\ \A i \in 1..Count : SlotAt(i) \in Slots
  BY <1>1, BufferAssumption
<1>3. buffered \in [1..Count -> Chars \cup {NUL}]
  BY <1>2 DEF TypeOK, buffered
<1>4. buffered \in Seq(Chars \cup {NUL})
  BY <1>2, <1>3, SeqDef
<1> QED BY <1>2, <1>3, <1>4, LenProperties DEF buffered

(* What keyboard_handler does with a character: append it to the ring, or    *)
(* nothing.                                                                  *)
LEMMA PushFacts ==
    ASSUME TypeOK, NEW char \in Chars \cup {NUL}, push(char)
    PROVE  /\ keyboard_buffer' \in [Slots -> Chars \cup {NUL}]
           /\ buffer_head' \in Slots
           /\ buffer_tail' = buffer_tail
           /\ buffer_head # buffer_tail =>
                /\ buffer_head' # buffer_tail
                /\ keyboard_buffer'[buffer_tail] = keyboard_buffer[buffer_tail]
           /\ IF char # NUL /\ Count < BUFFER_SIZE - 1
                THEN buffered' = Append(buffered, char)
                ELSE buffered' = buffered
<1> DEFINE X == Chars \cup {NUL}
<1>1. CASE char # NUL /\ next(buffer_head) # buffer_tail
  <2>1. /\ keyboard_buffer' = [keyboard_buffer EXCEPT ![buffer_head] = char]
        /\ buffer_head' = next(buffer_head)
        /\ buffer_tail' = buffer_tail
    BY <1>1 DEF push
  <2>2. /\ keyboard_buffer' \in [Slots -> X]
        /\ buffer_head' \in Slots
        /\ buffer_head' # buffer_tail
        /\ \A i \in Slots \ {buffer_head} : keyboard_buffer'[i] = keyboard_buffer[i]
        /\ keyboard_buffer'[buffer_head] = char
    BY <1>1, <2>1, NextFacts DEF TypeOK
  <2>3. /\ Count \in 0..(BUFFER_SIZE - 1)
        /\ Count < BUFFER_SIZE - 1
        /\ \A i \in 1..BUFFER_SIZE : SlotAt(i) \in Slots
        /\ \A i, j \in 1..BUFFER_SIZE : SlotAt(i) = SlotAt(j) => i = j
        /\ SlotAt(Count + 1) = buffer_head
    BY <1>1, CountFacts
  <2>4. Count' = Count + 1
    BY <1>1, <2>1, BufferAssumption DEF Count, next, TypeOK, Slots
  <2>5. buffered' = [i \in 1..(Count + 1) |-> keyboard_buffer'[SlotAt(i)]]
    BY <2>1, <2>4 DEF buffered, SlotAt
  <2>6. ASSUME NEW i \in 1..(Count + 1)
        PROVE  buffered'[i] = IF i <= Count THEN buffered[i] ELSE char
    <3>1. SlotAt(i) \in Slots /\ i \in 1..BUFFER_SIZE /\ Count + 1 \in 1..BUFFER_SIZE
      BY <2>3, BufferAssumption
    <3>2. CASE i <= Count
      <4>1. SlotAt(i) # buffer_head
        BY <2>3, <3>1, <3>2
      <4>2. buffered[i] = keyboard_buffer[SlotAt(i)]
        BY <2>3, <3>2, BufferedIsSeq
      <4> QED BY <2>2, <2>5, <3>1, <3>2, <4>1, <4>2
    <3>3. CASE i = Count + 1
      BY <2>2, <2>3, <2>5, <3>3
    <3> QED BY <2>3, <3>2, <3>3
  <2>7. /\ buffered \in Seq(X)
        /\ Len(buffered) = Count
    BY BufferedIsSeq
  <2>8. /\ Append(buffered, char) \in Seq(X)
        /\ Len(Append(buffered, char)) = Count + 1
        /\ \A i \in 1..(Count + 1) :
             Append(buffered, char)[i] = IF i <= Count THEN buffered[i] ELSE char
    BY <2>3, <2>7, AppendProperties
  <2>9. buffered' \in Seq(X) /\ Len(buffered') = Count + 1
    <3>1. Count + 1 \in Nat
      BY <2>3, BufferAssumption
    <3>2. buffered' \in [1..(Count + 1) -> X]
      <4>1. \A i \in 1..(Count + 1) : SlotAt(i) \in Slots
        BY <2>3, BufferAssumption
      <4> QED BY <2>2, <2>5, <4>1
    <3>3. buffered' \in Seq(X)
      BY <3>1, <3>2, SeqDef
    <3> QED BY <3>1, <3>2, <3>3, LenProperties
  <2>10. buffered' = Append(buffered, char)
    <3>1. \A i \in 1..(Count + 1) : buffered'[i] = Append(buffered, char)[i]
      BY <2>6, <2>8
    <3> HIDE DEF X
    <3> QED BY <2>8, <2>9, <3>1, SeqEqual
  <2>11. buffer_head # buffer_tail =>
           keyboard_buffer'[buffer_tail] = keyboard_buffer[buffer_tail]
    BY <2>2 DEF TypeOK
  <2> QED BY <1>1, <2>1, <2>2, <2>3, <2>10, <2>11
<1>2. CASE ~(char # NUL /\ next(buffer_head) # buffer_tail)
  <2>1. UNCHANGED ring
    BY <1>2 DEF push
  <2>2. buffered' = buffered
    BY <2>1 DEF ring, buffered, SlotAt, Count
  <2>3. ~(char # NUL /\ Count < BUFFER_SIZE - 1)
    BY <1>2, CountFacts
  <2> QED BY <2>1, <2>2, <2>3 DEF ring, TypeOK
<1> QED BY <1>1, <1>2

(* What keyboard_getc does at its end: take the oldest character off.        *)
LEMMA AdvanceFacts ==
    ASSUME TypeOK, buffer_head # buffer_tail,
           buffer_tail' = next(buffer_tail),
           UNCHANGED <<keyboard_buffer, buffer_head>>
    PROVE  /\ buffered # <<>>
           /\ Head(buffered) = keyboard_buffer[buffer_tail]
           /\ buffered' = Tail(buffered)
<1> DEFINE X == Chars \cup {NUL}
<1>1. /\ Count \in 1..(BUFFER_SIZE - 1)
      /\ SlotAt(1) = buffer_tail
      /\ \A i \in 1..BUFFER_SIZE : SlotAt(i) \in Slots
  BY CountFacts, BufferAssumption
<1>2. /\ buffered \in Seq(X)
      /\ Len(buffered) = Count
      /\ \A i \in 1..Count : buffered[i] = keyboard_buffer[SlotAt(i)]
  BY BufferedIsSeq
<1>3. buffered # <<>>
  BY <1>1, <1>2, EmptySeq
<1>4. Head(buffered) = keyboard_buffer[buffer_tail]
  BY <1>1, <1>2, <1>3
<1>5. Count' = Count - 1
  BY BufferAssumption DEF Count, next, TypeOK, Slots
<1>6. \A i \in 1..(Count - 1) : SlotAt(i)' = SlotAt(i + 1)
  BY <1>1, BufferAssumption DEF SlotAt, next, TypeOK, Slots
<1>7. buffered' = [i \in 1..(Count - 1) |-> keyboard_buffer[SlotAt(i + 1)]]
  BY <1>5, <1>6 DEF buffered
<1>8. /\ Tail(buffered) \in Seq(X)
      /\ Len(Tail(buffered)) = Count - 1
      /\ \A i \in 1..(Count - 1) : Tail(buffered)[i] = buffered[i + 1]
  BY <1>1, <1>2, <1>3, HeadTailProperties
<1>9. /\ buffered' \in Seq(X)
      /\ Len(buffered') = Count - 1
  <2>1. Count - 1 \in Nat
    BY <1>1, BufferAssumption
  <2>2. \A i \in 1..(Count - 1) : SlotAt(i + 1) \in Slots
    BY <1>1, BufferAssumption
  <2>3. buffered' \in [1..(Count - 1) -> X]
    BY <1>7, <2>2 DEF TypeOK
  <2>4. buffered' \in Seq(X)
    BY <2>1, <2>3, SeqDef
  <2> QED BY <2>1, <2>3, <2>4, LenProperties
<1>10. \A i \in 1..(Count - 1) : buffered'[i] = Tail(buffered)[i]
  <2>1. \A i \in 1..(Count - 1) : i + 1 \in 1..Count
    BY <1>1, BufferAssumption
  <2> QED BY <1>2, <1>7, <1>8, <2>1
<1>11. buffered' = Tail(buffered)
  <2> HIDE DEF X
  <2> QED BY <1>8, <1>9, <1>10, SeqEqual
<1> QED BY <1>3, <1>4, <1>11

-----------------------------------------------------------------------------
(* Steps *)

(* An interrupt: the handler appends at most one character, and leaves the   *)
(* one keyboard_getc is about to return alone.                               *)
LEMMA IrqFacts ==
    ASSUME Inv, NEW line \in Lines, irq_handler(line)
    PROVE  /\ Inv'
           /\ returned' = returned
           /\ \/ buffered' = buffered
              \/ /\ Len(buffered) < BUFFER_SIZE - 1
                 /\ \E char \in Chars : buffered' = Append(buffered, char)
<1>1. /\ UNCHANGED <<iflag, interrupt_handlers, imr, c, returned>>
      /\ pc' = IF pc = "halted" THEN "getc" ELSE pc
  BY DEF irq_handler
<1>2. CASE line \in interrupt_handlers
  <2> DEFINE s == Head(ps2)
             char == CharOf(s)
  <2>1. /\ ps2 # <<>>
        /\ ps2' = Tail(ps2)
        /\ irr' = IF Tail(ps2) = <<>> THEN irr \ {KEYBOARD} ELSE irr \cup {KEYBOARD}
        /\ shift_active' = IF s.key \in Shifts THEN s.down ELSE shift_active
        /\ push(char)
    BY <1>2 DEF irq_handler, keyboard_handler
  <2>2. s \in Scancode /\ Tail(ps2) \in Seq(Scancode)
    BY <2>1, HeadTailProperties DEF Inv, TypeOK
  <2>3. char \in Chars \cup {NUL}
    BY <2>2, CharOfType
  <2>4. shift_active' \in BOOLEAN
    BY <2>1, <2>2 DEF Inv, TypeOK, Scancode
  <2> HIDE DEF char
  <2>5. /\ keyboard_buffer' \in [Slots -> Chars \cup {NUL}]
        /\ buffer_head' \in Slots
        /\ buffer_tail' = buffer_tail
        /\ buffer_head # buffer_tail =>
             /\ buffer_head' # buffer_tail
             /\ keyboard_buffer'[buffer_tail] = keyboard_buffer[buffer_tail]
        /\ IF char # NUL /\ Count < BUFFER_SIZE - 1
             THEN buffered' = Append(buffered, char)
             ELSE buffered' = buffered
    BY <2>1, <2>3, PushFacts DEF Inv
  <2>6. irr' \subseteq Lines
    BY <2>1 DEF Inv, TypeOK, Lines
  <2>7. TypeOK'
    BY <1>1, <2>1, <2>2, <2>4, <2>5, <2>6 DEF Inv, TypeOK
  <2>8. GetcInv'
    BY <1>1, <2>5 DEF Inv, GetcInv
  <2>9. HandlerNeverSpins'
    BY <2>1 DEF HandlerNeverSpins
  <2>10. Len(buffered) = Count
    BY BufferedIsSeq DEF Inv
  <2> QED BY <1>1, <2>3, <2>5, <2>7, <2>8, <2>9, <2>10 DEF Inv
<1>3. CASE line \notin interrupt_handlers
  <2>1. irr' = irr \ {line} /\ UNCHANGED <<ps2, shift_active, ring>>
    BY <1>3 DEF irq_handler
  <2>2. TypeOK' /\ GetcInv' /\ HandlerNeverSpins'
    BY <1>1, <2>1 DEF Inv, TypeOK, GetcInv, HandlerNeverSpins, ring
  <2>3. buffered' = buffered
    BY <2>1 DEF ring, buffered, SlotAt, Count
  <2> QED BY <1>1, <2>2, <2>3 DEF Inv
<1> QED BY <1>2, <1>3

(* A key event or a timer tick only reaches the devices.                     *)
LEMMA DeviceFacts ==
    ASSUME Inv, KeyEvent \/ TimerTick
    PROVE  Inv' /\ buffered' = buffered /\ returned' = returned
<1>1. /\ UNCHANGED <<cpu, imr, shift_active, ring, c, returned>>
      /\ irr' \subseteq Lines
      /\ ps2' \in Seq(Scancode)
      /\ HandlerNeverSpins'
  <2>1. CASE KeyEvent
    <3>1. PICK s \in Scancode : ps2' = Append(ps2, s)
      BY <2>1 DEF KeyEvent
    <3>2. ps2' \in Seq(Scancode) /\ ps2' # <<>>
      BY <3>1, AppendProperties, EmptySeq DEF Inv, TypeOK
    <3> QED BY <2>1, <3>2
            DEF KeyEvent, Inv, TypeOK, Lines, HandlerNeverSpins
  <2>2. CASE TimerTick
    BY <2>2 DEF TimerTick, Inv, TypeOK, HandlerNeverSpins, Lines, TIMER, KEYBOARD
  <2> QED BY <2>1, <2>2
<1>2. TypeOK' /\ GetcInv'
  BY <1>1 DEF Inv, TypeOK, GetcInv, cpu, ring
<1>3. buffered' = buffered
  BY <1>1 DEF ring, buffered, SlotAt, Count
<1> QED BY <1>1, <1>2, <1>3 DEF Inv

(* The main program changes the queue only where keyboard_getc returns.      *)
LEMMA MainFacts ==
    ASSUME Inv, Main
    PROVE  /\ Inv'
           /\ \/ buffered' = buffered /\ returned' = returned
              \/ /\ buffered # <<>>
                 /\ returned' = Head(buffered)
                 /\ buffered' = Tail(buffered)
<1>1. CASE getc_return
  <2>1. buffer_head # buffer_tail /\ c = keyboard_buffer[buffer_tail]
    BY <1>1 DEF getc_return, Inv, GetcInv
  <2>2. /\ buffered # <<>>
        /\ Head(buffered) = keyboard_buffer[buffer_tail]
        /\ buffered' = Tail(buffered)
    BY <1>1, <2>1, AdvanceFacts DEF getc_return, Inv
  <2>3. buffer_tail' \in Slots
    BY <1>1, NextFacts DEF getc_return, Inv, TypeOK
  <2>4. Inv'
    BY <1>1, <2>3 DEF getc_return, Inv, TypeOK, GetcInv, HandlerNeverSpins, pic
  <2> QED BY <1>1, <2>1, <2>2, <2>4 DEF getc_return
<1>2. CASE getc_read
  <2>1. keyboard_buffer[buffer_tail] \in Chars \cup {NUL}
    BY DEF Inv, TypeOK
  <2>2. Inv'
    BY <1>2, <2>1
       DEF getc_read, Inv, TypeOK, GetcInv, HandlerNeverSpins, pic, ring
  <2> QED BY <1>2, <2>2 DEF getc_read, ring, buffered, SlotAt, Count
<1>3. CASE isr_install
  <2>1. Inv'
    BY <1>3 DEF isr_install, Inv, TypeOK, GetcInv, HandlerNeverSpins, ring
  <2> QED BY <1>3, <2>1 DEF isr_install, ring, buffered, SlotAt, Count
<1>4. CASE sti \/ keyboard_init \/ shell \/ hlt
  <2>1. Inv'
    BY <1>4 DEF sti, keyboard_init, shell, hlt,
                Inv, TypeOK, GetcInv, HandlerNeverSpins, pic, ring
  <2> QED BY <1>4, <2>1
          DEF sti, keyboard_init, shell, hlt, ring, buffered, SlotAt, Count
<1>5. CASE getc_test
  <2>1. Inv'
    BY <1>5 DEF getc_test, Inv, TypeOK, GetcInv, HandlerNeverSpins, pic, ring
  <2> QED BY <1>5, <2>1 DEF getc_test, ring, buffered, SlotAt, Count
<1> QED BY <1>1, <1>2, <1>3, <1>4, <1>5 DEF Main

(* At boot the ring is empty and the invariant holds.                        *)
LEMMA InitEstablishes == Init => Inv /\ buffered = <<>>
<1> SUFFICES ASSUME Init PROVE Inv /\ buffered = <<>>
  OBVIOUS
<1>1. ps2 \in Seq(Scancode)
  BY EmptySeq DEF Init
<1>2. 0 \in Slots
  BY BufferAssumption DEF Slots
<1>3. Inv
  BY <1>1, <1>2 DEF Init, Inv, TypeOK, GetcInv, HandlerNeverSpins
<1>4. Len(buffered) = 0 /\ buffered \in Seq(Chars \cup {NUL})
  BY <1>3, BufferedIsSeq DEF Init, Count, Inv
<1> QED BY <1>3, <1>4, EmptySeq

(* Every step, of a device, an interrupt or main, preserves the invariant.   *)
LEMMA NextPreserves == Inv /\ [Next]_vars => Inv'
<1> SUFFICES ASSUME Inv, [Next]_vars PROVE Inv'
  OBVIOUS
<1>1. CASE UNCHANGED vars
  BY <1>1 DEF vars, cpu, pic, ring, Inv, TypeOK, GetcInv, HandlerNeverSpins
<1> QED BY <1>1, IrqFacts, DeviceFacts, MainFacts DEF Next, Irq

(* The invariant holds in every reachable state.                             *)
LEMMA Invariance == Spec => []Inv
BY InitEstablishes, NextPreserves, PTL DEF Spec

(* Type correctness: head and tail stay inside the ring and every slot holds *)
(* a character.                                                              *)
THEOREM TypeCorrect == Spec => []TypeOK
BY Invariance, PTL DEF Inv

(* The interrupt handler's wait for a scancode never starts, from boot on.   *)
THEOREM NeverSpins == Spec => []HandlerNeverSpins
BY Invariance, PTL DEF Inv

(* Whatever the interleaving of keyboard interrupts with keyboard_getc, and  *)
(* for every ring size, the ring is a bounded first-in first-out queue.      *)
THEOREM RingIsQueue == Spec => ImplementsQueue
<1>1. Init => Inv /\ Queue!Init
  BY InitEstablishes, KeysAssumption DEF Init, Queue!Init
<1>2. Inv /\ [Next]_vars => [Queue!Next]_<<buffered, returned>>
  <2> SUFFICES ASSUME Inv, [Next]_vars
               PROVE  Queue!Next \/ UNCHANGED <<buffered, returned>>
    OBVIOUS
  <2>1. CASE UNCHANGED vars
    BY <2>1 DEF vars, ring, buffered, SlotAt, Count
  <2>2. CASE Irq
    BY <2>2, IrqFacts DEF Irq, Queue!Next, Queue!Type
  <2>3. CASE KeyEvent \/ TimerTick
    BY <2>3, DeviceFacts
  <2>4. CASE Main
    BY <2>4, MainFacts DEF Queue!Next, Queue!Read
  <2> QED BY <2>1, <2>2, <2>3, <2>4 DEF Next
<1> QED BY <1>1, <1>2, NextPreserves, PTL DEF Spec, ImplementsQueue, Queue!Spec
-----------------------------------------------------------------------------
(* What an interrupt loses, and what it does not *)

(* Only keyboard_handler takes a scancode off the controller.                *)
LEMMA OnlyHandlerReads ==
    ASSUME Inv, Next, ps2 # <<>>, ps2' = Tail(ps2)
    PROVE  push(CharOf(Head(ps2)))
<1>1. ps2' # ps2 /\ \A s \in Scancode : ps2' # Append(ps2, s)
  <2>1. ps2 \in Seq(Scancode)
    BY DEF Inv, TypeOK
  <2>2. Len(ps2') = Len(ps2) - 1 /\ Len(ps2) \in Nat
    BY <2>1, HeadTailProperties, LenProperties
  <2>3. ps2' # ps2
    <3> DEFINE m == Len(ps2)
    <3>1. Len(ps2') = m - 1 /\ m \in Nat
      BY <2>2
    <3>2. Len(ps2') # m
      <4> HIDE DEF m
      <4> QED BY <3>1
    <3> QED BY <3>2
  <2>4. ASSUME NEW s \in Scancode PROVE ps2' # Append(ps2, s)
    <3> DEFINE m == Len(ps2)
    <3>1. Len(Append(ps2, s)) = m + 1 /\ Len(ps2') = m - 1 /\ m \in Nat
      BY <2>1, <2>2, AppendProperties
    <3>2. Len(ps2') # Len(Append(ps2, s))
      <4> HIDE DEF m
      <4> QED BY <3>1
    <3> QED BY <3>2
  <2> QED BY <2>3, <2>4
<1>2. ~ (KeyEvent \/ TimerTick)
  BY <1>1 DEF KeyEvent, TimerTick
<1>3. ~ Main
  BY <1>1 DEF Main, isr_install, sti, keyboard_init, shell, getc_test, hlt, getc_read,
              getc_return
<1>4. PICK line \in Lines : irq_handler(line)
  BY <1>2, <1>3 DEF Next, Irq
<1>5. line \in interrupt_handlers
  BY <1>1, <1>4 DEF irq_handler
<1> QED BY <1>4, <1>5 DEF irq_handler, keyboard_handler

(* keyboard_handler drops a character only when the ring is full, wherever   *)
(* keyboard_getc was interrupted.                                            *)
THEOREM AcceptsCharacters == Spec => AcceptsWhileRoom
<1>1. Inv /\ [Next]_vars =>
        [\A s \in Scancode :
           /\ ps2 # <<>> /\ ps2' = Tail(ps2) /\ s = Head(ps2)
           /\ CharOf(s) # NUL
           /\ Count < BUFFER_SIZE - 1
           => buffered' = Append(buffered, CharOf(s))]_vars
  <2> SUFFICES ASSUME Inv, Next, NEW s \in Scancode,
                      ps2 # <<>>, ps2' = Tail(ps2), s = Head(ps2),
                      CharOf(s) # NUL, Count < BUFFER_SIZE - 1
               PROVE  buffered' = Append(buffered, CharOf(s))
    OBVIOUS
  <2>1. push(CharOf(s))
    BY OnlyHandlerReads
  <2> QED BY <2>1, CharOfType, PushFacts DEF Inv
<1> QED BY <1>1, Invariance, PTL DEF Spec, AcceptsWhileRoom

(* The kernel boots before it registers the handler.                         *)
BootInv == pc = "boot" => interrupt_handlers = {}

LEMMA BootsOnce == Spec => []BootInv
<1>1. Init => BootInv
  BY DEF Init, BootInv
<1>2. BootInv /\ [Next]_vars => BootInv'
  <2> SUFFICES ASSUME BootInv, [Next]_vars PROVE BootInv'
    OBVIOUS
  <2>1. CASE UNCHANGED vars
    BY <2>1 DEF BootInv, vars, cpu
  <2>2. CASE KeyEvent \/ TimerTick
    BY <2>2 DEF KeyEvent, TimerTick, BootInv, cpu
  <2>3. CASE Irq
    BY <2>3 DEF Irq, irq_handler, BootInv
  <2>4. CASE Main
    BY <2>4 DEF BootInv, Main, isr_install, sti, keyboard_init, shell, getc_test, hlt,
                getc_read, getc_return
  <2> QED BY <2>1, <2>2, <2>3, <2>4 DEF Next
<1> QED BY <1>1, <1>2, PTL DEF Spec

(* From keyboard_init on no interrupt, and nothing main does, leaves a       *)
(* scancode in the controller whose request is gone.                         *)
THEOREM NoWedge == Spec => NoWedgeAfterInit
<1>1. Inv /\ BootInv /\ [Next]_vars => [Wedged' => Wedged \/ interrupt_handlers = {}]_vars
  <2> SUFFICES ASSUME Inv, BootInv, Next, Wedged', ~ Wedged, interrupt_handlers # {}
               PROVE  FALSE
    OBVIOUS
  <2>1. interrupt_handlers = {KEYBOARD}
    BY DEF Inv, TypeOK
  <2>2. CASE KeyEvent
    BY <2>2 DEF KeyEvent, Wedged
  <2>3. CASE TimerTick
    BY <2>3 DEF TimerTick, Wedged
  <2>4. ASSUME NEW line \in Lines, irq_handler(line) PROVE FALSE
    <3>1. CASE line = KEYBOARD
      BY <2>1, <2>4, <3>1 DEF irq_handler, keyboard_handler, Wedged
    <3>2. CASE line = TIMER
      <4>1. line \notin interrupt_handlers /\ line # KEYBOARD
        BY <2>1, <3>2 DEF TIMER, KEYBOARD
      <4>2. irr' = irr \ {line} /\ ps2' = ps2
        BY <2>4, <4>1 DEF irq_handler
      <4> QED BY <4>1, <4>2 DEF Wedged
    <3> QED BY <3>1, <3>2 DEF Lines
  <2>5. CASE Main
    <3>1. pc # "boot"
      BY <2>1 DEF BootInv
    <3> QED BY <2>5, <3>1 DEF Main, isr_install, sti, keyboard_init, shell, getc_test, hlt,
                              getc_read, getc_return, Wedged, pic
  <2> QED BY <2>2, <2>3, <2>4, <2>5 DEF Next, Irq
<1> QED BY <1>1, Invariance, BootsOnce, PTL DEF Spec, NoWedgeAfterInit
=============================================================================
