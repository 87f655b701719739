------------------------------ MODULE Keyboard ------------------------------
(***************************************************************************)
(* keyboard_handler (kernel/src/keyboard.c): what a byte from the keyboard  *)
(* does to the modifiers, and what it sends to the guest.  The characters   *)
(* are an excerpt of the four tables, one key of every kind the handler     *)
(* tells apart.                                                             *)
(***************************************************************************)
EXTENDS Integers

KeyReg == "key"                             \* DAWN_KEYBOARD_BASE
ClickRegs == {"left", "right", "middle"}    \* DAWN_MOUSE_CLICK_L, _R, _M
RelRegs == {"relx", "rely"}                 \* DAWN_MOUSE_REL_X, _Y

(* extra_scancodes, shift_active, ctrl_active, capslock_active *)
Modifiers == [extra : BOOLEAN, shift : BOOLEAN, ctrl : BOOLEAN, caps : BOOLEAN]

NoModifiers == [extra |-> FALSE, shift |-> FALSE, ctrl |-> FALSE, caps |-> FALSE]

(* What is sent: through the I/O ring, straight to a register, or nothing *)
Sent(by, reg, val) == [by |-> by, reg |-> reg, val |-> val]
Nothing == Sent("none", KeyReg, 0)
Key(val) == Sent("ring", KeyReg, val)

Shift == {\h2A, \h36}
ShiftRel == {\hAA, \hB6}
Ctrl == \h1D
CtrlRel == \h9D
CapsLock == \h3A
ModifierBytes == Shift \cup ShiftRel \cup {Ctrl, CtrlRel, CapsLock}
MaxCode == \h57

(* ctrl, the only modifier an extended byte changes *)
CtrlAfter(ctrl, b) == (ctrl /\ b # CtrlRel) \/ b = Ctrl

(* Mutant: the right ctrl key is not let go *)
ExtraModifiersStuck(kb, b) ==
  [kb EXCEPT !.extra = FALSE, !.ctrl = @ \/ b = Ctrl]

ExtraModifiers(kb, b) == [kb EXCEPT !.extra = FALSE, !.ctrl = CtrlAfter(@, b)]

(* the byte after 0xe0: arrows, page up and down, delete *)
ExtraKey(kb, b) ==
  CASE b = \h48 -> Key(IF kb.shift THEN 18 ELSE 14)
    [] b = \h4B -> Key(IF kb.shift THEN 19 ELSE IF kb.ctrl THEN 4 ELSE 15)
    [] b = \h50 -> Key(IF kb.shift THEN 20 ELSE 16)
    [] b = \h4D -> Key(IF kb.shift THEN 21 ELSE IF kb.ctrl THEN 7 ELSE 17)
    [] b = \h49 -> Key(9)
    [] b = \h51 -> Key(10)
    [] b = \h53 -> Key(29)
    [] OTHER -> Nothing

(* The keypad is a mouse, in units of 0x3000000, and the hardware mouse is off *)
KeypadBytes ==
  {\h4B, \h4D, \h48, \h50, \h47, \hC7, \h49, \hC9, \h4C, \hCC}

KeypadKey(b) ==
  CASE b = \h4B -> Sent("ring", "relx", -1)
    [] b = \h4D -> Sent("ring", "relx", 1)
    [] b = \h48 -> Sent("ring", "rely", -1)
    [] b = \h50 -> Sent("ring", "rely", 1)
    [] b \in {\h47, \hC7} -> Sent("direct", "left", IF b = \h47 THEN 1 ELSE 0)
    [] b \in {\h49, \hC9} -> Sent("direct", "right", IF b = \h49 THEN 1 ELSE 0)
    [] OTHER -> Sent("direct", "middle", IF b = \h4C THEN 1 ELSE 0)

(* Mutant: capslock as a shift that stays down *)
PlainModifiersLocked(kb, b) ==
  [kb EXCEPT !.shift = IF b = CapsLock THEN ~@ ELSE (@ /\ b \notin ShiftRel) \/ b \in Shift,
             !.ctrl = CtrlAfter(@, b)]

PlainModifiers(kb, b) ==
  [kb EXCEPT !.shift = (@ /\ b \notin ShiftRel) \/ b \in Shift,
             !.ctrl = CtrlAfter(@, b),
             !.caps = IF b = CapsLock THEN ~@ ELSE @]

(* x, c, v and a: capslock and shift undo each other *)
Letters == [b \in {\h2D, \h2E, \h2F, \h1E} |->
              CASE b = \h2D -> <<120, 88>> [] b = \h2E -> <<99, 67>>
                [] b = \h2F -> <<118, 86>> [] OTHER -> <<97, 65>>]

(* escape, backspace, tab, enter, and alt, which has no character *)
Fixed == [b \in {\h01, \h0E, \h0F, \h1C, \h38} |->
            CASE b = \h01 -> 27 [] b = \h0E -> 8 [] b = \h0F -> 9
              [] b = \h1C -> 10 [] OTHER -> 0]

(* The tables end with the space bar (0x39): beyond, up to MAX_CODE, the     *)
(* read is out of bounds and gives any byte, here g.                         *)
Ascii(kb, b, g) ==
  IF b \in DOMAIN Letters THEN Letters[b][IF kb.shift # kb.caps THEN 2 ELSE 1]
  ELSE IF b \in DOMAIN Fixed THEN Fixed[b]
  ELSE g

(* ctrl with v, x and c; enter; the rest as it is *)
CodeOf(kb, c) ==
  CASE kb.ctrl /\ c \in {118, 86} -> 22
    [] kb.ctrl /\ c \in {120, 88} -> 23
    [] kb.ctrl /\ c \in {99, 67} -> 25
    [] c = 10 -> 13
    [] OTHER -> c

(* The bytes that switch the hardware mouse off *)
MouseOff(kb, b) == ~kb.extra /\ b \in KeypadBytes

(* keyboard_handler: the modifiers after byte b, and what it sends *)
ModifiersAfter(kb, b) ==
  IF b = \hE0 THEN [kb EXCEPT !.extra = TRUE]
  ELSE IF kb.extra THEN ExtraModifiers(kb, b)
  ELSE IF b \in ModifierBytes THEN PlainModifiers(kb, b)
  ELSE kb

SentBy(kb, b, g) ==
  IF b = \hE0 THEN Nothing
  ELSE IF kb.extra THEN ExtraKey(kb, b)
  ELSE IF b \in KeypadBytes THEN KeypadKey(b)
  ELSE IF b \in ModifierBytes \/ b >= MaxCode THEN Nothing
  ELSE Key(CodeOf(kb, Ascii(kb, b, g)))
=============================================================================
