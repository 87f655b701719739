---------------------------- MODULE KeyboardKeys ----------------------------
(***************************************************************************)
(* The keyboard handler against a keyboard: keys go down, repeat and come up *)
(* in any order, their bytes wait in the controller, and the handler takes   *)
(* them one interrupt at a time.  The keyboard is external: scancode set 1,  *)
(* as the handler's constants are.                                           *)
(***************************************************************************)
EXTENDS Keyboard, Sequences

CONSTANTS
  Keys,      \* the keys somebody presses, of KnownKeys
  WireLen,   \* bound: bytes waiting in the controller
  Garbage    \* what a read past the end of a table may give

(* A key's byte, with 128 added when it comes up, after 0xe0 if extended *)
Scancode(ext, b) == [ext |-> ext, byte |-> b]

KeyOf == [k \in {"lshift", "rshift", "lctrl", "rctrl", "capslock", "up", "left",
                 "pgup", "keypad4", "tab", "enter", "x", "alt", "f1"} |->
  CASE k = "lshift" -> Scancode(FALSE, \h2A)
    [] k = "rshift" -> Scancode(FALSE, \h36)
    [] k = "lctrl" -> Scancode(FALSE, \h1D)
    [] k = "rctrl" -> Scancode(TRUE, \h1D)
    [] k = "capslock" -> Scancode(FALSE, \h3A)
    [] k = "up" -> Scancode(TRUE, \h48)
    [] k = "left" -> Scancode(TRUE, \h4B)
    [] k = "pgup" -> Scancode(TRUE, \h49)
    [] k = "keypad4" -> Scancode(FALSE, \h4B)
    [] k = "tab" -> Scancode(FALSE, \h0F)
    [] k = "enter" -> Scancode(FALSE, \h1C)
    [] k = "x" -> Scancode(FALSE, \h2D)
    [] k = "alt" -> Scancode(FALSE, \h38)
    [] k = "f1" -> Scancode(FALSE, \h3B)]

KnownKeys == DOMAIN KeyOf

ASSUME KeysAssumption ==
  /\ Keys \subseteq KnownKeys
  /\ WireLen \in Nat
  /\ Garbage \subseteq 0 .. 255 /\ Garbage # {}

VARIABLES
  kb,     \* the handler's modifiers
  held,   \* the keys that are down
  wire,   \* bytes from the keyboard, oldest first, each with its key and
          \* whether a shift and a ctrl key were down
  sent    \* what the last interrupt sent, and for which byte

vars == <<kb, held, wire, sent>>

Init ==
  /\ kb = NoModifiers
  /\ held = {}
  /\ wire = <<>>
  /\ sent = [of |-> [key |-> "none", byte |-> 0, shift |-> FALSE, ctrl |-> FALSE],
             what |-> Nothing]

ShiftHeld == held \cap {"lshift", "rshift"} # {}
CtrlHeld == held \cap {"lctrl", "rctrl"} # {}

Byte(k, b) == [key |-> k, byte |-> b, shift |-> ShiftHeld, ctrl |-> CtrlHeld]

Bytes(k, up) ==
  LET b == Byte(k, KeyOf[k].byte + (IF up THEN 128 ELSE 0))
  IN IF KeyOf[k].ext THEN <<Byte(k, \hE0), b>> ELSE <<b>>

Put(k, up) ==
  /\ Len(wire) + Len(Bytes(k, up)) <= WireLen
  /\ wire' = wire \o Bytes(k, up)
  /\ UNCHANGED <<kb, sent>>

(* a key goes down, or repeats *)
Press(k) == Put(k, FALSE) /\ held' = held \cup {k}

Release(k) == k \in held /\ Put(k, TRUE) /\ held' = held \ {k}

(* keyboard_isr *)
Interrupt ==
  /\ wire # <<>>
  /\ \E g \in Garbage :
       sent' = [of |-> Head(wire), what |-> SentBy(kb, Head(wire).byte, g)]
  /\ kb' = ModifiersAfter(kb, Head(wire).byte)
  /\ wire' = Tail(wire)
  /\ UNCHANGED held

Next == \/ \E k \in Keys : Press(k) \/ Release(k)
        \/ Interrupt

Spec == Init /\ [][Next]_vars

-----------------------------------------------------------------------------
(* A modifier is active only while one of its keys is down: none sticks,     *)
(* whatever the order in which left, right and extended keys come up         *)
(* (keyboard.c 105-110, 170-190).                                            *)
NoStuckModifier ==
  wire = <<>> =>
    /\ ~kb.extra
    /\ kb.shift => ShiftHeld
    /\ kb.ctrl => CtrlHeld

(* hardware.txt 96-128, for the keys modelled: whether the special code is   *)
(* the one of the key that was pressed, with the modifiers that were down    *)
Documented(code, of) ==
  CASE code = 4 -> of.key = "left" /\ of.ctrl
    [] code = 9 -> of.key = "pgup"
    [] code = 13 -> of.key = "enter"
    [] code = 14 -> of.key = "up" /\ ~of.shift
    [] code = 15 -> of.key = "left" /\ ~of.shift /\ ~of.ctrl
    [] code = 18 -> of.key = "up" /\ of.shift
    [] code = 19 -> of.key = "left" /\ of.shift
    [] code = 23 -> of.key = "x" /\ of.ctrl
    [] OTHER -> FALSE

(* "There are special keycodes, those are the folowing" (hardware.txt 95): a *)
(* special code sent to the guest is the one listed for the key pressed with *)
(* the modifiers that were down then, however late the interrupt is.         *)
SpecialCodesAsDocumented ==
  sent.what.reg = KeyReg /\ sent.what.val \in 1 .. 31 =>
    Documented(sent.what.val, sent.of)
=============================================================================
