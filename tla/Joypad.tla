------------------------------- MODULE Joypad -------------------------------
(***************************************************************************)
(* The controller at 0x4016 (lib/controller/controller.cpp): a shift       *)
(* register that the strobe's falling edge loads with the eight keys.      *)
(***************************************************************************)
EXTENDS Integers

\* The order of the bits of joy1_register_, the lowest first.
Buttons == <<"A", "B", "Select", "Start", "Up", "Down", "Left", "Right">>

Button == {Buttons[k] : k \in 1 .. 8}

Pressed(keys, k) == IF Buttons[k] \in keys THEN 1 ELSE 0

\* Mutant of RegisterOf: the register in the other order.
RegisterReversed(keys) ==
    Pressed(keys, 8) + 2 * Pressed(keys, 7) + 4 * Pressed(keys, 6) + 8 * Pressed(keys, 5)
    + 16 * Pressed(keys, 4) + 32 * Pressed(keys, 3) + 64 * Pressed(keys, 2) + 128 * Pressed(keys, 1)

RegisterOf(keys) ==
    Pressed(keys, 1) + 2 * Pressed(keys, 2) + 4 * Pressed(keys, 3) + 8 * Pressed(keys, 4)
    + 16 * Pressed(keys, 5) + 32 * Pressed(keys, 6) + 64 * Pressed(keys, 7) + 128 * Pressed(keys, 8)

\* Neither member is initialised.
PadPowerOn(Garbage) == [reg : Garbage, strobe : BOOLEAN]

\* Mutant of WriteStrobe: the keys are read when the strobe rises.
WriteStrobeRising(pad, keys, v) ==
    LET new == v % 2 = 1
    IN  [reg |-> IF ~pad.strobe /\ new THEN RegisterOf(keys) ELSE pad.reg, strobe |-> new]

WriteStrobe(pad, keys, v) ==
    LET new == v % 2 = 1
    IN  [reg |-> IF pad.strobe /\ ~new THEN RegisterOf(keys) ELSE pad.reg, strobe |-> new]

ReadJoy1(pad) == pad.reg % 2

\* Mutant of AfterReadJoy1: the bits are rotated, not shifted out.
RotatedJoy1(pad) == [pad EXCEPT !.reg = (@ \div 2) + 128 * (@ % 2)]

AfterReadJoy1(pad) == [pad EXCEPT !.reg = @ \div 2]
=============================================================================
