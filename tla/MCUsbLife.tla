----------------------------- MODULE MCUsbLife ------------------------------
(* UsbLife on devices with up to two interfaces: one that is not suitable, *)
(* or one with up to three endpoints of two sizes.                         *)
EXTENDS UsbLife, TLC

CONSTANTS b1, b2, c1, c2

E(b, o, s) == [bulk |-> b, out |-> o, size |-> s]
SomeEndpoints == {E(FALSE, FALSE, 1), E(TRUE, TRUE, 1), E(TRUE, FALSE, 1), E(TRUE, FALSE, 2)}
Lists(set, n) == UNION {[1..k -> set] : k \in 0..n}
Adb(endpoints) == [altsettings |-> 1, adb |-> TRUE, endpoints |-> endpoints]
Pair == <<E(TRUE, TRUE, 1), E(TRUE, FALSE, 1)>>
SomeInterfaces == {Adb(e) : e \in Lists(SomeEndpoints, 3)}
                  \cup {[Adb(Pair) EXCEPT !.altsettings = 2], [Adb(Pair) EXCEPT !.adb = FALSE]}

Usual == [perInterface |-> TRUE, interfaces |-> <<[Adb(Pair) EXCEPT !.adb = FALSE], Adb(Pair)>>]
SomeDevices == {[perInterface |-> TRUE, interfaces |-> i] : i \in Lists(SomeInterfaces, 2)}
               \cup {[Usual EXCEPT !.perInterface = FALSE]}
UsualDevices == {Usual}
Symmetry == Permutations(Callers) \cup Permutations(Bases)
=============================================================================
