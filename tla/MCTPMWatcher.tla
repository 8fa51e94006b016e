--------------------------- MODULE MCTPMWatcher ---------------------------
(* Model-checking instances of TPMWatcher, with two bytes per device ID. *)
EXTENDS TPMWatcher, Bitwise

MCBitXor(a, b) == a ^^ b

(* With and without the algorithm identifier; one byte short; empty. *)
MCNames == {<<0, 11, 1, 2, 3, 5>>, <<8, 4, 1, 1>>, <<0, 11, 1, 2, 3>>, <<>>}
============================================================================
