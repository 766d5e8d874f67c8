---------------------------- MODULE MCAdbConnect ----------------------------
(* AdbConnect on small instances.  Versions and payload sizes stand for    *)
(* the constants of src/include/adb.hpp in their order: A_VERSION_MIN is 1 *)
(* and A_VERSION 2, MAX_PAYLOAD_V1 is 2.                                   *)
EXTENDS AdbConnect

Named == [type |-> "device", product |-> <<"pixel">>, features |-> <<<<"cmd">>, <<"abb">>>>]
Plain == [type |-> "device", product |-> <<>>, features |-> <<<<"abb">>>>]
Empty == [type |-> "device", product |-> <<"pixel">>, features |-> <<>>]
Other == [type |-> "other", product |-> <<"pixel">>, features |-> <<<<"cmd">>>>]

ASSUME PlainWords == PlainBanners({"device", "other", "pixel", "cmd", "abb"})

Greeting(b, v, m) == [banner |-> b, version |-> v, max |-> m]
Current == {Greeting(Named, 2, 2), Greeting(Other, 2, 2)}
AllGreetings == {Greeting(Named, 2, 1), Greeting(Plain, 0, 3), Greeting(Empty, 2, 3),
                 Greeting(Other, 0, 1)}

(* Nothing, or a word that no banner has put there.                        *)
Garbage == {<<>>, <<"cmd">>}
=============================================================================
