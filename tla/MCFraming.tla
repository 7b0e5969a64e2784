------------------------------ MODULE MCFraming ------------------------------
(* Two messages on one connection of any kind, for the cfg files Framing_*.cfg. *)
EXTENDS Framing

\* Which kinds have one writer; the others have two here.
OneWriter == {"MNP-MRT", "ON-ON", "P2P", "P2T"}
WritersOf == [l \in AllLinks |-> IF l \in OneWriter THEN {"a"} ELSE {"a", "b"}]

Strings(letters, n) == [1 .. n -> letters]
SomeBodies ==
  [l \in AllLinks |->
     CASE l = "ON-ON" -> {<<>>} \cup Strings({"!", "&", "#"}, 1) \cup Strings({"!", "&", "#"}, 2)
       [] l = "P2P" -> Strings({"!", "^"}, 2)
       [] l \in Tables -> {<<"^", "!">>}
       [] OTHER -> Strings({"!", "&", "#"}, 2)]
SomeFiles ==
  [l \in AllLinks |->
     CASE l = "P2P" -> {<<d>> : d \in {<<>>, <<"#", "!">>, <<"!", "!", "^">>}}
       [] l \in Tables -> {<<>>, <<<<"!", "!">>>>, <<<<"$", "!">>, <<"#", "!">>>>}
       [] OTHER -> {<<>>}]
=============================================================================
