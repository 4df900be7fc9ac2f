------------------------------ MODULE MCWsPool ------------------------------
(* Instances of WsPool for TLC. *)
EXTENDS WsPool, TLC

CONSTANTS h1, h2, s1, s2

HandlersTwo == {h1, h2}
HandlersOne == {h1}
SlotsOne == {s1}
SlotsTwo == {s1, s2}
SizesSmall == {1, 2}

SymHandlers == Permutations(HandlersTwo)
=============================================================================
