-------------------------------- MODULE MCChat --------------------------------
(***************************************************************************)
(* Small instances of the chat system for TLC.                             *)
(***************************************************************************)
EXTENDS ChatProps, TLC

CONSTANTS c1, c2, c3

MCUnit     == {"ann", "hi", "bye"}
MCBye      == <<"bye">>
OneName    == {<<"ann">>}
OneLine    == {<<"hi">>}
TwoFds     == 0 .. 1
ThreeFds   == 0 .. 2

Interchangeable == Permutations(Clients)
=============================================================================
