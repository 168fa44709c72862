----------------------------- MODULE MCGameLoop -----------------------------
(***************************************************************************)
(* Small levels for GameLoop.                                              *)
(***************************************************************************)
EXTENDS GameLoop

MCTexturePaths ==
    [level \in 1 .. MaxLevels |->
        IF level = 1 THEN <<"default", "wall">> ELSE <<"default">>]

MCFileNumbers == [level \in 1 .. MaxLevels |-> level]
=============================================================================
