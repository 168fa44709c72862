--------------------------- MODULE MCLevelManager ---------------------------
(***************************************************************************)
(* Small levels for LevelManager: level 1 has a wall texture and a         *)
(* background, level 2 only a wall, further ones only the default.         *)
(***************************************************************************)
EXTENDS LevelManager

MCTexturePaths ==
    [level \in 1 .. MaxLevels |->
        CASE level = 1 -> <<"default", "background", "wall">>
          [] level = 2 -> <<"default", "desk", "wall">>
          [] OTHER -> <<"default">>]

\* The last file states no number.
MCFileNumbers == [level \in 1 .. MaxLevels - 1 |-> level]
=============================================================================
