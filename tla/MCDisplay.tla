----------------------------- MODULE MCDisplay -----------------------------
(***************************************************************************)
(* Small levels for Display: the first and the last have a background.     *)
(***************************************************************************)
EXTENDS Display

MCTexturePaths ==
    <<<<"background", "default", "wall">>, <<"default">>, <<"background", "default">>>>

\* Two files have each other's number.
MCFileNumbers == <<1, 3, 2>>

MCLogicalSize == <<8, 6>>

MCFullscreenModes == <<<<19, 10>>>>

MCCommonModes == {<<8, 6>>, <<12, 7>>}
=============================================================================
