----------------------------- MODULE LevelLoader -----------------------------
(***************************************************************************)
(* What LevelManager promises to the main loop, without fades, files or    *)
(* textures: one load at a time, into the one LevelData the game owns.     *)
(* The current level changes only when a load is delivered, and a load     *)
(* that fails leaves it alone.  LevelManager.tla implements this module.   *)
(***************************************************************************)
EXTENDS Naturals

CONSTANT MaxLevels          \* setMaxLevels

Levels == 1 .. MaxLevels

\* 0 stands for "no level": nothing loaded yet, or nothing in the slot.
NoLevel == 0

VARIABLES
    job,        \* "idle", "pending" (accepted, not yet delivered) or "loaded"
    current,    \* the level number the game is at
    target,     \* the level the last accepted request names
    slot        \* the level whose platforms the caller's LevelData holds

loaderVars == <<job, current, target, slot>>

Init ==
    /\ job = "idle"
    /\ current = NoLevel
    /\ target = NoLevel
    /\ slot = NoLevel

(***************************************************************************)
(* The owner's calls, all only between jobs.                               *)
(***************************************************************************)
Reset ==
    /\ job = "idle"
    /\ current' = NoLevel
    /\ UNCHANGED <<job, target, slot>>

Request(level) ==
    /\ job = "idle"
    /\ job' = "pending"
    /\ target' = level
    /\ UNCHANGED <<current, slot>>

\* Reset and request together: a new game.
RequestFirst ==
    /\ job = "idle"
    /\ job' = "pending"
    /\ target' = 1
    /\ current' = NoLevel
    /\ UNCHANGED slot

(***************************************************************************)
(* The loader's steps.                                                     *)
(***************************************************************************)
Fill ==
    /\ job = "pending"
    /\ slot # target
    /\ slot' = target
    /\ UNCHANGED <<job, current, target>>

Deliver ==
    /\ job = "pending"
    /\ slot = target
    /\ job' = "loaded"
    /\ current' = target
    /\ UNCHANGED <<target, slot>>

\* A load that fails may have emptied the slot, never refilled it.
Abort ==
    /\ job = "pending"
    /\ job' = "idle"
    /\ slot' \in {slot, NoLevel}
    /\ UNCHANGED <<current, target>>

Finish ==
    /\ job = "loaded"
    /\ job' = "idle"
    /\ UNCHANGED <<current, target, slot>>

LoaderStep == Fill \/ Deliver \/ Abort \/ Finish

Next ==
    \/ Reset
    \/ RequestFirst
    \/ \E level \in Levels : Request(level)
    \/ LoaderStep

Spec == Init /\ [][Next]_loaderVars

FairSpec == Spec /\ WF_loaderVars(LoaderStep)
=============================================================================
