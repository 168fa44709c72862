--------------------------- MODULE MCWorldObjects ---------------------------
(***************************************************************************)
(* Small levels for WorldObjects.                                          *)
(***************************************************************************)
EXTENDS WorldObjects, TLC

Platform(id, type) ==
    [id |-> id, type |-> type, portalID |-> 0, initiallyFalling |-> FALSE]

Portal(id, portalID) == [Platform(id, "portal") EXCEPT !.portalID = portalID]

\* Vanishing platforms of both groups, a portal to one of them and a pair of
\* portals, walls with a shared id, and two switches.
MCLevel ==
    <<Platform(1, "falling"), Platform(2, "vanishing"), Platform(3, "vanishing"),
      Platform(4, "interactible"), Platform(5, "solid"), Platform(5, "platform"),
      Platform(6, "interactible"), Portal(7, 2), Portal(8, 7)>>

\* Switch 4 can be used again and moves the wall, switch 6 works once and is
\* linked to the falling platform.
MCInteractions ==
    4 :> [target |-> "interactible", oneTime |-> FALSE, cooldown |-> 3, linkedID |-> 5] @@
    6 :> [target |-> "none", oneTime |-> TRUE, cooldown |-> 0, linkedID |-> 1]

MCDepths == [i \in DOMAIN Platforms |-> 1]
=============================================================================
