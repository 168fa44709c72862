-------------------------- MODULE MCPlayerPhysics --------------------------
(***************************************************************************)
(* Small levels for PlayerPhysics.                                         *)
(***************************************************************************)
EXTENDS PlayerPhysics

V(h, v) == [x |-> h, y |-> v]

Still == [f \in 0 .. 1 |-> Zero]

Body(kind, x, y, w, h) ==
    [kind |-> kind, at |-> V(x, y), size |-> V(w, h), surface |-> Zero, path |-> Still]

Carrying(body, v) == [body EXCEPT !.surface = v]

Travelling(body, a, v) ==
    [body EXCEPT !.path = [f \in 0 .. 1 |-> IF f = 0 THEN Zero ELSE [Zero EXCEPT ![a] = v]]]

\* The floor is a conveyor, listed first, and a tile; it runs from a pit to a wall.
\* Above it are a one-way platform and a ceiling, in the pit a mover and a spring.
MCLevel ==
    <<Carrying(Body("conveyorBelt", 8, 16, 6, 3), V(2, 0)), Body("solid", 0, 16, 8, 3),
      Body("solid", 14, -20, 3, 36), Body("platform", 0, 7, 4, 2),
      Body("solid", 0, -9, 10, 2), Travelling(Body("moving", -7, 16, 4, 3), "x", 2),
      Body("spring", -11, 20, 4, 3), Body("vanishing", 4, 2, 4, 2),
      Body("trap", -15, 20, 3, 4)>>

\* A one-way platform above a floor.
MCOneWay == <<Body("solid", 0, 16, 16, 3), Body("platform", 0, 7, 6, 2)>>

MCOneWayStart == V(1, -3)

\* The right end of the upper floor of level3.json: the wall beside it is lower, and its
\* height is negative.
MCUpturned == <<Body("solid", 0, 0, 12, 3), Body("solid", 12, 24, 4, -20)>>

MCUpturnedStart == V(6, -8)

\* The floor of level2.json and the player, at the eighth of their sizes.  He starts at
\* the origin, in the floor.
MCInFloor == <<Body("solid", -1, 4, 62, 4)>>

MCInFloorStart == V(0, 0)

MCInFloorSize == V(6, 8)

MCStart == V(2, 8)

MCSize == V(4, 8)

MCKeySets == {{"left", "jump"}, {"right", "shift"}, {"jump"}, {"drop"}}
=============================================================================
