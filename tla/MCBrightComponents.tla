------------------------- MODULE MCBrightComponents -------------------------
(* Instance of BrightComponents for TLC: the pictures are what two         *)
(* rectangles leave of each other: rings, notches, and regions that touch  *)
(* at a corner only.                                                       *)
EXTENDS BrightComponents

Rectangle(x, y, u, v) == {p \in Grid : p[1] \in x .. u /\ p[2] \in y .. v}
Rectangles == {Rectangle(x, y, u, v) : x \in {0, 1}, y \in {0, 1}, u \in {2, 5}, v \in {5}}
Others     == {Rectangle(x, y, u, v) : x \in {1, 4, 5}, y \in 1 .. 3, u \in {2, 4, 5}, v \in 1 .. 4}

MCPictures ==
  {R \ S : R \in Rectangles, S \in Others}
  \cup {(R \ S) \cup (S \ R) : R \in Rectangles, S \in Others}
=============================================================================
