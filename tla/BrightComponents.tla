-------------------------- MODULE BrightComponents --------------------------
(***************************************************************************)
(* findBrightBoundingBox: where in a picture the part is.  The picture is  *)
(* scanned line by line; from each bright pixel not visited yet a flood    *)
(* fill collects all it is connected with, and the largest regions are     *)
(* remembered, the largest of all and the largest off the border.          *)
(*                                                                         *)
(* A picture is the set of its bright pixels, a pixel a pair <<x, y>>.     *)
(* Pixels without effect are skipped by the scan in one step.              *)
(***************************************************************************)
EXTENDS Integers, FiniteSets, SequencesExt

CONSTANTS Width, Height,
          Pictures,                \* the pictures that may be taken
          MinComponentAreaPixels,  \* 20
          CompactComponentMinArea, \* 120
          NonBorderFallbackMinArea \* 80

Grid == (0 .. Width - 1) \X (0 .. Height - 1)

ASSUME BrightComponentsAssumption ==
  /\ Width \in Nat \ {0} /\ Height \in Nat \ {0}
  /\ Pictures \subseteq SUBSET Grid
  /\ MinComponentAreaPixels \in Nat \ {0}
  /\ CompactComponentMinArea \in Nat /\ NonBorderFallbackMinArea \in Nat

VARIABLES bright,            \* the picture
          visited, start, stack, component,
          bestAny, bestNonBorder,
          phase, foundBox    \* what is being done, and the result

search == <<visited, start, stack, component, bestAny, bestNonBorder>>
searchVars == <<bright, search, phase, foundBox>>

MinOf(a, b) == IF a < b THEN a ELSE b
MaxOf(a, b) == IF a < b THEN b ELSE a

DefaultBox == [minX |-> 0, minY |-> 0, maxX |-> -1, maxY |-> -1]
NoComponent == [box |-> DefaultBox, area |-> 0, touchesBorder |-> FALSE]

OnBorder(p) == p[1] \in {0, Width - 1} \/ p[2] \in {0, Height - 1}

(* The order of the scan.                                                  *)
Before(p, q) == p[2] < q[2] \/ (p[2] = q[2] /\ p[1] < q[1])

(* canVisitBrightPixel                                                     *)
Visitable == bright \ visited

(* Mutant: corners do not connect.                                         *)
NeighboursAtSides(p) ==
  SelectSeq(<< <<p[1], p[2] - 1>>, <<p[1] - 1, p[2]>>, <<p[1] + 1, p[2]>>, <<p[1], p[2] + 1>> >>,
            LAMBDA q : q \in Visitable)

(* The nine pixels with p in the middle, in the order of the fill: dy,     *)
(* then dx.                                                                *)
Beside(p, i) == <<p[1] - 1 + ((i - 1) % 3), p[2] - 1 + ((i - 1) \div 3)>>

(* The neighbours to visit.                                                *)
Neighbours(p) ==
  LET kept[i \in 0 .. 9] ==
        IF i = 0 THEN <<>>
        ELSE IF Beside(p, i) # p /\ Beside(p, i) \in Visitable
             THEN Append(kept[i - 1], Beside(p, i))
        ELSE kept[i - 1]
  IN  kept[9]

SearchInit ==
  /\ bright \in Pictures
  /\ visited = {} /\ start = <<0, 0>> /\ stack = <<>>
  /\ component = NoComponent
  /\ bestAny = NoComponent /\ bestNonBorder = NoComponent
  /\ phase = "scan" /\ foundBox = DefaultBox

StartFill(p) ==
  /\ phase = "scan"
  /\ p \in Visitable /\ \A q \in Visitable : ~Before(q, p)
  /\ start' = p
  /\ component' = [NoComponent EXCEPT !.box = [minX |-> p[1], minY |-> p[2],
                                               maxX |-> p[1], maxY |-> p[2]]]
  /\ stack' = <<p>>
  /\ visited' = visited \cup {p}
  /\ phase' = "fill"
  /\ UNCHANGED <<bright, bestAny, bestNonBorder, foundBox>>

WithPixel(c, p) ==
  [area |-> c.area + 1,
   touchesBorder |-> c.touchesBorder \/ OnBorder(p),
   box |-> [minX |-> MinOf(c.box.minX, p[1]), minY |-> MinOf(c.box.minY, p[2]),
            maxX |-> MaxOf(c.box.maxX, p[1]), maxY |-> MaxOf(c.box.maxY, p[2])]]

Visit(p) ==
  /\ phase = "fill"
  /\ stack # <<>> /\ p = Last(stack)
  /\ component' = WithPixel(component, p)
  /\ visited' = visited \cup ToSet(Neighbours(p))
  /\ stack' = Front(stack) \o Neighbours(p)
  /\ UNCHANGED <<bright, start, bestAny, bestNonBorder, phase, foundBox>>

(* Mutant: of two regions of one size the later is taken.                  *)
LargerOrEqual(best, c) == IF c.area >= best.area THEN c ELSE best

Larger(best, c) == IF c.area > best.area THEN c ELSE best

Compare ==
  /\ phase = "fill"
  /\ stack = <<>>
  /\ IF component.area < MinComponentAreaPixels THEN UNCHANGED <<bestAny, bestNonBorder>>
     ELSE /\ bestAny' = Larger(bestAny, component)
          /\ bestNonBorder' = IF component.touchesBorder THEN bestNonBorder
                              ELSE Larger(bestNonBorder, component)
  /\ phase' = "scan"
  /\ UNCHANGED <<bright, visited, start, stack, component, foundBox>>

(* shouldPreferCompactNonBorder; an aspect of at most 1.35.                *)
Compact(c) ==
  LET width  == c.box.maxX - c.box.minX + 1
      height == c.box.maxY - c.box.minY + 1
  IN  /\ c.area > 0 /\ c.area >= CompactComponentMinArea
      /\ 20 * MaxOf(width, height) <= 27 * MaxOf(1, MinOf(width, height))

Finish ==
  /\ phase = "scan"
  /\ Visitable = {}
  /\ foundBox' =
       IF \/ Compact(bestNonBorder)
          \/ /\ bestNonBorder.area > 0
             /\ bestNonBorder.area >= MaxOf(NonBorderFallbackMinArea, bestAny.area \div 3)
       THEN bestNonBorder.box ELSE bestAny.box
  /\ phase' = "found"
  /\ UNCHANGED <<bright, search>>

SearchNext ==
  \/ \E p \in Visitable : StartFill(p)
  \/ \E p \in visited : Visit(p)
  \/ Compare
  \/ Finish

SearchSpec == SearchInit /\ [][SearchNext]_searchVars

-----------------------------------------------------------------------------
(* What a picture shows, said without a search: its regions are the        *)
(* classes of pixels that chains of touching pixels connect.               *)
Touching(p) == {p[1] - 1, p[1], p[1] + 1} \X {p[2] - 1, p[2], p[2] + 1}

Region(p) ==
  LET within[n \in 0 .. Cardinality(bright)] ==
        IF n = 0 THEN {p}
        ELSE UNION {bright \cap Touching(r) : r \in within[n - 1]}
  IN  within[Cardinality(bright)]

Extreme(S, c, Worse(_, _)) == (CHOOSE p \in S : \A q \in S : ~Worse(p[c], q[c]))[c]
Shape(R) ==
  LET less(a, b) == a < b
      greater(a, b) == a > b
  IN [area |-> Cardinality(R),
      touchesBorder |-> \E p \in R : OnBorder(p),
      box |-> [minX |-> Extreme(R, 1, greater), minY |-> Extreme(R, 2, greater),
               maxX |-> Extreme(R, 1, less),    maxY |-> Extreme(R, 2, less)]]

(* A flood fill has seen the whole region of its start, every pixel of it  *)
(* once, and nothing else.                                                 *)
FillIsRegion ==
  phase = "fill" /\ stack = <<>> =>
    /\ component = Shape(Region(start))
    /\ Region(start) \subseteq visited

(* The regions of the picture, each with the pixel it is found by.         *)
Beginning(R) == CHOOSE p \in R : \A q \in R : ~Before(q, p)
Regions == {[shape |-> Shape(R), start |-> Beginning(R)] : R \in {Region(p) : p \in bright}}

(* The largest of them, the one found first among equals.                  *)
Largest(S) ==
  (CHOOSE r \in S : \A q \in S \ {r} :
     \/ q.shape.area < r.shape.area
     \/ q.shape.area = r.shape.area /\ Before(r.start, q.start)).shape

(* The search finds the part as the rule says: a region that is too small  *)
(* is no candidate; the largest off the border wins if it is large and     *)
(* compact, or not too small next to the largest of all; else the largest  *)
(* of all; with no candidate there is no box.                              *)
FindsByRule ==
  phase = "found" =>
    LET big == {r \in Regions : r.shape.area >= MinComponentAreaPixels}
        inside == {r \in big : ~r.shape.touchesBorder}
        preferred(c) == \/ Compact(c)
                        \/ c.area >= NonBorderFallbackMinArea
                           /\ c.area >= Largest(big).area \div 3
    IN  foundBox = IF big = {} THEN DefaultBox
                   ELSE IF inside # {} /\ preferred(Largest(inside))
                   THEN Largest(inside).box ELSE Largest(big).box

=============================================================================
