----------------------------- MODULE Classifier -----------------------------
(***************************************************************************)
(* classifyWasher: the verdict on a picture, step by step, for pictures of *)
(* two levels of brightness.  How much of the picture is bright decides    *)
(* the threshold; the search for the part is module BrightComponents and   *)
(* here any box of Boxes; within the box only the number of dark pixels in *)
(* each zone around its centre matters.                                    *)
(*                                                                         *)
(* Means, ratios and the standard deviation are fractions with integer     *)
(* numerators; two results of the code that lie closer to a limit than the *)
(* integers tell are both possible.  The score is left out.                *)
(***************************************************************************)
EXTENDS Integers, FiniteSetsExt

CONSTANTS Levels,        \* pairs [dark, bright] of the two levels
          Shares,        \* of the picture that is bright, in percent
          Boxes,         \* <<width, height>> of what the search may find
          Some(_)        \* how many of n pixels outside the center may be dark

MaxImageDimension == 192

ASSUME ClassifierAssumption ==
  /\ Levels \subseteq [dark : 0 .. 255, bright : 0 .. 255]
  /\ \A l \in Levels : l.dark < l.bright
  /\ Shares \subseteq 0 .. 100
  /\ Boxes \subseteq (1 .. MaxImageDimension) \X (1 .. MaxImageDimension)
  /\ \A n \in 0 .. MaxImageDimension * MaxImageDimension : Some(n) \subseteq 0 .. n

VARIABLES stage,
          level, share,  \* the picture
          brightThreshold,
          box, dark,     \* what was found, and its dark pixels by zone
          verdict

picture == <<level, share>>
part == <<box, dark>>
vars == <<stage, picture, brightThreshold, part, verdict>>

-----------------------------------------------------------------------------
(* computeAdaptiveBrightThreshold, in millionths.                          *)

MaxRoot == 5000  \* of 10000 * 50 * 50
Root(n) == CHOOSE r \in 0 .. MaxRoot : r * r <= n /\ n < (r + 1) * (r + 1)

(* Mutant: the scale of the deviation is left out.                         *)
SpreadWhole(s) == 100 * Root(10000 * s * (100 - s))

(* 0.35 times the deviation, for a contrast of 1.                          *)
Spread(s) == 35 * Root(10000 * s * (100 - s))

Rounded(v) ==
  LET r == (v + 500000) \div 1000000
  IN  IF r < 32 THEN 32 ELSE IF r > 230 THEN 230 ELSE r

Thresholds(l, s) ==
  LET contrast == l.bright - l.dark
      value == 1000000 * l.dark + contrast * (10000 * s + Spread(s))
  IN  {Rounded(value), Rounded(value + 35 * contrast)}

-----------------------------------------------------------------------------
(* computeHoleFeatures.                                                    *)

Shorter(b) == Min({b[1], b[2]})
Longer(b) == Max({b[1], b[2]})

(* The zones of the circle in a box, by the square of twice the distance   *)
(* from its centre: within 0.38 of the radius the centre, from 0.50 to     *)
(* 0.92 the annulus, in which 0.52 is the limit for the dark mass.         *)
(* A distance that meets a limit is computed without rounding.             *)
Zones == {"center", "gap", "innerAnnulus", "outerAnnulus", "rim"}

OfAnnulus(f) == f["innerAnnulus"] + f["outerAnnulus"]
OfMassCenter(f) == f["center"] + f["gap"] + f["innerAnnulus"]
OfDisc(f) == OfMassCenter(f) + f["outerAnnulus"] + f["rim"]

ZoneOf(d, diameter2) ==
  CASE 2500 * d < 361 * diameter2 -> "center"
    [] 2500 * d >= 361 * diameter2 /\ 4 * d <= diameter2 -> "gap"
    [] 4 * d > diameter2 /\ 625 * d < 169 * diameter2 -> "innerAnnulus"
    [] 625 * d >= 169 * diameter2 /\ 625 * d < 529 * diameter2 -> "outerAnnulus"
    [] 625 * d >= 529 * diameter2 /\ d <= diameter2 -> "rim"
    [] OTHER -> "outside"

Pixels(b, z) ==
  {p \in (0 .. b[1] - 1) \X (0 .. b[2] - 1) :
     ZoneOf((2 * p[1] - b[1] + 1) * (2 * p[1] - b[1] + 1)
            + (2 * p[2] - b[2] + 1) * (2 * p[2] - b[2] + 1),
            Shorter(b) * Shorter(b)) = z}

Size == [b \in Boxes |-> [z \in Zones |-> Cardinality(Pixels(b, z))]]

EnoughSamples(b) ==
  LET minSampleCount == Max({10, Shorter(b) \div 5})
  IN  Size[b]["center"] >= minSampleCount /\ OfAnnulus(Size[b]) >= minSampleCount

(* Mutant: a pixel at the cutoff is not dark.                              *)
DarkEnoughBelow(b, c, d) ==
  c * (OfAnnulus(Size[b]) - OfAnnulus(d)) > 8 * OfAnnulus(Size[b])

(* A dark pixel is dark enough: 8 levels below the mean of the annulus.    *)
DarkEnough(b, c, d) ==
  c * (OfAnnulus(Size[b]) - OfAnnulus(d)) >= 8 * OfAnnulus(Size[b])

(* Mutant: the difference is taken the other way round.                    *)
AnnulusContrastReversed(b, c, d) ==
  c * (OfAnnulus(d) * Size[b]["center"] - d["center"] * OfAnnulus(Size[b]))

(* annulusMean - centerMean, as a multiple of 1 / both counts.             *)
AnnulusContrast(b, c, d) ==
  c * (d["center"] * OfAnnulus(Size[b]) - OfAnnulus(d) * Size[b]["center"])

Both(b) == Size[b]["center"] * OfAnnulus(Size[b])

(* holeStrength in thousandths, less what the four divisions drop: the     *)
(* true value is less than 4 above.                                        *)
HoleStrength(b, c, d) ==
  LET counted == IF DarkEnough(b, c, d) THEN d ELSE [z \in Zones |-> 0]
      all == OfDisc(counted)
  IN  (580 * AnnulusContrast(b, c, d)) \div Both(b)
      + (28000 * counted["center"]) \div Size[b]["center"]
      + (IF all = 0 THEN 0 ELSE (18000 * OfMassCenter(counted)) \div all)
      + (12000 * all) \div OfDisc(Size[b])

(* Center dark ratio above 0.18, dark mass above 0.20.                     *)
HoleDark(b, c, d) ==
  /\ DarkEnough(b, c, d)
  /\ 100 * d["center"] > 18 * Size[b]["center"]
  /\ 5 * OfDisc(d) > OfDisc(Size[b])

LikelyRoundPart(b) == 100 * Longer(b) < 172 * Shorter(b)

(* A contrast of 4 is the difference of two rounded means, and may pass    *)
(* for more than 4 or not.                                                 *)
MayShowHole(b, c, d) ==
  \/ HoleDark(b, c, d) /\ AnnulusContrast(b, c, d) >= 4 * Both(b)
  \/ HoleStrength(b, c, d) + 3 >= 17000

MayShowNone(b, c, d) ==
  /\ HoleDark(b, c, d) => AnnulusContrast(b, c, d) <= 4 * Both(b)
  /\ HoleStrength(b, c, d) <= 17000

(* What the verdict may be, for contrast c and dark pixels d.              *)
Verdicts(b, c, d) ==
  {v \in {"Valid", "Invalid"} :
     IF v = "Valid" THEN LikelyRoundPart(b) /\ MayShowHole(b, c, d)
     ELSE ~LikelyRoundPart(b) \/ MayShowNone(b, c, d)}

-----------------------------------------------------------------------------
NoBox == <<0, 0>>
NoDark == [z \in Zones |-> 0]

Init ==
  /\ stage = "load"
  /\ level \in Levels /\ share \in Shares
  /\ brightThreshold = 0 /\ box = NoBox /\ dark = NoDark
  /\ verdict = "none"

Decide(v) ==
  /\ verdict' = v
  /\ stage' = "decided"
  /\ UNCHANGED <<picture, brightThreshold, part>>

(* loadAndDownscaleGrayscale: there may be no picture.                     *)
Load ==
  /\ stage = "load"
  /\ \/ Decide("Unknown")
     \/ /\ stage' = "threshold"
        /\ UNCHANGED <<picture, brightThreshold, part, verdict>>

ComputeThreshold ==
  /\ stage = "threshold"
  /\ brightThreshold' \in Thresholds(level, share)
  /\ stage' = "search"
  /\ UNCHANGED <<picture, part, verdict>>

(* findBrightBoundingBox: nothing is found when nothing reaches the        *)
(* threshold, or no region is large enough.  The threshold and the share   *)
(* are of no use afterwards.                                               *)
FindBox ==
  /\ stage = "search"
  /\ \/ box' = NoBox
     \/ brightThreshold <= level.bright /\ box' \in Boxes
  /\ brightThreshold' = 0 /\ share' = 0
  /\ stage' = "box"
  /\ UNCHANGED <<level, dark, verdict>>

(* Mutant: the smallest box that is looked at has 5 pixels a side.         *)
TooSmallLater(b) == Shorter(b) < 5

(* The check of the radius repeats the one of the sides.                   *)
TooSmall(b) == Shorter(b) < 10 \/ Shorter(b) < 2 * 4

CheckBox ==
  /\ stage = "box"
  /\ IF box = NoBox \/ TooSmall(box) THEN Decide("Invalid")
     ELSE IF ~EnoughSamples(box) THEN Decide("Unknown")
     ELSE /\ stage' = "features"
          /\ \E c \in 0 .. Size[box]["center"], g \in Some(Size[box]["gap"]),
                i \in Some(Size[box]["innerAnnulus"]), o \in Some(Size[box]["outerAnnulus"]),
                r \in Some(Size[box]["rim"]) :
               dark' = [center |-> c, gap |-> g, innerAnnulus |-> i, outerAnnulus |-> o, rim |-> r]
          /\ UNCHANGED <<picture, brightThreshold, box, verdict>>

Judge ==
  /\ stage = "features"
  /\ \E v \in Verdicts(box, level.bright - level.dark, dark) : Decide(v)

Next == Load \/ ComputeThreshold \/ FindBox \/ CheckBox \/ Judge

Spec == Init /\ [][Next]_vars

-----------------------------------------------------------------------------
contrastOf == level.bright - level.dark
Judged == box # NoBox /\ ~TooSmall(box) /\ verdict # "none"

(* The threshold separates the levels, so that the part is what is bright: *)
(* unless the part fills more than 89 percent of the picture or less than  *)
(* 5, the levels are closer than 8, or one of them is beyond a limit of    *)
(* the threshold.                                                          *)
ThresholdSeparates ==
  /\ stage = "search"
  /\ share \in 5 .. 89
  /\ contrastOf >= 8 /\ level.bright >= 32 /\ level.dark < 230
  => level.dark < brightThreshold /\ brightThreshold <= level.bright

(* However a box is shaped that is not too small, its circle has pixels    *)
(* enough in the center and in the annulus: the verdict Unknown is for     *)
(* pictures that cannot be read, and a part never goes without a decision. *)
ReadPictureIsDecided == verdict = "Unknown" => box = NoBox

CenterIsDark == dark["center"] = Size[box]["center"]

(* The annulus is 8 levels brighter on average than a dark pixel.          *)
BrightAnnulus(d) ==
  contrastOf * (OfAnnulus(Size[box]) - OfAnnulus(d)) >= 8 * OfAnnulus(Size[box])

(* A round part that is dark all over its center is a washer exactly if    *)
(* the annulus is 8 levels brighter on average, however much of it is dark *)
(* too and whatever the rest of the part looks like: the terms of the      *)
(* strength that fall then never outweigh that of the center.  A part that *)
(* is uniform, or as long as the limit says, is none.                      *)
HoleMakesWasher ==
  Judged =>
    /\ LikelyRoundPart(box) /\ CenterIsDark =>
         (verdict = "Valid" <=> BrightAnnulus(dark))
    /\ dark = NoDark \/ ~LikelyRoundPart(box) => verdict = "Invalid"

(* A larger hole is still one.  A pixel more that is dark, in the center   *)
(* or in the gap around it, never makes a washer a disc, whatever else is  *)
(* dark.  Nor does one farther out, in the annulus, where the contrast and *)
(* the concentration fall while the dark share rises, once the center is   *)
(* all dark and as long as the annulus stays 8 levels brighter on average. *)
LargerHoleStillWasher ==
  Judged /\ verdict = "Valid" =>
    \A z \in Zones :
      LET larger == [dark EXCEPT ![z] = @ + 1]
      IN  /\ dark[z] < Size[box][z]
          /\ z \in {"center", "gap"} \/ (CenterIsDark /\ BrightAnnulus(larger))
          => "Valid" \in Verdicts(box, contrastOf, larger)

(* "Valid (washer-like ring with center hole)", "Invalid (solid disc/non-  *)
(* washer)" (README): a part all bright but for a single pixel is solid.   *)
SpeckIsNoHole ==
  Judged /\ OfDisc(dark) <= 1 => verdict # "Valid"

=============================================================================
