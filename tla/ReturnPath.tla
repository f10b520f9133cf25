----------------------------- MODULE ReturnPath -----------------------------
(***************************************************************************)
(* The planning of a manual return, manual_return_planner.cpp and          *)
(* safe_rdp.cpp: from the recorded flight to the path that is flown back,  *)
(* stage by stage, each stage handing its path to the next.  ManualReturn  *)
(* has all of it as one choice, ReturnPaths; what it relies on is          *)
(* PathIsHistory below.                                                    *)
(*                                                                         *)
(* Positions are points of a small integer grid and lengths exact: a       *)
(* squared distance to a segment is a fraction.  Only where lengths are    *)
(* added up they are taken in hundredths, rounded down.  A chord is        *)
(* checked along its whole length against the map as it is; the code       *)
(* samples it every few centimetres, against the map thinned to one point  *)
(* for each cell of voxel_resolution.  Samples are recorded in the order   *)
(* of their timestamps, numbers here.  Headings, warnings and metrics are  *)
(* left out.                                                               *)
(***************************************************************************)
EXTENDS Integers, SequencesExt

CONSTANTS
  Space,                    \* positions <<x, y, z>> where the drone flies
  Takeoff,                  \* where it takes off
  Clouds,                   \* maps: sets of obstacle points
  MaxSamples,               \* samples recorded at most
  MaxMove,                  \* between two samples, squared
  MinSpacing,               \* min_point_spacing
  Epsilon,                  \* rdp_epsilon
  VerticalThreshold,        \* vertical_preserve_threshold
  MaxSegment,               \* max_segment_length
  HandoffHeight,            \* landing_handoff_height
  TrimRadius,               \* home_trim_radius
  TrustFlown,               \* trust_flown_history
  TrustDeviation,           \* provenance_deviation_threshold
  SafeRadius,               \* safe_rdp_radius
  FallbackSpacing           \* history_fallback_spacing, at least 0.1 m

ASSUME LengthAssumption ==
  /\ {MaxSamples, MaxMove, Epsilon, VerticalThreshold, HandoffHeight, TrimRadius,
      MinSpacing, TrustDeviation} \subseteq Nat
  /\ {MaxSegment, SafeRadius, FallbackSpacing} \subseteq Nat \ {0}
  /\ TrustFlown \in BOOLEAN

ASSUME SpaceAssumption ==
  /\ Space \subseteq Nat \X Nat \X Nat /\ Takeoff \in Space
  /\ \A cloud \in Clouds : cloud \subseteq Nat \X Nat \X Nat

VARIABLES
  stage,          \* the stage to come
  flown,          \* flown_trajectory
  cloud,          \* map_cloud
  reversed,       \* reversed_points
  points,         \* the path as the last stage left it
  status

planVars == <<stage, flown, cloud, reversed, points, status>>

-----------------------------------------------------------------------------
(* Geometry.                                                               *)

Diff(p, q) == <<p[1] - q[1], p[2] - q[2], p[3] - q[3]>>

Dot(u, v) == u[1] * v[1] + u[2] * v[2] + u[3] * v[3]

\* Squared lengths, squared distances.
Dist(p, q) == Dot(Diff(p, q), Diff(p, q))

HorizontalDist(p, q) == Dist(<<p[1], p[2], 0>>, <<q[1], q[2], 0>>)

\* The length in hundredths.
Length(p, q) ==
  LET d == 10000 * Dist(p, q)
  IN  CHOOSE n \in 0..d : n * n <= d /\ (n + 1) * (n + 1) > d

\* pointToSegmentDistance, squared, as a fraction.
SegmentDist(p, a, b) ==
  LET len == Dist(a, b)
      s == Dot(Diff(p, a), Diff(b, a))
  IN  CASE s <= 0 \/ len = 0 -> [num |-> Dist(p, a), den |-> 1]
        [] s >= len /\ len # 0 -> [num |-> Dist(p, b), den |-> 1]
        [] OTHER -> [num |-> Dist(p, a) * len - s * s, den |-> len]

Farther(f, g) == f.num * g.den > g.num * f.den

\* An angle of 20 degrees, whose squared cosine is 0.883, or more.
Turns(u, v) ==
  /\ Dot(u, u) > 0 /\ Dot(v, v) > 0
  /\ Dot(u, v) <= 0 \/ 1000 * Dot(u, v) * Dot(u, v) <= 883 * Dot(u, u) * Dot(v, v)

\* Paths are made of samples of the history: its indices from 1 on.
H(i) == reversed[i].p
Samples == 1..Len(reversed)
TurnAt(i) == Turns(Diff(H(i), H(i - 1)), Diff(H(i + 1), H(i)))

\* The elements of s that I names, in order.
Picked(s, I) ==
  LET out[k \in 0..Len(s)] ==
        IF k = 0 THEN <<>>
        ELSE IF k \in I THEN Append(out[k - 1], s[k]) ELSE out[k - 1]
  IN  out[Len(s)]

-----------------------------------------------------------------------------
(* The recorded flight.                                                    *)

Sample(t, p) == [t |-> t, p |-> p]

PlanInit ==
  /\ stage = "recording"
  /\ flown = <<Sample(1, Takeoff)>>
  /\ cloud \in Clouds
  /\ reversed = <<>> /\ points = <<>>
  /\ status = "INVALID_INPUT"

Record(p) ==
  /\ stage = "recording" /\ Len(flown) < MaxSamples
  /\ Dist(p, Last(flown).p) <= MaxMove
  /\ flown' = Append(flown, Sample(Len(flown) + 1, p))
  /\ UNCHANGED <<stage, cloud, reversed, points, status>>

-----------------------------------------------------------------------------
(* TrajectoryPreprocessor and buildReturnHistory.                          *)

Spaced ==
  LET out[k \in 0..Len(flown)] ==
        IF k = 0 THEN <<>>
        ELSE LET before == out[k - 1]
             IN  IF before # <<>> /\ Dist(flown[k].p, Last(before).p) < MinSpacing * MinSpacing
                   THEN before ELSE Append(before, flown[k])
  IN  out[Len(flown)]

\* The final position never disappears.
Preprocessed ==
  IF Last(Spaced).p = Last(flown).p THEN Spaced ELSE Append(Spaced, Last(flown))

PreprocessFails ==
  /\ stage = "recording"
  /\ Len(Preprocessed) < 2
  /\ status' = "TOO_FEW_POINTS"
  /\ stage' = "done"
  /\ UNCHANGED <<flown, cloud, reversed, points>>

AtHeight(p, z) == <<p[1], p[2], z>>

\* The flight backwards, from its first sample away from Home on, with the way
\* down over Home put in its place.
ReturnHistory(samples) ==
  LET handoff == Sample(flown[1].t, AtHeight(flown[1].p, flown[1].p[3] + HandoffHeight))
      away == {i \in 2..Len(samples) :
                 HorizontalDist(samples[i].p, handoff.p) > TrimRadius * TrimRadius}
      departed == IF away = {} THEN samples ELSE SubSeq(samples, Min(away), Len(samples))
      approach == Sample(handoff.t, AtHeight(handoff.p, departed[1].p[3]))
      landing == IF HorizontalDist(departed[1].p, approach.p) > 0
                   THEN <<handoff, approach>> ELSE <<handoff>>
  IN  Reverse(landing \o departed)

BuildReturnHistory ==
  /\ stage = "recording"
  /\ Len(Preprocessed) >= 2
  /\ reversed' = ReturnHistory(Preprocessed)
  /\ points' = reversed'
  /\ stage' = "simplify"
  /\ UNCHANGED <<flown, cloud, status>>

-----------------------------------------------------------------------------
(* RdpSimplifier::simplify.                                                *)

\* The sample between a and b that is farthest from the chord; the first such.
Farthest(a, b) ==
  LET off == [i \in (a + 1)..(b - 1) |-> SegmentDist(H(i), H(a), H(b))]
  IN  CHOOSE i \in DOMAIN off :
        \A j \in DOMAIN off : ~Farther(off[j], off[i]) /\ (j < i => Farther(off[i], off[j]))

OffBy(i, a, b, length) == Farther(SegmentDist(H(i), H(a), H(b)), [num |-> length * length, den |-> 1])

\* Mutant: the part after the split is not looked at again.
FirstPart(a, k, b) == {<<a, k>>}

\* What is simplified next when k is kept of the chord from a to b.
Parts(a, k, b) == {<<a, k>>, <<k, b>>}

Kept(first, last) ==
  LET kept[c \in Samples \X Samples] ==
        LET k == Farthest(c[1], c[2])
        IN  IF c[2] > c[1] + 1 /\ OffBy(k, c[1], c[2], Epsilon)
              THEN {k} \union UNION {kept[part] : part \in Parts(c[1], k, c[2])}
              ELSE {}
  IN  {first, last} \union kept[<<first, last>>]

Simplify ==
  /\ stage = "simplify"
  /\ points' = Picked(reversed, Kept(1, Len(reversed)))
  /\ stage' = "protect"
  /\ UNCHANGED <<flown, cloud, reversed, status>>

-----------------------------------------------------------------------------
(* preserveVerticalHistory.                                                *)

\* findHistoryIndex: the sample after i that s is a copy of, or one at its
\* position, or none.
FindIndex(i, s) ==
  LET same == {h \in Samples : h > i /\ reversed[h] = s}
      there == {h \in Samples : h > i /\ H(h) = s.p}
  IN  CASE same # {} -> Min(same)
        [] same = {} /\ there # {} -> Min(there)
        [] OTHER -> Len(reversed) + 1

\* The samples the points of a path s are found at, one after the other; beyond
\* the history where one is not found.
Indices(s) ==
  LET at[k \in 1..Len(s)] == IF k = 1 THEN 1 ELSE FindIndex(at[k - 1], s[k])
  IN  at

Height(i) == H(i)[3]
Lowest(a, b) == Min({Height(i) : i \in a..b})
Highest(a, b) == Max({Height(i) : i \in a..b})

\* Mutant: only the ends of a chord are compared.
EndsApart(a, b) == IF Height(a) < Height(b) THEN Height(b) - Height(a) ELSE Height(a) - Height(b)

Span(a, b) == Highest(a, b) - Lowest(a, b)

Extrema(a, b) ==
  {CHOOSE i \in a..b : Height(i) = z /\ \A j \in a..(i - 1) : Height(j) # z :
     z \in {Lowest(a, b), Highest(a, b)}}

\* Where height starts and stops to change, by more than a quarter of the threshold.
ChangeEnds(a, b) ==
  LET change == {i \in (a + 1)..b : 4 * Span(i - 1, i) > VerticalThreshold}
  IN  IF change = {} THEN {}
      ELSE {Min(change) - 1, Min(change), Max(change), Max(change) + 1}

Critical(a, b) ==
  IF Span(a, b) > VerticalThreshold
    THEN (ChangeEnds(a, b) \union Extrema(a, b) \union {i \in (a + 1)..(b - 1) : TurnAt(i)})
           \intersect (a + 1)..(b - 1)
    ELSE {}

Protected ==
  LET at == Indices(points)
  IN  FlattenSeq([k \in 1..Len(points) |->
        IF k = 1 THEN <<points[1]>>
        ELSE Append(Picked(reversed, Critical(at[k - 1], at[k])), points[k])])

PreserveVertical ==
  /\ stage = "protect"
  /\ points' = Protected
  /\ stage' = "bound"
  /\ UNCHANGED <<flown, cloud, reversed, status>>

-----------------------------------------------------------------------------
(* enforceMaxSegmentLength.                                                *)

Reaches(i, p) == Dist(H(i), p) <= MaxSegment * MaxSegment

\* Mutant: whatever its distance.
LastBefore(i, b) == IF i + 1 = b THEN b ELSE b - 1

\* The farthest sample on the way to b that is near enough, or the next at all.
FarthestReached(i, b) ==
  LET near == {h \in (i + 1)..(b - 1) : Reaches(i, H(h))}
  IN  IF near = {} THEN i + 1 ELSE Max(near)

Filled(a, b) ==
  LET from[i \in a..b] ==
        IF i = b \/ Reaches(i, H(b)) THEN <<>>
        ELSE LET k == FarthestReached(i, b) IN <<reversed[k]>> \o from[k]
  IN  from[a]

Bounded ==
  LET at == Indices(points)
  IN  FlattenSeq([k \in 1..Len(points) |->
        IF k = 1 THEN <<points[1]>> ELSE Append(Filled(at[k - 1], at[k]), points[k])])

EnforceMaxSegmentLength ==
  /\ stage = "bound"
  /\ points' = Bounded
  /\ stage' = "restore"
  /\ UNCHANGED <<flown, cloud, reversed, status>>

-----------------------------------------------------------------------------
(* restoreUnsafeShortcuts.                                                 *)

\* Mutant: only the ends of a chord are checked.
ClearEnds(p, q) ==
  \A o \in cloud : Dist(o, p) >= SafeRadius * SafeRadius /\ Dist(o, q) >= SafeRadius * SafeRadius

\* segmentIsClear
Clear(p, q) ==
  \A o \in cloud : ~Farther([num |-> SafeRadius * SafeRadius, den |-> 1], SegmentDist(o, p, q))

\* The chord keeps close to the samples it skips.
Trusted(a, b) == TrustFlown /\ \A i \in a..b : ~OffBy(i, a, b, TrustDeviation)

\* The turn looked for at i is one between the moves to i - 1 and from i.
TurnAround(i) == Turns(Diff(H(i - 1), H(i - 2)), Diff(H(i + 1), H(i)))

\* Mutant: the end of the interval is kept only if it is far enough.
KeepsFar(a, b, i, length) == length >= 100 * FallbackSpacing

\* Whether sample i is kept, after the length flown since the last one kept.
Keeps(a, b, i, length) ==
  \/ length >= 100 * FallbackSpacing
  \/ i = b
  \/ i > a + 1 /\ TurnAround(i)

\* appendHistoryFallback
Thinned(a, b) ==
  LET kept[i \in a..b] ==
        IF i = a THEN [out |-> <<>>, length |-> 0]
        ELSE LET before == kept[i - 1]
                 length == before.length + Length(H(i - 1), H(i))
             IN  IF Keeps(a, b, i, length)
                   THEN [out |-> Append(before.out, reversed[i]), length |-> 0]
                   ELSE [out |-> before.out, length |-> length]
  IN  kept[b].out

\* What stands for the chord from sample a to point s, which is sample b.
Restored(a, b, s) ==
  IF b = a + 1 \/ Trusted(a, b) \/ Clear(H(a), H(b)) THEN <<s>> ELSE Thinned(a, b)

\* Where a point is no sample any more, the whole history stands for the path.
Fallback ==
  LET at == Indices(points)
  IN  IF \A k \in 1..Len(points) : at[k] \in Samples
        THEN FlattenSeq([k \in 1..Len(points) |->
               IF k = 1 THEN <<points[1]>> ELSE Restored(at[k - 1], at[k], points[k])])
        ELSE <<points[1]>> \o Thinned(1, Len(reversed))

RestoreUnsafeShortcuts ==
  /\ stage = "restore"
  /\ points' = IF cloud = {} THEN points ELSE Fallback
  /\ stage' = "finish"
  /\ UNCHANGED <<flown, cloud, reversed, status>>

-----------------------------------------------------------------------------
\* A chord longer than max_segment_length is left.
Discontinuous ==
  \E k \in 1..Len(points) - 1 : Dist(points[k].p, points[k + 1].p) > MaxSegment * MaxSegment

\* The end of planManualReturn.
Finish ==
  /\ stage = "finish"
  /\ status' = IF Discontinuous THEN "TRAJECTORY_DISCONTINUITY" ELSE "SUCCESS"
  /\ stage' = "done"
  /\ UNCHANGED <<flown, cloud, reversed, points>>

PlanNext ==
  \/ \E p \in Space : Record(p)
  \/ PreprocessFails \/ BuildReturnHistory
  \/ Simplify \/ PreserveVertical \/ EnforceMaxSegmentLength \/ RestoreUnsafeShortcuts
  \/ Finish

PlanSpec == PlanInit /\ [][PlanNext]_planVars

-----------------------------------------------------------------------------
(* What must hold.                                                         *)

Succeeds == stage = "done" /\ status = "SUCCESS"

\* Chords of the path: pairs of samples flown one after the other.
Chords == LET at == Indices(points) IN {<<at[k], at[k + 1]>> : k \in 1..Len(points) - 1}

\* The length flown from sample to sample, from the first to the k-th.
Flown[k \in Samples] == IF k = 1 THEN 0 ELSE Flown[k - 1] + Length(H(k - 1), H(k))

\* The chord from a to b stands for less flight than the spacing and one sample.
IsShort(a, b) == Flown[b - 1] - Flown[a] < 100 * FallbackSpacing

\* A planned path is made of samples of this flight, in reversed order, from
\* where the return was asked for to the handoff above Home: no stage loses an
\* end, swaps or repeats samples, however often the flight crosses itself.
PathIsHistory ==
  Succeeds =>
    LET at == Indices(points)
    IN  /\ \A k \in 1..Len(points) : at[k] \in Samples /\ H(at[k]) = points[k].p
        /\ points[1].p = Last(flown).p
        /\ Last(points).p = AtHeight(Takeoff, Takeoff[3] + HandoffHeight)

\* Simplification leaves out only what is within epsilon of the chord that
\* replaces it.
WithinEpsilon ==
  stage = "protect" =>
    \A c \in Chords : \A i \in c[1]..c[2] : ~OffBy(i, c[1], c[2], Epsilon)

\* Two samples flown one after the other are too far apart for one segment.
HistoryGap == \E i \in 2..Len(reversed) : ~Reaches(i, H(i - 1))

\* The return flies over everything the flight climbed over, and under what it
\* went under, but for the threshold.  Not so where the history has a gap and
\* there is a map: then a point may be lost, and the history is thinned as it is.
AltitudeKept ==
  Succeeds /\ ~(HistoryGap /\ cloud # {}) =>
    LET z == {points[k].p[3] : k \in 1..Len(points)}
    IN  /\ Max(z) >= Highest(1, Len(reversed)) - VerticalThreshold
        /\ Min(z) <= Lowest(1, Len(reversed)) + VerticalThreshold

Times(n, u) == <<n * u[1], n * u[2], n * u[3]>>

\* At a twentieth of the way from p to q, or another, an obstacle is too near.
Meets(p, q) ==
  \E o \in cloud, k \in 0..20 :
    LET at == Diff(Times(20 - k, p), Times(-k, q))
    IN  Dist(at, Times(20, o)) < 20 * SafeRadius * 20 * SafeRadius

\* With a map, a chord that skips samples is clear of obstacles, or close to the
\* samples, or stands for less flight than the spacing and one sample.  Clear of
\* the map as checked: the points the voxel filter leaves are not modelled.
UncheckedIsShort ==
  Succeeds /\ cloud # {} =>
    \A c \in Chords :
      \/ c[2] = c[1] + 1 \/ Trusted(c[1], c[2]) \/ ~Meets(H(c[1]), H(c[2]))
      \/ IsShort(c[1], c[2])

\* Planning fails for a gap only if the history has it, or a shortcut restored
\* from a map leaves it, thinned to the spacing.
FailsForGaps ==
  stage = "done" /\ status = "TRAJECTORY_DISCONTINUITY" =>
    \/ HistoryGap
    \/ cloud # {} /\ \E c \in Chords :
         c[2] > c[1] + 1 /\ ~Reaches(c[1], H(c[2])) /\ IsShort(c[1], c[2])
=============================================================================
