--------------------------- MODULE PadAndTouchProofs ---------------------------
(***************************************************************************)
(* Proofs about what the user's hands do: Controls, for every app.json     *)
(* whose numbers are numbers and every pad whose ranges are not empty; and *)
(* Gestures, for any length of the page's queue and any number of          *)
(* gestures, toggles and faults.                                           *)
(***************************************************************************)
EXTENDS Controls, Gestures, SequenceTheorems, WellFoundedInduction, TLAPS

-----------------------------------------------------------------------------
(* Arithmetic.                                                              *)

LEMMA DivIsInt == ASSUME NEW a \in Int, NEW d \in Int, d > 0 PROVE a \div d \in Int
OBVIOUS

LEMMA DivProduct == ASSUME NEW a \in Int, NEW b \in Int, a > 0 PROVE (a * b) \div a = b
BY Z3

LEMMA DivMonotone ==
    ASSUME NEW a \in Int, NEW b \in Int, NEW d \in Int, d > 0, a <= b
    PROVE  a \div d <= b \div d
BY Z3

LEMMA TimesMonotone ==
    ASSUME NEW a \in Int, NEW b \in Int, NEW k \in Int, k >= 0, a <= b
    PROVE  a * k <= b * k
BY Z3

-----------------------------------------------------------------------------
(* The ranges of the pads.                                                  *)

IsRange(r) == r.min \in Int /\ r.max \in Int /\ r.min < r.max

LEMMA RawEnds ==
    ASSUME NEW r, IsRange(r)
    PROVE  Raw(r, 0) = r.min /\ Raw(r, 100) = r.max
BY DEF Raw, IsRange

LEMMA RawIsInt == ASSUME NEW r, IsRange(r), NEW p \in Int PROVE Raw(r, p) \in Int
BY DEF Raw, IsRange

\* normalize_axis() keeps the ends of a range, and gives a number.
LEMMA NormalizeEnds ==
    ASSUME NEW r, IsRange(r), NEW lo \in Int, NEW hi \in Int, lo < hi
    PROVE  Normalize(r.min, r, lo, hi) = lo /\ Normalize(r.max, r, lo, hi) = hi
<1> DEFINE w == r.max - r.min
           h == hi - lo
<1>1. w \in Int /\ w > 0 /\ h \in Int
  BY DEF IsRange
<1>2. 0 * h = 0 /\ 0 \div w = 0
  BY <1>1
<1>3. (w * h) \div w = h
  <2> HIDE DEF w, h
  <2> QED
    BY <1>1, DivProduct
<1>4. Saturate(r.min, r.min, r.max) = r.min /\ Saturate(r.max, r.min, r.max) = r.max
  BY DEF Saturate, IsRange
<1>5. (r.min - r.min) * h = 0
  BY <1>2 DEF IsRange
<1>6. CASE r.min = lo /\ r.max = hi
  BY <1>6 DEF Normalize
<1>7. CASE ~(r.min = lo /\ r.max = hi)
  <2>1. \A v : Normalize(v, r, lo, hi) = lo + ((Saturate(v, r.min, r.max) - r.min) * h) \div w
    BY <1>7 DEF Normalize, IsRange
  <2>2. Normalize(r.min, r, lo, hi) = lo + 0
    BY <2>1, <1>2, <1>4, <1>5
  <2>3. Normalize(r.max, r, lo, hi) = lo + h
    BY <2>1, <1>3, <1>4
  <2> QED
    BY <2>2, <2>3
<1> QED
  BY <1>6, <1>7

LEMMA NormalizeIsInt ==
    ASSUME NEW r, IsRange(r), NEW v \in Int, NEW lo \in Int, NEW hi \in Int
    PROVE  Normalize(v, r, lo, hi) \in Int
<1> DEFINE w == r.max - r.min
           n == (Saturate(v, r.min, r.max) - r.min) * (hi - lo)
<1>1. n \in Int /\ w \in Int /\ w > 0
  BY DEF Saturate, IsRange
<1>2. n \div w \in Int
  <2> HIDE DEF n, w
  <2> QED
    BY <1>1, DivIsInt
<1>3. lo + n \div w \in Int
  <2> HIDE DEF n, w
  <2> QED
    BY <1>2
<1> QED
  BY <1>3 DEF Normalize

LEMMA PadRanges == ASSUME NEW p \in Pads PROVE IsRange(p.stick) /\ IsRange(p.trigger)
BY ControlsAssumption DEF IsRange

LEMMA TiltIsInt == ASSUME NEW p \in Pads, NEW percent \in Int PROVE Tilt(p, percent) \in Int
BY PadRanges, RawIsInt, NormalizeIsInt DEF Tilt, AxisMin, AxisMax

LEMMA PullIsInt == ASSUME NEW p \in Pads, NEW percent \in Int PROVE Pull(p, percent) \in Int
BY PadRanges, RawIsInt, NormalizeIsInt DEF Pull, TriggerMax

LEMMA PullEnds == ASSUME NEW p \in Pads PROVE Pull(p, 0) = 0 /\ Pull(p, 100) = TriggerMax
BY PadRanges, RawEnds, NormalizeEnds DEF Pull, TriggerMax

-----------------------------------------------------------------------------
(* The file.                                                                *)

\* What the fields that pace a loop are read as: in range, and in order.
InRange(v, lo, hi) == v \in Int /\ lo <= v /\ v <= hi

Paced(int) ==
    /\ InRange(int["right_stick_deadzone"], 1, 32000)
    /\ InRange(int["right_stick_slow_ms"], 10, 5000)
    /\ InRange(int["right_stick_fast_ms"], 10, 5000)
    /\ int["right_stick_fast_ms"] <= int["right_stick_slow_ms"]
    /\ InRange(int["error_retry_min_ms"], 100, 600000)
    /\ InRange(int["error_retry_max_ms"], 100, 600000)
    /\ int["error_retry_min_ms"] <= int["error_retry_max_ms"]

\* A number field is read as one in its range.
LEMMA BoundIsIn ==
    ASSUME NEW f \in Files, NEW path, NEW lo \in Int, NEW hi \in Int,
           IntFields[path].min = lo, IntFields[path].max = hi,
           IntFields[path].default \in Int,
           lo <= IntFields[path].default, IntFields[path].default <= hi
    PROVE  InRange(BindInt(f, path), lo, hi)
<1>1. CASE Integral(f, path)
  <2>1. f[path].value \in Int
    BY <1>1, ControlsAssumption DEF Integral, Has
  <2>2. f[path].value \div Unit \in Int
    BY <2>1 DEF Unit
  <2> QED
    BY <1>1, <2>2 DEF BindInt, Clamp, InRange
<1>2. CASE ~Integral(f, path)
  BY <1>2 DEF BindInt, InRange
<1> QED
  BY <1>1, <1>2

\* A pair is put in order, and nothing else is touched.
LEMMA OrderedIs ==
    ASSUME NEW D, NEW int, int = [p \in D |-> int[p]], NEW low \in D, NEW high \in D,
           low # high, NEW a \in Int, NEW b \in Int,
           InRange(int[low], a, b), InRange(int[high], a, b)
    PROVE  LET o == Ordered(int, low, high)
           IN  /\ o = [p \in D |-> o[p]]
               /\ \A p \in D \ {low, high} : o[p] = int[p]
               /\ InRange(o[low], a, b) /\ InRange(o[high], a, b) /\ o[low] <= o[high]
<1> USE DEF InRange
<1>1. CASE int[low] > int[high]
  <2> DEFINE o == [int EXCEPT ![low] = int[high], ![high] = int[low]]
  <2>1. Ordered(int, low, high) = o
    BY <1>1 DEF Ordered
  <2>2. /\ o = [p \in D |-> o[p]] /\ o[low] = int[high] /\ o[high] = int[low]
        /\ \A p \in D \ {low, high} : o[p] = int[p]
    OBVIOUS
  <2> HIDE DEF o
  <2> QED
    BY <1>1, <2>1, <2>2
<1>2. CASE ~(int[low] > int[high])
  BY <1>2 DEF Ordered
<1> QED
  BY <1>1, <1>2

LEMMA LoadInt ==
    ASSUME NEW f
    PROVE  Load(f).int = Ordered(Ordered(Bound(f).int, "error_retry_min_ms", "error_retry_max_ms"),
                                 "right_stick_fast_ms", "right_stick_slow_ms")
<1> DEFINE b == Bound(f)
           o == Ordered(Ordered(b.int, "error_retry_min_ms", "error_retry_max_ms"),
                        "right_stick_fast_ms", "right_stick_slow_ms")
<1>1. b = [int |-> b.int, real |-> b.real, bool |-> b.bool, keymap |-> b.keymap,
           self_update_mode |-> b.self_update_mode]
  BY DEF Bound
<1>2. Load(f) = [b EXCEPT !.int = o]
  BY Zenon DEF Load
<1>3. Load(f).int = o
  <2> HIDE DEF b, o
  <2> QED
    BY <1>1, <1>2
<1> QED
  BY <1>3

LEMMA BoundInt ==
    ASSUME NEW f \in Files
    PROVE  /\ Bound(f).int = [p \in DOMAIN IntFields |-> Bound(f).int[p]]
           /\ \A p \in DOMAIN IntFields : Bound(f).int[p] = BindInt(f, p)
BY DEF Bound

LEMMA LoadIsPaced == ASSUME NEW f \in Files PROVE Paced(Load(f).int)
<1> DEFINE D == DOMAIN IntFields
           int == Bound(f).int
           retry == Ordered(int, "error_retry_min_ms", "error_retry_max_ms")
           all == Ordered(retry, "right_stick_fast_ms", "right_stick_slow_ms")
<1>1. /\ {"right_stick_deadzone", "right_stick_slow_ms", "right_stick_fast_ms"} \subseteq D
      /\ {"error_retry_min_ms", "error_retry_max_ms"} \subseteq D
  BY DEF IntFields
<1>2. InRange(BindInt(f, "right_stick_deadzone"), 1, 32000)
  <2>1. /\ IntFields["right_stick_deadzone"].min = 1 /\ IntFields["right_stick_deadzone"].max = 32000
        /\ IntFields["right_stick_deadzone"].default = 13000
    BY DEF IntFields, Field
  <2> QED
    BY <2>1, BoundIsIn, SMT
<1>3. InRange(BindInt(f, "right_stick_slow_ms"), 10, 5000)
  <2>1. /\ IntFields["right_stick_slow_ms"].min = 10 /\ IntFields["right_stick_slow_ms"].max = 5000
        /\ IntFields["right_stick_slow_ms"].default = 200
    BY DEF IntFields, Field
  <2> QED
    BY <2>1, BoundIsIn, SMT
<1>4. InRange(BindInt(f, "right_stick_fast_ms"), 10, 5000)
  <2>1. /\ IntFields["right_stick_fast_ms"].min = 10 /\ IntFields["right_stick_fast_ms"].max = 5000
        /\ IntFields["right_stick_fast_ms"].default = 45
    BY DEF IntFields, Field
  <2> QED
    BY <2>1, BoundIsIn, SMT
<1>5. InRange(BindInt(f, "error_retry_min_ms"), 100, 600000)
  <2>1. /\ IntFields["error_retry_min_ms"].min = 100 /\ IntFields["error_retry_min_ms"].max = 600000
        /\ IntFields["error_retry_min_ms"].default = 2000
    BY DEF IntFields, Field
  <2> QED
    BY <2>1, BoundIsIn, SMT
<1>6. InRange(BindInt(f, "error_retry_max_ms"), 100, 600000)
  <2>1. /\ IntFields["error_retry_max_ms"].min = 100 /\ IntFields["error_retry_max_ms"].max = 600000
        /\ IntFields["error_retry_max_ms"].default = 30000
    BY DEF IntFields, Field
  <2> QED
    BY <2>1, BoundIsIn, SMT
<1>7. int = [p \in D |-> int[p]] /\ \A p \in D : int[p] = BindInt(f, p)
  BY BoundInt
<1>8. Load(f).int = all
  BY LoadInt
<1> HIDE DEF D, int
<1>9. /\ retry = [p \in D |-> retry[p]]
      /\ \A p \in D \ {"error_retry_min_ms", "error_retry_max_ms"} : retry[p] = int[p]
      /\ InRange(retry["error_retry_min_ms"], 100, 600000)
      /\ InRange(retry["error_retry_max_ms"], 100, 600000)
      /\ retry["error_retry_min_ms"] <= retry["error_retry_max_ms"]
  <2>1. /\ InRange(int["error_retry_min_ms"], 100, 600000)
        /\ InRange(int["error_retry_max_ms"], 100, 600000)
    BY <1>1, <1>5, <1>6, <1>7
  <2> QED
    BY <1>1, <1>7, <2>1, OrderedIs, SMT
<1> HIDE DEF retry
<1>10. /\ \A p \in D \ {"right_stick_fast_ms", "right_stick_slow_ms"} : all[p] = retry[p]
       /\ InRange(all["right_stick_fast_ms"], 10, 5000)
       /\ InRange(all["right_stick_slow_ms"], 10, 5000)
       /\ all["right_stick_fast_ms"] <= all["right_stick_slow_ms"]
  <2>1. /\ InRange(retry["right_stick_fast_ms"], 10, 5000)
        /\ InRange(retry["right_stick_slow_ms"], 10, 5000)
    BY <1>1, <1>3, <1>4, <1>7, <1>9
  <2>2. /\ retry = [p \in D |-> retry[p]]
        /\ "right_stick_fast_ms" \in D /\ "right_stick_slow_ms" \in D
    BY <1>1, <1>9
  <2>3. InRange(retry["right_stick_fast_ms"], 10, 5000) /\ InRange(retry["right_stick_slow_ms"], 10, 5000)
    BY <2>1
  <2> QED
    BY <2>2, <2>3, OrderedIs, SMTT(30)
<1> HIDE DEF all
<1>11. InRange(all["right_stick_deadzone"], 1, 32000)
  BY <1>1, <1>2, <1>7, <1>9, <1>10
<1>12. all["error_retry_min_ms"] = retry["error_retry_min_ms"]
       /\ all["error_retry_max_ms"] = retry["error_retry_max_ms"]
  BY <1>1, <1>10
<1>13. Paced(all)
  BY <1>9, <1>10, <1>11, <1>12, SMT DEF Paced
<1> QED
  BY <1>8, <1>13

-----------------------------------------------------------------------------
(* The right stick.                                                         *)

Directions == DOMAIN Arrows \cup {None}

LEMMA MagnitudeIs ==
    ASSUME NEW v \in Int
    PROVE  Magnitude(v) \in Int /\ 0 <= Magnitude(v) /\ Magnitude(v) <= AxisMax
<1> USE DEF Magnitude, Saturate, AxisMax
<1>1. Magnitude(v) \in Int
  OBVIOUS
<1>2. 0 <= Magnitude(v)
  OBVIOUS
<1>3. Magnitude(v) <= AxisMax
  OBVIOUS
<1> QED
  BY <1>1, <1>2, <1>3

LEMMA MagnitudeOfZero == Magnitude(0) = 0
BY DEF Magnitude, Saturate, AxisMax

LEMMA MagnitudeGrows ==
    ASSUME NEW v \in Int, NEW w \in Int, (v > 0 /\ w >= v) \/ (v < 0 /\ w <= v)
    PROVE  Magnitude(v) <= Magnitude(w)
BY DEF Magnitude, Saturate, AxisMax

NotSlower(i, j) == i \in Int /\ j \in Int /\ MinScroll <= i /\ i <= j

\* The interval at a deeper deflection is not longer, and is one the thread can keep.
LEMMA RampFalls ==
    ASSUME NEW m \in Int, NEW n \in Int, m <= n, NEW dz \in Int, 1 <= dz, dz <= 32000,
           NEW slow \in Int, NEW fast \in Int, fast <= slow
    PROVE  NotSlower(Interval(n, dz, slow, fast), Interval(m, dz, slow, fast))
<1> DEFINE d == AxisMax - dz
           k == slow - fast
           a == (m - dz) * k
           b == (n - dz) * k
<1>1. d \in Int /\ d > 0 /\ k \in Int /\ k >= 0 /\ m - dz \in Int /\ n - dz \in Int
      /\ m - dz <= n - dz
  BY DEF AxisMax
<1>2. a \in Int /\ b \in Int /\ a <= b
  <2> HIDE DEF k
  <2> QED
    BY <1>1, TimesMonotone
<1>3. a \div d \in Int /\ b \div d \in Int /\ a \div d <= b \div d
  <2> HIDE DEF a, b, d
  <2> QED
    BY <1>1, <1>2, DivIsInt, DivMonotone
<1>4. /\ Ramp(m, dz, slow, fast) = Saturate(slow - a \div d, fast, slow)
      /\ Ramp(n, dz, slow, fast) = Saturate(slow - b \div d, fast, slow)
  BY DEF Ramp
<1>5. /\ Ramp(m, dz, slow, fast) \in Int /\ Ramp(n, dz, slow, fast) \in Int
      /\ Ramp(n, dz, slow, fast) <= Ramp(m, dz, slow, fast)
  <2> HIDE DEF a, b, d
  <2> QED
    BY <1>3, <1>4 DEF Saturate
<1> QED
  BY <1>5 DEF Interval, MinScroll, NotSlower

LEMMA ScrollKey ==
    ASSUME NEW x \in Int, NEW y \in Int, NEW on, NEW dz \in Int, 1 <= dz, NEW slow, NEW fast
    PROVE  Scroll(x, y, on, dz, slow, fast).key \in Directions
BY DEF Scroll, Direction, Directions, Arrows

\* Past the deadzone there is a direction, the one of the larger deflection.
LEMMA ScrollPast ==
    ASSUME NEW x \in Int, NEW y \in Int, NEW on, on, NEW dz \in Int, 1 <= dz, NEW slow, NEW fast,
           Magnitude(x) <= Magnitude(y), Magnitude(y) > dz
    PROVE  Scroll(x, y, on, dz, slow, fast).key # None
<1>1. Magnitude(x) \in Int /\ Magnitude(y) \in Int
  BY MagnitudeIs
<1>2. y # 0
  <2>1. Magnitude(y) # 0
    BY <1>1
  <2> QED
    BY <2>1, MagnitudeOfZero
<1> QED
  BY <1>1, <1>2 DEF Scroll, Direction, None

LEMMA ScrollWithin ==
    ASSUME NEW x \in Int, NEW y \in Int, NEW on, NEW dz \in Int, 1 <= dz, NEW slow, NEW fast,
           Magnitude(x) <= dz, Magnitude(y) <= dz
    PROVE  Scroll(x, y, on, dz, slow, fast).key = None
<1>1. Magnitude(x) \in Int /\ Magnitude(y) \in Int
  BY MagnitudeIs DEF AxisMax
<1> QED
  BY <1>1 DEF Scroll

\* A stick pushed deeper keeps its direction and is not repeated slower.
LEMMA ScrollDeeper ==
    ASSUME NEW x \in Int, NEW y \in Int, NEW z \in Int, NEW on, NEW dz \in Int, 1 <= dz, dz <= 32000,
           NEW slow \in Int, NEW fast \in Int, fast <= slow,
           Magnitude(x) <= Magnitude(y), (y > 0 /\ z >= y) \/ (y < 0 /\ z <= y),
           Scroll(x, y, on, dz, slow, fast).key # None
    PROVE  LET now == Scroll(x, y, on, dz, slow, fast)
               next == Scroll(x, z, on, dz, slow, fast)
           IN  next.key = now.key /\ next.interval \in MinScroll..now.interval
<1>1. /\ Magnitude(x) \in Int /\ Magnitude(y) \in Int /\ Magnitude(z) \in Int
      /\ Magnitude(y) <= Magnitude(z)
  <2>1. Magnitude(x) \in Int /\ Magnitude(y) \in Int /\ Magnitude(z) \in Int
    BY MagnitudeIs
  <2> QED
    BY <2>1, MagnitudeGrows
<1>2. on /\ Magnitude(y) > dz
  BY <1>1 DEF Scroll
<1>3. /\ Scroll(x, y, on, dz, slow, fast)
         = [key |-> Direction(0, y), interval |-> Interval(Magnitude(y), dz, slow, fast)]
      /\ Scroll(x, z, on, dz, slow, fast)
         = [key |-> Direction(0, z), interval |-> Interval(Magnitude(z), dz, slow, fast)]
  BY <1>1, <1>2 DEF Scroll
<1>4. Direction(0, z) = Direction(0, y)
  BY DEF Direction
<1>5. Interval(Magnitude(z), dz, slow, fast) \in MinScroll..Interval(Magnitude(y), dz, slow, fast)
  <2> DEFINE m == Magnitude(y)
             n == Magnitude(z)
  <2>1. m \in Int /\ n \in Int /\ m <= n
    BY <1>1
  <2> HIDE DEF m, n
  <2>2. NotSlower(Interval(n, dz, slow, fast), Interval(m, dz, slow, fast))
    BY <2>1, RampFalls
  <2> QED
    BY <2>2 DEF m, n, NotSlower, MinScroll
<1> QED
  BY <1>3, <1>4, <1>5

\* What a file's settings make of the right stick.
ScrollBy(c, x, y) ==
    Scroll(x, y, c.bool.right_stick_scroll, c.int.right_stick_deadzone,
           c.int.right_stick_slow_ms, c.int.right_stick_fast_ms)

LEMMA ScrollOfIs == ASSUME NEW x, NEW y PROVE ScrollOf(x, y) = ScrollBy(config, x, y)
BY DEF ScrollOf, ScrollBy

LEMMA ScrollByKey ==
    ASSUME NEW f \in Files, NEW x \in Int, NEW y \in Int
    PROVE  /\ ScrollBy(Load(f), x, y).key \in Directions
           /\ x = 0 /\ y = 0 => ScrollBy(Load(f), x, y).key = None
<1> DEFINE c == Load(f)
           dz == c.int.right_stick_deadzone
<1>1. dz \in Int /\ 1 <= dz
  <2>1. Paced(c.int)
    BY LoadIsPaced
  <2> HIDE DEF c
  <2> QED
    BY <2>1, SMT DEF Paced, InRange
<1> HIDE DEF c
<1>2. ScrollBy(c, x, y).key \in Directions
  <2> HIDE DEF dz
  <2> QED
    BY <1>1, ScrollKey DEF ScrollBy, dz
<1>3. ASSUME x = 0, y = 0 PROVE ScrollBy(c, x, y).key = None
  <2>1. Magnitude(x) <= dz /\ Magnitude(y) <= dz
    BY <1>1, <1>3, MagnitudeOfZero
  <2> QED
    BY <1>1, <2>1, ScrollWithin DEF ScrollBy
<1> QED
  BY <1>2, <1>3 DEF c

-----------------------------------------------------------------------------
(* The triggers.                                                            *)

LEMMA TriggerEnds ==
    ASSUME NEW p \in Pads, NEW was \in BOOLEAN
    PROVE  /\ TriggerPressed(Pull(p, 0), was) = FALSE
           /\ TriggerPressed(Pull(p, 100), was) = TRUE
<1>1. Pull(p, 0) = 0 /\ Pull(p, 100) = 255
  BY PullEnds DEF TriggerMax
<1> QED
  BY <1>1 DEF TriggerPressed, TriggerPress, TriggerRelease

\* One that was held and no longer is was let go.
LEMMA LetGoIs ==
    ASSUME NEW v \in Int, NEW was \in BOOLEAN, NEW go \in BOOLEAN, go <=> ~was
    PROVE  LET now == TriggerPressed(v, was)
           IN  /\ now \in BOOLEAN
               /\ ((go \/ v <= TriggerRelease) /\ ~(now /\ ~was)) <=> ~now
<1>1. CASE was
  <2>1. TriggerPressed(v, was) <=> v > 64
    BY <1>1 DEF TriggerPressed, TriggerRelease
  <2>2. ~(v > 64) <=> v <= 64
    OBVIOUS
  <2>3. TriggerPressed(v, was) \in BOOLEAN
    BY <1>1 DEF TriggerPressed
  <2> QED
    BY <1>1, <2>1, <2>2, <2>3, Zenon DEF TriggerRelease
<1>2. CASE ~was
  <2>1. TriggerPressed(v, was) \in BOOLEAN
    BY <1>2 DEF TriggerPressed
  <2> QED
    BY <1>2, <2>1, Zenon
<1> QED
  BY <1>1, <1>2

-----------------------------------------------------------------------------
(* The invariant.                                                           *)

Axes == [lt : BOOLEAN, rt : BOOLEAN, x : Int, y : Int, dir : Directions, fast : Directions]

\* What is played by is what was read, and nothing moves before.
ReadOK ==
    /\ file \in Files /\ pad \in Pads /\ layer \in {"browse", "player", "osk"}
    /\ Started => config = Load(file)
    /\ ~Started => axes = Idle /\ pulled = [t \in Triggers |-> 0]

PushedOK ==
    /\ pulled \in [Triggers -> Pulls \cup {0}]
    /\ tilt \in Tilts \cup {<<Centre, Centre>>}
    /\ forgotten \subseteq Triggers

\* A trigger is held from its press to its release; one that was not forgotten is held
\* when it is pulled.
TriggersOK ==
    /\ axes \in Axes /\ letGo \in [Triggers -> BOOLEAN]
    /\ \A t \in Triggers :
        /\ letGo[t] <=> ~axes[t]
        /\ pulled[t] = 0 => ~axes[t]
        /\ pulled[t] = 100 => axes[t] \/ t \in forgotten

\* The right stick is where it was left or forgotten, and scrolls but for a direction.
ScrollOK ==
    /\ axes.x \in {0, Tilt(pad, tilt[1])} /\ axes.y \in {0, Tilt(pad, tilt[2])}
    /\ axes.dir # None => axes.fast = None
    /\ Started /\ axes.dir = None => axes.fast = ScrollOf(axes.x, axes.y).key

ControlsOK == ReadOK /\ PushedOK /\ TriggersOK /\ ScrollOK

\* ControlsOK says nothing of maps and out.
said == <<file, config, pad, layer, pulled, tilt, axes, letGo, forgotten>>

LEMMA ControlsOKStands == ControlsOK /\ UNCHANGED said => ControlsOK'
BY DEF ControlsOK, ReadOK, PushedOK, TriggersOK, ScrollOK, said, Started, ScrollOf

\* A record of axes is a function.
Readings == {"lt", "rt", "x", "y", "dir", "fast"}

LEMMA AxesHeld == ASSUME NEW a \in Axes PROVE \A t \in Triggers : a[t] \in BOOLEAN
<1>1. a.lt \in BOOLEAN /\ a.rt \in BOOLEAN
  BY DEF Axes
<1> QED
  BY <1>1, Zenon DEF Triggers

LEMMA AxesAre ==
    ASSUME NEW a \in Axes
    PROVE  /\ a = [r \in Readings |-> a[r]] /\ a.x \in Int /\ a.y \in Int
           /\ a.dir \in Directions /\ a.fast \in Directions
BY DEF Axes, Readings

LEMMA AxesMade ==
    ASSUME NEW a, a = [r \in Readings |-> a[r]], \A t \in Triggers : a[t] \in BOOLEAN,
           a["x"] \in Int, a["y"] \in Int, a["dir"] \in Directions, a["fast"] \in Directions
    PROVE  a \in Axes
<1>1. a["lt"] \in BOOLEAN /\ a["rt"] \in BOOLEAN
  BY Zenon DEF Triggers
<1> QED
  BY <1>1 DEF Axes, Readings

LEMMA IdleIs ==
    /\ Idle \in Axes /\ Idle.x = 0 /\ Idle.y = 0 /\ Idle.dir = None /\ Idle.fast = None
    /\ \A t \in Triggers : Idle[t] = FALSE
<1>1. Idle \in Axes
  BY DEF Idle, Axes, Directions
<1>2. Idle.x = 0 /\ Idle.y = 0 /\ Idle.dir = None /\ Idle.fast = None
  BY DEF Idle
<1>3. Idle["lt"] = FALSE /\ Idle["rt"] = FALSE
  BY Zenon DEF Idle
<1> QED
  BY <1>1, <1>2, <1>3, Zenon DEF Triggers

LEMMA ControlsInitOK == ControlsInit => ControlsOK
<1> SUFFICES ASSUME ControlsInit PROVE ControlsOK
  OBVIOUS
<1>1. ~Started
  BY DEF ControlsInit, Started
<1>2. ReadOK
  BY <1>1 DEF ControlsInit, ReadOK
<1>3. PushedOK
  BY DEF ControlsInit, PushedOK
<1>4. \A t \in Triggers : letGo[t] = TRUE /\ axes[t] = FALSE /\ pulled[t] = 0
  BY IdleIs DEF ControlsInit
<1>5. axes \in Axes /\ letGo \in [Triggers -> BOOLEAN]
  BY IdleIs DEF ControlsInit
<1>6. TriggersOK
  BY <1>4, <1>5 DEF TriggersOK
<1>7. ScrollOK
  BY <1>1, IdleIs DEF ControlsInit, ScrollOK
<1> QED
  BY <1>2, <1>3, <1>6, <1>7 DEF ControlsOK

LEMMA StartOK == ControlsOK /\ Start => ControlsOK'
<1> SUFFICES ASSUME ControlsOK, Start PROVE ControlsOK'
  OBVIOUS
<1> USE DEF ControlsOK
<1>1. axes = Idle /\ pulled = [t \in Triggers |-> 0]
  BY DEF Start, Started, ReadOK
<1>2. UNCHANGED <<file, pad, layer, pulled, tilt, axes, letGo, forgotten>>
  BY DEF Start
<1>3. Started' => config' = Load(file)
  BY DEF Start, Started
<1>4. ReadOK'
  BY <1>1, <1>2, <1>3 DEF ReadOK
<1>5. PushedOK' /\ TriggersOK'
  BY <1>2 DEF PushedOK, TriggersOK
<1>6. Started' => ScrollOf(0, 0)'.key = None
  <2>1. file \in Files
    BY DEF ReadOK
  <2> QED
    BY <1>3, <2>1, ScrollByKey DEF ScrollOf, ScrollBy
<1>7. ScrollOK'
  BY <1>1, <1>2, <1>6, IdleIs DEF ScrollOK, ScrollOf
<1> QED
  BY <1>4, <1>5, <1>7

\* A pull moves the one trigger.
LEMMA PullMoves ==
    ASSUME ControlsOK, NEW t \in Triggers, NEW p \in Pulls, PullTrigger(t, p)
    PROVE  LET now == TriggerPressed(Pull(pad, p), axes[t])
           IN  /\ now \in BOOLEAN /\ axes[t] \in BOOLEAN
               /\ axes' \in Axes /\ letGo' \in [Triggers -> BOOLEAN]
               /\ axes'[t] = now /\ (letGo'[t] <=> ~now) /\ pulled'[t] = p
               /\ \A u \in Triggers \ {t} :
                   axes'[u] = axes[u] /\ letGo'[u] = letGo[u] /\ pulled'[u] = pulled[u]
               /\ axes'.x = axes.x /\ axes'.y = axes.y
               /\ axes'.dir = axes.dir /\ axes'.fast = axes.fast
<1> DEFINE v == Pull(pad, p)
           now == TriggerPressed(v, axes[t])
           go == (letGo[t] \/ v <= TriggerRelease) /\ ~(now /\ ~axes[t])
<1>1. axes \in Axes /\ letGo \in [Triggers -> BOOLEAN] /\ pulled \in [Triggers -> Pulls \cup {0}]
  BY DEF ControlsOK, TriggersOK, PushedOK
<1>2. axes[t] \in BOOLEAN /\ letGo[t] \in BOOLEAN
  <2>1. letGo[t] \in BOOLEAN
    BY <1>1
  <2> QED
    BY <1>1, <2>1, AxesHeld
<1>9. letGo[t] <=> ~axes[t]
  BY Zenon DEF ControlsOK, TriggersOK
<1>3. v \in Int
  BY PullIsInt, ControlsAssumption DEF ControlsOK, ReadOK
<1>4. now \in BOOLEAN /\ (go <=> ~now) /\ go \in BOOLEAN
  <2> HIDE DEF v
  <2>1. now \in BOOLEAN /\ (go <=> ~now)
    BY <1>2, <1>3, <1>9, LetGoIs
  <2>2. go \in BOOLEAN
    OBVIOUS
  <2> QED
    BY <2>1, <2>2
<1>5. /\ axes' = [axes EXCEPT ![t] = now]
      /\ letGo' = [letGo EXCEPT ![t] = go]
      /\ pulled' = [pulled EXCEPT ![t] = p]
  BY Zenon DEF PullTrigger
<1> HIDE DEF now, go
<1>6. /\ axes' \in Axes /\ axes'[t] = now
      /\ \A u \in Triggers \ {t} : axes'[u] = axes[u]
      /\ axes'.x = axes.x /\ axes'.y = axes.y
      /\ axes'.dir = axes.dir /\ axes'.fast = axes.fast
  <2>1. t \in Readings /\ t \notin {"x", "y", "dir", "fast"}
    BY DEF Triggers, Readings
  <2>2. axes = [r \in Readings |-> axes[r]]
    BY <1>1, AxesAre
  <2>3. /\ axes' = [r \in Readings |-> axes'[r]] /\ axes'[t] = now
        /\ \A r \in Readings \ {t} : axes'[r] = axes[r]
    BY <1>5, <2>1, <2>2
  <2>4. /\ \A u \in Triggers \ {t} : axes'[u] = axes[u]
        /\ axes'["x"] = axes["x"] /\ axes'["y"] = axes["y"]
        /\ axes'["dir"] = axes["dir"] /\ axes'["fast"] = axes["fast"]
    BY <2>1, <2>3 DEF Readings, Triggers
  <2>5. \A u \in Triggers : axes[u] \in BOOLEAN
    BY <1>1, AxesHeld
  <2>6. \A u \in Triggers : axes'[u] \in BOOLEAN
    BY <1>4, <2>3, <2>4, <2>5, Zenon
  <2>7. /\ axes'["x"] \in Int /\ axes'["y"] \in Int
        /\ axes'["dir"] \in Directions /\ axes'["fast"] \in Directions
    BY <1>1, <2>4, AxesAre
  <2>8. axes' \in Axes
    <3>1. axes' = [r \in Readings |-> axes'[r]]
      BY <2>3
    <3> QED
      BY <3>1, <2>6, <2>7, AxesMade
  <2> QED
    BY <2>3, <2>4, <2>8, Zenon
<1>7. /\ letGo' \in [Triggers -> BOOLEAN] /\ letGo'[t] = go
      /\ \A u \in Triggers \ {t} : letGo'[u] = letGo[u]
  <2>1. letGo \in [Triggers -> BOOLEAN] /\ go \in BOOLEAN /\ letGo' = [letGo EXCEPT ![t] = go]
    BY <1>1, <1>4, <1>5, Zenon
  <2> HIDE DEF now
  <2> QED
    BY <2>1, Zenon
<1>8. pulled'[t] = p /\ \A u \in Triggers \ {t} : pulled'[u] = pulled[u]
  BY <1>1, <1>5
<1> QED
  BY <1>2, <1>4, <1>6, <1>7, <1>8, Zenon DEF now, v

LEMMA PullOK ==
    ASSUME ControlsOK, NEW t \in Triggers, NEW p \in Pulls, PullTrigger(t, p)
    PROVE  ControlsOK'
<1> DEFINE now == TriggerPressed(Pull(pad, p), axes[t])
<1>1. /\ now \in BOOLEAN /\ axes[t] \in BOOLEAN
      /\ axes' \in Axes /\ letGo' \in [Triggers -> BOOLEAN]
      /\ axes'[t] = now /\ (letGo'[t] <=> ~now) /\ pulled'[t] = p
      /\ \A u \in Triggers \ {t} :
           axes'[u] = axes[u] /\ letGo'[u] = letGo[u] /\ pulled'[u] = pulled[u]
      /\ axes'.x = axes.x /\ axes'.y = axes.y
      /\ axes'.dir = axes.dir /\ axes'.fast = axes.fast
  BY PullMoves
<1>2. /\ Started /\ pulled' = [pulled EXCEPT ![t] = p] /\ forgotten' = forgotten \ {t}
      /\ UNCHANGED <<file, config, pad, layer, tilt>>
  BY DEF PullTrigger
<1>3. ReadOK /\ PushedOK /\ TriggersOK /\ ScrollOK
  BY DEF ControlsOK
<1>4. (p = 0 => now = FALSE) /\ (p = 100 => now = TRUE)
  BY <1>1, <1>3, TriggerEnds DEF ReadOK
<1> HIDE DEF now
<1>5. ReadOK'
  BY <1>2, <1>3 DEF ReadOK, Started
<1>6. PushedOK'
  BY <1>2, <1>3 DEF PushedOK
<1>7. TriggersOK'
  <2>1. ASSUME NEW u \in Triggers
        PROVE  /\ letGo'[u] <=> ~axes'[u]
               /\ pulled'[u] = 0 => ~axes'[u]
               /\ pulled'[u] = 100 => axes'[u] \/ u \in forgotten'
    <3>1. CASE u = t
      BY <1>1, <1>4, <3>1, Zenon
    <3>2. CASE u # t
      <4>1. /\ letGo[u] <=> ~axes[u]
            /\ pulled[u] = 0 => ~axes[u]
            /\ pulled[u] = 100 => axes[u] \/ u \in forgotten
        BY <1>3, Zenon DEF TriggersOK
      <4>2. axes'[u] = axes[u] /\ letGo'[u] = letGo[u] /\ pulled'[u] = pulled[u]
        BY <1>1, <3>2, Zenon
      <4>3. u \in forgotten => u \in forgotten'
        BY <1>2, <3>2
      <4> QED
        BY <4>1, <4>2, <4>3, Zenon
    <3> QED
      BY <3>1, <3>2
  <2> QED
    BY <1>1, <2>1, Zenon DEF TriggersOK
<1>8. ScrollOK'
  <2>1. ScrollOf(axes.x, axes.y)' = ScrollOf(axes.x, axes.y)
    BY <1>1, <1>2 DEF ScrollOf
  <2> QED
    BY <1>1, <1>2, <1>3, <2>1 DEF ScrollOK, Started
<1> QED
  BY <1>5, <1>6, <1>7, <1>8 DEF ControlsOK

\* The file's settings are those of a file.
LEMMA ScrollOfKey ==
    ASSUME ControlsOK, Started, NEW x \in Int, NEW y \in Int
    PROVE  ScrollOf(x, y).key \in Directions /\ ScrollOf(0, 0).key = None
BY ScrollOfIs, ScrollByKey DEF ControlsOK, ReadOK

LEMMA PercentIsInt == /\ \A to \in Tilts \cup {<<Centre, Centre>>} : to[1] \in Int /\ to[2] \in Int
                      /\ \A to \in Steers : to[1] \in Int /\ to[2] \in Int
BY ControlsAssumption DEF Centre

LEMMA TiltOK ==
    ASSUME ControlsOK, NEW to \in Tilts, TiltStick(to)
    PROVE  ControlsOK'
<1> DEFINE ax == Tilt(pad, to[1])
           ay == Tilt(pad, to[2])
           fast == IF axes.dir # None THEN None ELSE ScrollOf(ax, ay).key
<1>1. ReadOK /\ PushedOK /\ TriggersOK /\ ScrollOK
  BY DEF ControlsOK
<1>2. /\ Started /\ tilt' = to /\ axes' = [axes EXCEPT !.x = ax, !.y = ay, !.fast = fast]
      /\ UNCHANGED <<file, config, pad, layer, pulled, letGo, forgotten>>
  BY Zenon DEF TiltStick
<1>3. ax \in Int /\ ay \in Int
  BY <1>1, PercentIsInt, TiltIsInt DEF ReadOK
<1> HIDE DEF ax, ay
<1>4. fast \in Directions
  BY <1>2, <1>3, ScrollOfKey DEF Directions
<1> HIDE DEF fast
<1>5. axes' \in Axes /\ axes'.x = ax /\ axes'.y = ay /\ axes'.fast = fast /\ axes'.dir = axes.dir
      /\ \A t \in Triggers : axes'[t] = axes[t]
  <2>1. axes = [r \in Readings |-> axes[r]] /\ axes.dir \in Directions
    BY <1>1, AxesAre DEF TriggersOK
  <2>2. /\ axes' = [r \in Readings |-> axes'[r]] /\ axes'["x"] = ax /\ axes'["y"] = ay
        /\ axes'["fast"] = fast /\ axes'["dir"] = axes["dir"]
        /\ \A t \in Triggers : axes'[t] = axes[t]
    BY <1>2, <2>1 DEF Readings, Triggers
  <2>3. \A t \in Triggers : axes'[t] \in BOOLEAN
    BY <1>1, <2>2, AxesHeld, Zenon DEF TriggersOK
  <2>4. axes' \in Axes
    BY <1>3, <1>4, <2>1, <2>2, <2>3, AxesMade
  <2> QED
    BY <2>2, <2>4, Zenon
<1>6. ReadOK' /\ PushedOK'
  BY <1>1, <1>2 DEF ReadOK, PushedOK, Started
<1>7. TriggersOK'
  BY <1>1, <1>2, <1>5, Zenon DEF TriggersOK
<1>8. ScrollOK'
  <2>1. ScrollOf(axes.x, axes.y)' = ScrollOf(ax, ay)
    BY <1>2, <1>5 DEF ScrollOf
  <2> QED
    BY <1>2, <1>5, <2>1 DEF ScrollOK, ax, ay, fast
<1> QED
  BY <1>6, <1>7, <1>8 DEF ControlsOK

LEMMA DirectionIs == \A x, y \in Int : Direction(x, y) \in Directions
BY DEF Direction, Directions, Arrows

LEMMA SteerOK ==
    ASSUME ControlsOK, NEW to \in Steers, Steer(to)
    PROVE  ControlsOK'
<1> DEFINE d == Direction(Quantize(Tilt(pad, to[1])), Quantize(Tilt(pad, to[2])))
           fast == IF d # None THEN None ELSE ScrollOf(axes.x, axes.y).key
<1>1. ReadOK /\ PushedOK /\ TriggersOK /\ ScrollOK
  BY DEF ControlsOK
<1>2. /\ Started /\ axes' = [axes EXCEPT !.dir = d, !.fast = fast]
      /\ UNCHANGED <<file, config, pad, layer, pulled, tilt, letGo, forgotten>>
  BY Zenon DEF Steer
<1>3. d \in Directions
  BY DirectionIs DEF Quantize
<1> HIDE DEF d
<1>4. axes.x \in Int /\ axes.y \in Int /\ axes = [r \in Readings |-> axes[r]]
  BY <1>1, AxesAre DEF TriggersOK
<1>5. fast \in Directions
  BY <1>2, <1>4, ScrollOfKey DEF Directions
<1> HIDE DEF fast
<1>6. axes' \in Axes /\ axes'.x = axes.x /\ axes'.y = axes.y /\ axes'.fast = fast /\ axes'.dir = d
      /\ \A t \in Triggers : axes'[t] = axes[t]
  <2>1. /\ axes' = [r \in Readings |-> axes'[r]] /\ axes'["x"] = axes["x"] /\ axes'["y"] = axes["y"]
        /\ axes'["fast"] = fast /\ axes'["dir"] = d
        /\ \A t \in Triggers : axes'[t] = axes[t]
    BY <1>2, <1>4 DEF Readings, Triggers
  <2>2. \A t \in Triggers : axes'[t] \in BOOLEAN
    BY <1>1, <2>1, AxesHeld, Zenon DEF TriggersOK
  <2>3. axes' \in Axes
    BY <1>3, <1>4, <1>5, <2>1, <2>2, AxesMade
  <2> QED
    BY <2>1, <2>3, Zenon
<1>7. ReadOK' /\ PushedOK'
  BY <1>1, <1>2 DEF ReadOK, PushedOK, Started
<1>8. TriggersOK'
  BY <1>1, <1>2, <1>6, Zenon DEF TriggersOK
<1>9. ScrollOK'
  <2>1. ScrollOf(axes.x, axes.y)' = ScrollOf(axes.x, axes.y)
    BY <1>2, <1>6 DEF ScrollOf
  <2> QED
    BY <1>1, <1>2, <1>6, <2>1 DEF ScrollOK, fast
<1> QED
  BY <1>7, <1>8, <1>9 DEF ControlsOK

LEMMA ForgetOK == ASSUME ControlsOK, Forget PROVE ControlsOK'
<1>1. ReadOK /\ PushedOK /\ TriggersOK /\ ScrollOK
  BY DEF ControlsOK
<1>2. /\ Started /\ axes' = Idle /\ letGo' = [t \in Triggers |-> TRUE] /\ forgotten' = Triggers
      /\ UNCHANGED <<file, config, pad, layer, pulled, tilt>>
  BY DEF Forget
<1>3. ReadOK' /\ PushedOK'
  BY <1>1, <1>2 DEF ReadOK, PushedOK, Started
<1>4. TriggersOK'
  <2>1. \A t \in Triggers : letGo'[t] = TRUE /\ axes'[t] = FALSE /\ t \in forgotten'
    BY <1>2, IdleIs, Zenon
  <2> QED
    BY <1>2, <2>1, IdleIs, Zenon DEF TriggersOK
<1>5. ScrollOK'
  <2>1. ScrollOf(axes.x, axes.y)' = ScrollOf(0, 0)
    BY <1>2, IdleIs DEF ScrollOf
  <2>2. ScrollOf(0, 0).key = None
    BY <1>2, ScrollOfKey
  <2> QED
    BY <1>2, <2>1, <2>2, IdleIs DEF ScrollOK
<1> QED
  BY <1>3, <1>4, <1>5 DEF ControlsOK

LEMMA EnterOK == ASSUME ControlsOK, NEW l \in {"browse", "player", "osk"}, Enter(l) PROVE ControlsOK'
<1>1. layer' = l /\ UNCHANGED <<file, config, pad, pulled, tilt, axes, letGo, forgotten>>
  BY DEF Enter
<1>2. ReadOK' /\ PushedOK' /\ TriggersOK' /\ ScrollOK'
  BY <1>1 DEF ControlsOK, ReadOK, PushedOK, TriggersOK, ScrollOK, Started, ScrollOf
<1> QED
  BY <1>2 DEF ControlsOK

LEMMA ControlsStepOK == ControlsOK /\ [ControlsNext]_controlsVars => ControlsOK'
<1> SUFFICES ASSUME ControlsOK, [ControlsNext]_controlsVars PROVE ControlsOK'
  OBVIOUS
<1>1. CASE Start
  BY <1>1, StartOK
<1>2. CASE Forget
  BY <1>2, ForgetOK
<1>3. CASE \E t \in Triggers, p \in Pulls : PullTrigger(t, p)
  BY <1>3, PullOK
<1>4. CASE \E to \in Tilts : TiltStick(to)
  BY <1>4, TiltOK
<1>5. CASE \E to \in Steers : Steer(to)
  BY <1>5, SteerOK
<1>6. CASE \E c \in Buttons : PressButton(c)
  BY <1>6, ControlsOKStands DEF PressButton, said
<1>7. CASE \E l \in {"browse", "player", "osk"} : Enter(l)
  BY <1>7, EnterOK
<1>8. CASE UNCHANGED controlsVars
  BY <1>8, ControlsOKStands DEF controlsVars, said
<1> QED
  BY <1>1, <1>2, <1>3, <1>4, <1>5, <1>6, <1>7, <1>8 DEF ControlsNext

LEMMA ControlsHolds == ControlsSpec => []ControlsOK
<1> QED
  BY ControlsInitOK, ControlsStepOK, PTL DEF ControlsSpec

\* Every variable keeps its type, whatever file is read and whatever range the pad reports.
THEOREM ControlsTyped == ControlsSpec => []ControlsTypeOK
<1>1. ASSUME ControlsOK PROVE ControlsTypeOK
  <2>1. axes.lt \in BOOLEAN /\ axes.rt \in BOOLEAN
    BY <1>1 DEF ControlsOK, TriggersOK, Axes
  <2>2. axes.dir \in Directions /\ axes.fast \in Directions
    BY <1>1, AxesAre DEF ControlsOK, TriggersOK
  <2> QED
    BY <1>1, <2>1, <2>2
    DEF ControlsOK, ReadOK, PushedOK, TriggersOK, ControlsTypeOK, Directions
<1> QED
  BY <1>1, ControlsHolds, PTL

\* What is read as held is what the user holds, in every range of a pad and for every
\* deadzone of a file.
THEOREM AxesAreRight == ControlsSpec => []AxesSayWhatIsHeld
<1>1. ASSUME ControlsOK PROVE AxesSayWhatIsHeld
  <2> DEFINE dz == config.int.right_stick_deadzone
  <2>1. ReadOK /\ TriggersOK /\ ScrollOK /\ tilt \in Tilts \cup {<<Centre, Centre>>}
    BY <1>1 DEF ControlsOK, PushedOK
  <2>2. axes.x \in Int /\ axes.y \in Int /\ Magnitude(axes.x) \in Int /\ Magnitude(axes.y) \in Int
    BY <2>1, AxesAre, MagnitudeIs DEF TriggersOK
  <2>3. Started => InRange(dz, 1, 32000)
    <3>1. Started => Paced(config.int)
      BY <2>1, LoadIsPaced DEF ReadOK
    <3> QED
      BY <3>1, SMT DEF Paced
  <2> HIDE DEF dz
  <2>4. \A t \in Triggers :
          /\ pulled[t] = 0 => ~axes[t]
          /\ pulled[t] = 100 => axes[t] \/ t \in forgotten
    BY <2>1, Zenon DEF TriggersOK
  <2>5. ASSUME tilt = <<Centre, Centre>>, Started, CentreIsDead PROVE axes.fast = None
    <3>1. Magnitude(Tilt(pad, Centre)) <= dz /\ Magnitude(0) <= dz /\ dz \in Int /\ 1 <= dz
      BY <2>3, <2>5, MagnitudeOfZero DEF CentreIsDead, dz, InRange
    <3>2. Magnitude(axes.x) <= dz /\ Magnitude(axes.y) <= dz
      BY <2>1, <2>5, <3>1 DEF ScrollOK
    <3>3. ScrollOf(axes.x, axes.y).key = None
      BY <2>2, <3>1, <3>2, ScrollWithin DEF ScrollOf, dz
    <3> QED
      BY <2>1, <2>5, <3>3 DEF ScrollOK
  <2>6. ASSUME Started, config.bool.right_stick_scroll, axes.dir = None,
               Magnitude(axes.y) = AxisMax
        PROVE  axes.fast # None
    <3>1. dz \in Int /\ 1 <= dz /\ Magnitude(axes.y) > dz
      BY <2>3, <2>6 DEF InRange, AxisMax
    <3>2. Magnitude(axes.x) <= Magnitude(axes.y)
      BY <2>2, <2>6, MagnitudeIs
    <3>3. ScrollOf(axes.x, axes.y).key # None
      BY <2>2, <2>6, <3>1, <3>2, ScrollPast DEF ScrollOf, dz
    <3> QED
      BY <2>1, <2>6, <3>3 DEF ScrollOK
  <2>7. tilt = <<Centre, Centre>> /\ Started /\ CentreIsDead => axes.fast = None
    BY <2>5
  <2>8. Started /\ config.bool.right_stick_scroll =>
          (axes.dir = None /\ Magnitude(axes.y) = AxisMax => axes.fast # None)
    BY <2>6
  <2> QED
    BY <2>4, <2>7, <2>8, Zenon DEF AxesSayWhatIsHeld
<1> QED
  BY <1>1, ControlsHolds, PTL

\* However a stick is pushed deeper and whatever the file says, it is repeated no slower.
THEOREM ScrollPaced == ControlsSpec => ScrollIsPaced
<1> DEFINE now == ScrollOf(axes.x, axes.y)
           next == ScrollOf(axes'.x, axes'.y)
<1>1. ASSUME ControlsOK, ControlsOK', Started, Deeper, now.key # None
      PROVE  next.key = now.key /\ next.interval \in MinScroll..now.interval
  <2>1. /\ axes.x \in Int /\ axes.y \in Int /\ axes'.y \in Int /\ axes'.x = axes.x
        /\ Magnitude(axes.x) <= Magnitude(axes.y)
        /\ (axes.y > 0 /\ axes'.y >= axes.y) \/ (axes.y < 0 /\ axes'.y <= axes.y)
    BY <1>1, AxesAre DEF ControlsOK, TriggersOK, Deeper
  <2>2. Paced(config.int)
    BY <1>1, LoadIsPaced DEF ControlsOK, ReadOK
  <2> DEFINE dz == config.int["right_stick_deadzone"]
             slow == config.int["right_stick_slow_ms"]
             fst == config.int["right_stick_fast_ms"]
             on == config.bool.right_stick_scroll
  <2>3. /\ dz \in Int /\ 1 <= dz /\ dz <= 32000 /\ slow \in Int /\ fst \in Int /\ fst <= slow
    BY <2>2, SMT DEF Paced, InRange
  <2>4. /\ now = Scroll(axes.x, axes.y, on, dz, slow, fst)
        /\ next = Scroll(axes.x, axes'.y, on, dz, slow, fst)
    BY <2>1 DEF ScrollOf
  <2> HIDE DEF now, next, dz, slow, fst, on
  <2> QED
    BY <1>1, <2>1, <2>3, <2>4, ScrollDeeper
<1>2. ASSUME ControlsOK, ControlsOK'
      PROVE  [Started /\ Deeper /\ ScrollOf(axes.x, axes.y).key # None =>
                LET n == ScrollOf(axes.x, axes.y)
                    m == ScrollOf(axes'.x, axes'.y)
                IN  m.key = n.key /\ m.interval \in MinScroll..n.interval]_axes
  BY <1>1, <1>2
<1> QED
  BY <1>2, ControlsHolds, PTL DEF ScrollIsPaced

\* A trigger acts once for a pull, and always for a full one.
THEOREM TriggersFireOnce == ControlsSpec => TriggerFiresOnce
<1> DEFINE Once == \A t \in Triggers : pulled'[t] # pulled[t] =>
                     /\ out' # Nothing => letGo[t]
                     /\ pulled'[t] = 100 /\ letGo[t] => out' = TriggerDoes(t)
<1>1. ASSUME ControlsOK, NEW u \in Triggers, NEW p \in Pulls, PullTrigger(u, p) PROVE Once
  <2> DEFINE now == TriggerPressed(Pull(pad, p), axes[u])
  <2>1. /\ axes[u] \in BOOLEAN /\ pulled'[u] = p
        /\ \A t \in Triggers \ {u} : pulled'[t] = pulled[t]
    BY <1>1, PullMoves
  <2>2. letGo[u] <=> ~axes[u]
    BY <1>1, Zenon DEF ControlsOK, TriggersOK
  <2>3. p = 100 => now = TRUE
    BY <1>1, <2>1, TriggerEnds DEF ControlsOK, ReadOK
  <2>4. out' = IF now /\ ~axes[u] THEN TriggerDoes(u) ELSE Nothing
    BY <1>1, Zenon DEF PullTrigger
  <2> HIDE DEF now
  <2>5. out' # Nothing => letGo[u]
    BY <2>2, <2>4, Zenon
  <2>6. p = 100 /\ letGo[u] => out' = TriggerDoes(u)
    BY <2>2, <2>3, <2>4, Zenon
  <2> QED
    BY <2>1, <2>5, <2>6, Zenon
<1>2. ASSUME UNCHANGED pulled PROVE Once
  BY <1>2
<1>3. ASSUME ControlsOK, [ControlsNext]_controlsVars PROVE [Once]_controlsVars
  <2>1. CASE \E t \in Triggers, p \in Pulls : PullTrigger(t, p)
    BY <1>1, <1>3, <2>1
  <2>2. CASE UNCHANGED pulled
    BY <1>2, <2>2
  <2>3. ASSUME Start \/ Forget PROVE UNCHANGED pulled
    BY <2>3 DEF Start, Forget
  <2>4. ASSUME NEW to, TiltStick(to) \/ Steer(to) PROVE UNCHANGED pulled
    BY <2>4 DEF TiltStick, Steer
  <2>5. ASSUME NEW c, PressButton(c) \/ Enter(c) PROVE UNCHANGED pulled
    BY <2>5 DEF PressButton, Enter
  <2> HIDE DEF Once
  <2> QED
    BY <1>3, <2>1, <2>2, <2>3, <2>4, <2>5 DEF ControlsNext
<1> QED
  BY <1>3, ControlsHolds, PTL DEF ControlsSpec, TriggerFiresOnce

\* What a held modifier leaves of the pad.
Own(o, layerOfT) == o.kind \in {"nothing", "menu"} \/ o.key \in {layerOfT[c] : c \in DOMAIN layerOfT}

LEMMA FindIsOwn == ASSUME NEW m, NEW c PROVE Own(Key(Find(m, c)), m)
BY DEF Own, Key, Find, Does, Nothing

LEMMA ModifierResolves ==
    ASSUME NEW m, NEW t \in Triggers, NEW h, ActiveModifier(m, h) = t
    PROVE  /\ \A c, l, f : Resolve(m, c, l, h, f) = Find(m[t], c)
           /\ \A c, l, f, g : ResolvePress(m, c, l, h, f, g) = Key(Find(m[t], c))
BY Zenon DEF Resolve, ResolvePress, Triggers, None

LEMMA NothingIsOwn == ASSUME NEW m PROVE Own(Nothing, m) /\ Own(Does("menu", None), m)
BY DEF Own, Does, Nothing

\* A trigger known to be pulled that has a layer, and precedes the other.
Owner(t) ==
    /\ pulled[t] = 100 /\ t \notin forgotten /\ DOMAIN maps[t] # {}
    /\ t = "lt" \/ ~axes.lt \/ DOMAIN maps.lt = {}

LEMMA OwnerIsActive ==
    ASSUME ControlsOK, NEW t \in Triggers, Owner(t)
    PROVE  ActiveModifier(maps, Held) = t
<1>1. axes[t]
  BY Zenon DEF ControlsOK, TriggersOK, Owner
<1>2. Held["lt"] = axes["lt"] /\ Held["rt"] = axes["rt"]
  BY DEF Held, Triggers
<1>3. CASE t = "lt"
  BY <1>1, <1>2, <1>3, Zenon DEF ActiveModifier, Owner
<1>4. CASE t = "rt"
  BY <1>1, <1>2, <1>4, Zenon DEF ActiveModifier, Owner
<1> QED
  BY <1>3, <1>4, Zenon DEF Triggers

\* What a trigger that is no modifier does, at the edge of its own pull.
Edge(u) == DOMAIN maps[u] = {} /\ ~axes[u] /\ axes'[u] /\ out' = TriggerDoes(u)

\* While a trigger with a layer of its own is known to be pulled, nothing but its layer's
\* keys and the menu comes of the pad, and what the other trigger does at its own edge.
THEOREM ModifierOwns == ControlsSpec => ModifierOwnsPad
<1>1. ASSUME ControlsOK, ControlsNext, NEW t \in Triggers, Owner(t)
      PROVE  Own(out', maps[t]) \/ \E u \in Triggers : Edge(u)
  <2>1. ActiveModifier(maps, Held) = t
    BY <1>1, OwnerIsActive
  <2>2. \A d : Own(Arrow(d), maps[t])
    <3> SUFFICES ASSUME NEW d PROVE Own(Arrow(d), maps[t])
      OBVIOUS
    <3>1. Resolve(maps, d, layer, Held, Arrows[d]) = Find(maps[t], d)
      BY <2>1, ModifierResolves
    <3>2. Arrow(d) = Nothing \/ Arrow(d) = Key(Find(maps[t], d))
      BY <3>1, Zenon DEF Arrow
    <3>3. Own(Key(Find(maps[t], d)), maps[t]) /\ Own(Nothing, maps[t])
      BY FindIsOwn, NothingIsOwn
    <3> QED
      BY <3>2, <3>3, Zenon
  <2>3. \A c : Own(Press(c), maps[t])
    <3> SUFFICES ASSUME NEW c PROVE Own(Press(c), maps[t])
      OBVIOUS
    <3>1. Press(c) = Key(Find(maps[t], c))
      BY <2>1, ModifierResolves DEF Press
    <3> QED
      BY <3>1, FindIsOwn
  <2>4. CASE Start
    <3>1. pulled = [u \in Triggers |-> 0]
      BY <1>1, <2>4 DEF Start, Started, ControlsOK, ReadOK
    <3> QED
      BY <1>1, <3>1 DEF Owner
  <2>5. CASE \E u \in Triggers, p \in Pulls : PullTrigger(u, p)
    <3>1. PICK u \in Triggers, p \in Pulls : PullTrigger(u, p)
      BY <2>5
    <3> DEFINE now == TriggerPressed(Pull(pad, p), axes[u])
    <3>2. axes'[u] = now /\ axes[u] \in BOOLEAN
      BY <1>1, <3>1, PullMoves
    <3>3. out' = IF now /\ ~axes[u] THEN TriggerDoes(u) ELSE Nothing
      BY <3>1, Zenon DEF PullTrigger
    <3>4. DOMAIN maps[u] # {} => TriggerDoes(u) = Nothing
      BY Zenon DEF TriggerDoes
    <3> HIDE DEF now
    <3>5. out' = Nothing \/ Edge(u)
      BY <3>2, <3>3, <3>4, Zenon DEF Edge
    <3> QED
      BY <3>5, NothingIsOwn, Zenon
  <2>6. CASE \E to \in Tilts : TiltStick(to)
    <3>1. \E d : out' = Arrow(d) \/ out' = Nothing
      BY <2>6, Zenon DEF TiltStick
    <3> QED
      BY <2>2, <3>1, NothingIsOwn, Zenon
  <2>7. CASE \E to \in Steers : Steer(to)
    <3>1. \E d : out' = Arrow(d) \/ out' = Nothing
      BY <2>7, Zenon DEF Steer
    <3> QED
      BY <2>2, <3>1, NothingIsOwn, Zenon
  <2>8. CASE \E c \in Buttons : PressButton(c)
    <3>1. \E c : out' = Press(c) \/ out' = Does("menu", None)
      BY <2>8, Zenon DEF PressButton
    <3> QED
      BY <2>3, <3>1, NothingIsOwn, Zenon
  <2>9. CASE Forget \/ \E l \in {"browse", "player", "osk"} : Enter(l)
    <3>1. out' = Nothing
      BY <2>9, Zenon DEF Forget, Enter
    <3> QED
      BY <3>1, NothingIsOwn
  <2> QED
    BY <1>1, <2>4, <2>5, <2>6, <2>7, <2>8, <2>9 DEF ControlsNext
<1>2. ASSUME ControlsOK, [ControlsNext]_controlsVars
      PROVE  [\A t \in Triggers :
                /\ pulled[t] = 100 /\ t \notin forgotten /\ DOMAIN maps[t] # {}
                /\ t = "lt" \/ ~axes.lt \/ DOMAIN maps.lt = {}
                => \/ out'.kind \in {"nothing", "menu"} \/ out'.key \in {maps[t][c] : c \in DOMAIN maps[t]}
                   \/ \E u \in Triggers : /\ DOMAIN maps[u] = {} /\ ~axes[u] /\ axes'[u]
                                          /\ out' = TriggerDoes(u)]_controlsVars
  <2>1. CASE ControlsNext
    <3>1. ASSUME NEW t \in Triggers,
                 pulled[t] = 100 /\ t \notin forgotten /\ DOMAIN maps[t] # {},
                 t = "lt" \/ ~axes.lt \/ DOMAIN maps.lt = {}
          PROVE  \/ out'.kind \in {"nothing", "menu"} \/ out'.key \in {maps[t][c] : c \in DOMAIN maps[t]}
                 \/ \E u \in Triggers : /\ DOMAIN maps[u] = {} /\ ~axes[u] /\ axes'[u]
                                        /\ out' = TriggerDoes(u)
      <4>1. Owner(t)
        BY <3>1, Zenon DEF Owner
      <4>2. Own(out', maps[t]) \/ \E u \in Triggers : Edge(u)
        BY <1>1, <1>2, <2>1, <3>1, <4>1
      <4> QED
        BY <4>2, Zenon DEF Own, Edge
    <3> QED
      BY <3>1, Zenon
  <2> QED
    BY <1>2, <2>1
<1> QED
  BY <1>2, ControlsHolds, PTL DEF ControlsSpec, ModifierOwnsPad

-----------------------------------------------------------------------------
(* The delays between retries: a recursive function, by its least           *)
(* counterexample.                                                          *)

LEMMA LeastIndex ==
    ASSUME NEW T \in SUBSET Nat, T # {}
    PROVE  \E i \in T : \A j \in T : i <= j
<1> DEFINE R == {ss \in Nat \X Nat : ss[1] < ss[2]}
<1>1. IsWellFoundedOn(R, Nat)
  BY NatLessThanWellFounded DEF OpToRel
<1>2. PICK i \in T : \A j \in T : ~ (<<j, i>> \in R)
  <2> HIDE DEF R
  <2> QED
    BY <1>1, WFMin, Zenon
<1>3. ASSUME NEW j \in Nat, NEW k \in Nat, j < k PROVE <<j, k>> \in R
  BY <1>3
<1>4. ASSUME NEW j \in T PROVE i <= j
  <2> HIDE DEF R
  <2>1. i \in Nat /\ j \in Nat /\ ~ (j < i)
    BY <1>2, <1>3
  <2> QED
    BY <2>1
<1> QED
  BY <1>4

\* retry_backoff_ms() counts up from the shorter delay.
After(d, max) == IF d >= max THEN d ELSE Doubled(d, max)

Delays(f, a, min, max) ==
    f = [n \in 0..a |-> IF n = 0 THEN Floor(min)
                        ELSE IF f[n - 1] >= max THEN f[n - 1] ELSE Doubled(f[n - 1], max)]

LEMMA DelaysAre ==
    ASSUME NEW f, NEW a \in Nat, NEW min, NEW max
    PROVE  Delays(f, a, min, max) <=>
             /\ f = [n \in 0..a |-> f[n]] /\ f[0] = Floor(min)
             /\ \A n \in 0..a : n # 0 => f[n] = After(f[n - 1], max)
<1>1. ASSUME Delays(f, a, min, max)
      PROVE  /\ f = [n \in 0..a |-> f[n]] /\ f[0] = Floor(min)
             /\ \A n \in 0..a : n # 0 => f[n] = After(f[n - 1], max)
  BY <1>1 DEF Delays, After
<1>2. ASSUME f = [n \in 0..a |-> f[n]], f[0] = Floor(min),
             \A n \in 0..a : n # 0 => f[n] = After(f[n - 1], max)
      PROVE  Delays(f, a, min, max)
  <2>1. \A n \in 0..a : f[n] = IF n = 0 THEN Floor(min)
                        ELSE IF f[n - 1] >= max THEN f[n - 1] ELSE Doubled(f[n - 1], max)
    BY <1>2 DEF After
  <2> QED
    BY <1>2, <2>1 DEF Delays
<1> QED
  BY <1>1, <1>2, Zenon

LEMMA BackoffIs ==
    ASSUME NEW a, NEW min, NEW max
    PROVE  Backoff(a, min, max) = (CHOOSE f : Delays(f, a, min, max))[a]
BY DEF Backoff, Delays

\* There are such delays for every number of attempts.
LEMMA DelaysExist ==
    ASSUME NEW a \in Nat, NEW min, NEW max
    PROVE  \E f : Delays(f, a, min, max)
<1> DEFINE Bad == {n \in Nat : ~ \E f : Delays(f, n, min, max)}
<1>1. SUFFICES ASSUME Bad # {} PROVE FALSE
  OBVIOUS
<1>2. PICK n \in Bad : \A j \in Bad : n <= j
  <2>1. Bad \in SUBSET Nat
    OBVIOUS
  <2> HIDE DEF Bad
  <2> QED
    BY <1>1, <2>1, LeastIndex
<1>3. CASE n = 0
  <2> DEFINE f == [k \in 0..0 |-> Floor(min)]
  <2>1. f = [k \in 0..0 |-> f[k]] /\ f[0] = Floor(min)
        /\ \A k \in 0..0 : k # 0 => f[k] = After(f[k - 1], max)
    OBVIOUS
  <2>2. Delays(f, 0, min, max)
    <3> HIDE DEF f
    <3> QED
      BY <2>1, DelaysAre
  <2> QED
    BY <1>2, <1>3, <2>2
<1>4. CASE n # 0
  <2>1. n \in Nat /\ n - 1 \in Nat /\ n - 1 \notin Bad
    <3>1. n \in Nat /\ n - 1 \in Nat /\ ~ (n <= n - 1)
      BY <1>2, <1>4
    <3> HIDE DEF Bad
    <3> QED
      BY <1>2, <3>1
  <2>2. PICK g : Delays(g, n - 1, min, max)
    BY <2>1
  <2>3. /\ g[0] = Floor(min)
        /\ \A k \in 0..(n - 1) : k # 0 => g[k] = After(g[k - 1], max)
    BY <2>1, <2>2, DelaysAre
  <2> DEFINE f == [k \in 0..n |-> IF k = n THEN After(g[n - 1], max) ELSE g[k]]
  <2>4. /\ f = [k \in 0..n |-> f[k]] /\ f[0] = Floor(min)
        /\ \A k \in 0..n : k # 0 => f[k] = After(f[k - 1], max)
    BY <1>4, <2>1, <2>3
  <2>5. Delays(f, n, min, max)
    <3> HIDE DEF f
    <3> QED
      BY <2>1, <2>4, DelaysAre
  <2> QED
    BY <1>2, <2>5
<1> QED
  BY <1>3, <1>4

\* And they are the same as far as both go.
LEMMA DelaysAgree ==
    ASSUME NEW a \in Nat, NEW b \in Nat, NEW min, NEW max, NEW f, NEW g,
           Delays(f, a, min, max), Delays(g, b, min, max), NEW n \in Nat, n <= a, n <= b
    PROVE  f[n] = g[n]
<1> DEFINE Bad == {k \in Nat : k <= a /\ k <= b /\ f[k] # g[k]}
<1>1. SUFFICES ASSUME Bad # {} PROVE FALSE
  OBVIOUS
<1>2. PICK k \in Bad : \A j \in Bad : k <= j
  <2>1. Bad \in SUBSET Nat
    OBVIOUS
  <2> HIDE DEF Bad
  <2> QED
    BY <1>1, <2>1, LeastIndex
<1>3. /\ f[0] = Floor(min) /\ \A j \in 0..a : j # 0 => f[j] = After(f[j - 1], max)
      /\ g[0] = Floor(min) /\ \A j \in 0..b : j # 0 => g[j] = After(g[j - 1], max)
  BY DelaysAre
<1>4. k \in Nat /\ k <= a /\ k <= b /\ f[k] # g[k]
  BY <1>2
<1>5. k # 0 /\ k - 1 \in Nat /\ k - 1 \notin Bad
  <2>1. k # 0
    BY <1>3, <1>4
  <2>2. k - 1 \in Nat /\ ~ (k <= k - 1)
    BY <1>4, <2>1
  <2> HIDE DEF Bad
  <2> QED
    BY <1>2, <2>1, <2>2
<1>6. f[k - 1] = g[k - 1]
  BY <1>4, <1>5
<1> QED
  BY <1>3, <1>4, <1>5, <1>6

LEMMA BackoffChosen ==
    ASSUME NEW a \in Nat, NEW min, NEW max
    PROVE  \E f : Delays(f, a, min, max) /\ Backoff(a, min, max) = f[a]
<1> DEFINE f == CHOOSE f : Delays(f, a, min, max)
<1>1. Delays(f, a, min, max)
  BY DelaysExist
<1>2. Backoff(a, min, max) = f[a]
  BY BackoffIs
<1> QED
  BY <1>1, <1>2

\* Each delay follows from the one before, for every number of attempts.
LEMMA BackoffStep ==
    ASSUME NEW a \in Nat, NEW min, NEW max
    PROVE  /\ Backoff(0, min, max) = Floor(min)
           /\ Backoff(a + 1, min, max) = After(Backoff(a, min, max), max)
<1>1. PICK f : Delays(f, 0, min, max) /\ Backoff(0, min, max) = f[0]
  BY BackoffChosen
<1>2. f[0] = Floor(min)
  BY <1>1, DelaysAre
<1>3. PICK g : Delays(g, a, min, max) /\ Backoff(a, min, max) = g[a]
  BY BackoffChosen
<1>4. PICK h : Delays(h, a + 1, min, max) /\ Backoff(a + 1, min, max) = h[a + 1]
  BY BackoffChosen
<1>5. h[a + 1] = After(h[a], max)
  <2> DEFINE b == a + 1
  <2>1. b \in Nat /\ b \in 0..b /\ b # 0 /\ b - 1 = a
    OBVIOUS
  <2>2. Delays(h, b, min, max)
    BY <1>4
  <2> HIDE DEF b
  <2>3. h[b] = After(h[b - 1], max)
    BY <2>1, <2>2, DelaysAre
  <2> QED
    BY <2>1, <2>3 DEF b
<1>6. h[a] = g[a]
  BY <1>3, <1>4, DelaysAgree
<1> QED
  BY <1>1, <1>2, <1>3, <1>4, <1>5, <1>6

\* A delay between the floor and the longer delay, or the floor if that is shorter.
LEMMA AfterGrows ==
    ASSUME NEW max \in Int, NEW d \in Int, 250 <= d, d <= Floor(max)
    PROVE  /\ After(d, max) \in Int /\ d <= After(d, max) /\ After(d, max) <= Floor(max)
           /\ After(d, max) = Floor(max) \/ After(d, max) >= 2 * d
BY DEF After, Doubled, Floor, MinRetry

LEMMA BackoffRange ==
    ASSUME NEW min \in Int, NEW max \in Int, min <= max, NEW n \in Nat
    PROVE  Backoff(n, min, max) \in Int /\ 250 <= Backoff(n, min, max)
           /\ Backoff(n, min, max) <= Floor(max)
<1> DEFINE In(k) == /\ Backoff(k, min, max) \in Int /\ 250 <= Backoff(k, min, max)
                    /\ Backoff(k, min, max) <= Floor(max)
           Bad == {k \in Nat : ~In(k)}
<1>1. SUFFICES ASSUME Bad # {} PROVE FALSE
  OBVIOUS
<1>2. PICK k \in Bad : \A j \in Bad : k <= j
  <2>1. Bad \in SUBSET Nat
    OBVIOUS
  <2> HIDE DEF Bad
  <2> QED
    BY <1>1, <2>1, LeastIndex
<1>3. In(0)
  BY BackoffStep DEF Floor, MinRetry
<1>4. k \in Nat /\ k - 1 \in Nat /\ In(k - 1)
  <2>1. k \in Nat /\ ~In(k) /\ k # 0
    BY <1>2, <1>3
  <2>2. k - 1 \in Nat /\ ~ (k <= k - 1)
    BY <2>1
  <2>3. k - 1 \notin Bad
    <3> HIDE DEF Bad
    <3> QED
      BY <1>2, <2>2
  <2> QED
    BY <2>1, <2>2, <2>3
<1>5. In(k)
  <2> DEFINE j == k - 1
             d == Backoff(j, min, max)
  <2>1. j \in Nat /\ j + 1 = k /\ In(j)
    BY <1>4
  <2>2. d \in Int /\ 250 <= d /\ d <= Floor(max)
    BY <2>1
  <2> HIDE DEF j
  <2>3. Backoff(j + 1, min, max) = After(d, max)
    BY <2>1, BackoffStep
  <2> HIDE DEF d
  <2>4. After(d, max) \in Int /\ d <= After(d, max) /\ After(d, max) <= Floor(max)
    BY <2>2, AfterGrows
  <2> QED
    BY <2>1, <2>2, <2>3, <2>4
<1> QED
  BY <1>2, <1>5

LEMMA BackoffGrows ==
    ASSUME NEW min \in Int, NEW max \in Int, min <= max, NEW n \in Nat
    PROVE  /\ Backoff(n, min, max) <= Backoff(n + 1, min, max)
           /\ \/ Backoff(n + 1, min, max) = Floor(max)
              \/ Backoff(n + 1, min, max) >= 2 * Backoff(n, min, max)
<1> DEFINE d == Backoff(n, min, max)
<1>1. d \in Int /\ 250 <= d /\ d <= Floor(max)
  BY BackoffRange
<1>2. Backoff(n + 1, min, max) = After(d, max)
  BY BackoffStep
<1> HIDE DEF d
<1>3. /\ d <= After(d, max)
      /\ After(d, max) = Floor(max) \/ After(d, max) >= 2 * d
  BY <1>1, AfterGrows
<1> QED
  BY <1>2, <1>3 DEF d

\* Until it is reached, a delay is twice the one before.
Reached(n, least, min, max) ==
    Backoff(n, min, max) = Floor(max) \/ Backoff(n, min, max) >= least

LEMMA BackoffDoubles ==
    ASSUME NEW min \in Int, NEW max \in Int, min <= max, NEW n \in Nat, NEW m, m = n + 1,
           NEW least \in Int, NEW twice, twice = 2 * least, Reached(n, least, min, max)
    PROVE  Reached(m, twice, min, max)
<1>1. /\ Backoff(n, min, max) \in Int /\ Backoff(m, min, max) \in Int /\ Floor(max) \in Int
      /\ Backoff(n, min, max) <= Backoff(m, min, max) /\ Backoff(m, min, max) <= Floor(max)
      /\ Backoff(m, min, max) = Floor(max) \/ Backoff(m, min, max) >= 2 * Backoff(n, min, max)
  <2>1. m \in Nat
    OBVIOUS
  <2>2. Floor(max) \in Int
    BY DEF Floor, MinRetry
  <2>3. /\ Backoff(n, min, max) <= Backoff(m, min, max)
        /\ Backoff(m, min, max) = Floor(max) \/ Backoff(m, min, max) >= 2 * Backoff(n, min, max)
    BY BackoffGrows
  <2>4. Backoff(n, min, max) \in Int
    BY BackoffRange
  <2>5. Backoff(m, min, max) \in Int /\ Backoff(m, min, max) <= Floor(max)
    BY <2>1, BackoffRange
  <2> QED
    BY <2>2, <2>3, <2>4, <2>5
<1>2. CASE Backoff(n, min, max) = Floor(max)
  BY <1>1, <1>2 DEF Reached
<1>3. CASE Backoff(n, min, max) >= least
  BY <1>1, <1>3 DEF Reached
<1> QED
  BY <1>2, <1>3 DEF Reached

\* From the floor to the longest delay a file can ask for it is thirteen attempts at most.
LEMMA BackoffReaches ==
    ASSUME NEW min \in Int, NEW max \in Int, min <= max, max <= 600000
    PROVE  Backoff(13, min, max) = Floor(max)
<1> DEFINE R(n, least) == Reached(n, least, min, max)
<1>0. R(0, 250)
  BY BackoffRange DEF Reached
<1>1. R(1, 500)
  BY <1>0, BackoffDoubles
<1>2. R(2, 1000)
  BY <1>1, BackoffDoubles
<1>3. R(3, 2000)
  BY <1>2, BackoffDoubles
<1>4. R(4, 4000)
  BY <1>3, BackoffDoubles
<1>5. R(5, 8000)
  BY <1>4, BackoffDoubles
<1>6. R(6, 16000)
  BY <1>5, BackoffDoubles
<1>7. R(7, 32000)
  BY <1>6, BackoffDoubles
<1>8. R(8, 64000)
  BY <1>7, BackoffDoubles
<1>9. R(9, 128000)
  BY <1>8, BackoffDoubles
<1>10. R(10, 256000)
  BY <1>9, BackoffDoubles
<1>11. R(11, 512000)
  BY <1>10, BackoffDoubles
<1>12. R(12, 1024000)
  BY <1>11, BackoffDoubles
<1>13. R(13, 2048000)
  BY <1>12, BackoffDoubles
<1>14. Backoff(13, min, max) \in Int /\ Backoff(13, min, max) <= Floor(max)
  BY BackoffRange
<1> QED
  BY <1>13, <1>14 DEF Reached, Floor, MinRetry

\* Whatever the file says, retries slow down from the floor on and reach the longer delay.
THEOREM RetriesSlowDown == ControlsSpec => RetriesBackOff
<1> DEFINE min == config'.int.error_retry_min_ms
           max == config'.int.error_retry_max_ms
           delay(n) == Backoff(n, min, max)
           Paces == /\ \A n \in 0..12 : delay(n) \in MinRetry..Floor(max) /\ delay(n) <= delay(n + 1)
                    /\ delay(13) = Floor(max)
<1>1. ASSUME ControlsOK, Start, ~Refused(file) PROVE Paces
  <2>1. config' = Load(file) /\ file \in Files
    BY <1>1 DEF Start, ControlsOK, ReadOK
  <2>2. Paced(config'.int)
    BY <2>1, LoadIsPaced
  <2>3. min \in Int /\ max \in Int /\ min <= max /\ max <= 600000
    BY <2>2, SMT DEF Paced, InRange
  <2> HIDE DEF min, max
  <2>4. delay(13) = Floor(max)
    BY <2>3, BackoffReaches
  <2>5. ASSUME NEW n \in Nat
        PROVE  /\ delay(n) \in Int /\ 250 <= delay(n) /\ delay(n) <= Floor(max)
               /\ delay(n) <= delay(n + 1)
    BY <2>3, BackoffRange, BackoffGrows
  <2>6. \A n \in Nat : delay(n) \in MinRetry..Floor(max) /\ delay(n) <= delay(n + 1)
    <3>1. Floor(max) \in Int
      BY <2>3 DEF Floor, MinRetry
    <3> HIDE DEF delay
    <3> QED
      BY <2>5, <3>1 DEF MinRetry
  <2> HIDE DEF delay
  <2>7. \A n \in 0..12 : n \in Nat
    OBVIOUS
  <2> QED
    BY <2>4, <2>6, <2>7, Zenon
<1>2. ASSUME ControlsOK
      PROVE  [Start /\ ~Refused(file) =>
                LET m == config'.int.error_retry_min_ms
                    x == config'.int.error_retry_max_ms
                    d(n) == Backoff(n, m, x)
                IN  /\ \A n \in 0..12 : d(n) \in MinRetry..Floor(x) /\ d(n) <= d(n + 1)
                    /\ d(13) = Floor(x)]_config
  BY <1>1, <1>2, Zenon
<1> QED
  BY <1>2, ControlsHolds, PTL DEF RetriesBackOff

-----------------------------------------------------------------------------
(* Touch gestures.                                                          *)

USE DEF pageVars, inputVars, routerVars, videoVars

-----------------------------------------------------------------------------
(* Queues of gestures.                                                      *)

Kinds == {"move", "hold", "release"}
Made == [n : Nat, kind : Kinds]

Sorted(q) == \A i, j \in DOMAIN q : i < j => q[i].n < q[j].n

\* A hold in q is followed by its release in q, unless that comes later.
Ended(q, later) ==
    \A i \in DOMAIN q :
        q[i].kind = "hold" => later \/ \E j \in DOMAIN q : i < j /\ Release(q[j])

LEMMA TailOf ==
    ASSUME NEW q \in Seq(Made), q # <<>>
    PROVE  /\ Tail(q) \in Seq(Made) /\ Head(q) \in Made /\ Head(q) = q[1]
           /\ Len(q) \in Nat \ {0} /\ DOMAIN q = 1 .. Len(q)
           /\ DOMAIN Tail(q) = 1 .. Len(q) - 1 /\ Len(Tail(q)) = Len(q) - 1
           /\ \A i \in DOMAIN Tail(q) : Tail(q)[i] = q[i + 1]
  BY HeadTailProperties, LenProperties, EmptySeq

LEMMA AppendTo ==
    ASSUME NEW q \in Seq(Made), NEW g \in Made
    PROVE  /\ Append(q, g) \in Seq(Made) /\ Len(q) \in Nat /\ DOMAIN q = 1 .. Len(q)
           /\ Len(Append(q, g)) = Len(q) + 1 /\ DOMAIN Append(q, g) = 1 .. Len(q) + 1
           /\ \A i \in 1 .. Len(q) : Append(q, g)[i] = q[i]
           /\ Append(q, g)[Len(q) + 1] = g
  BY LenProperties, AppendProperties

LEMMA EmptyQueue ==
    <<>> \in Seq(Made) /\ Sorted(<<>>) /\ DOMAIN <<>> = {} /\ Len(<<>>) = 0 /\ ~Releases(<<>>)
  BY EmptySeq DEF Sorted, Releases

LEMMA TailSorted ==
    ASSUME NEW q \in Seq(Made), q # <<>>, Sorted(q)
    PROVE  /\ Sorted(Tail(q))
           /\ \A i \in DOMAIN Tail(q) : Head(q).n < Tail(q)[i].n
           /\ \A i \in DOMAIN Tail(q) : \E j \in DOMAIN q : Tail(q)[i] = q[j]
           /\ Head(q) = q[1] /\ 1 \in DOMAIN q
<1> USE TailOf DEF Sorted
<1>1. \A i \in DOMAIN Tail(q) : i + 1 \in DOMAIN q /\ Tail(q)[i] = q[i + 1] /\ i \in Nat /\ 1 < i + 1
  OBVIOUS
<1>2. 1 \in DOMAIN q
  OBVIOUS
<1>3. Sorted(Tail(q))
  BY <1>1
<1> QED
  BY <1>1, <1>2, <1>3

LEMMA AppendSorted ==
    ASSUME NEW q \in Seq(Made), NEW g \in Made, Sorted(q), \A i \in DOMAIN q : q[i].n < g.n
    PROVE  /\ Sorted(Append(q, g))
           /\ \A i \in DOMAIN Append(q, g) :
                Append(q, g)[i] = g \/ \E j \in DOMAIN q : Append(q, g)[i] = q[j]
<1> DEFINE a == Append(q, g)
<1>0. /\ Len(q) \in Nat /\ DOMAIN q = 1 .. Len(q) /\ DOMAIN a = 1 .. Len(q) + 1
      /\ (\A i \in 1 .. Len(q) : a[i] = q[i]) /\ a[Len(q) + 1] = g
  BY AppendTo
<1> HIDE DEF a
<1> USE <1>0 DEF Sorted
<1>1. \A i \in DOMAIN a :
        i \in Nat /\ ((i \in DOMAIN q /\ a[i] = q[i]) \/ (i = Len(q) + 1 /\ a[i] = g))
  <2> TAKE i \in DOMAIN a
  <2>1. i \in 1 .. Len(q) + 1
    OBVIOUS
  <2>2. CASE i \in 1 .. Len(q)
    BY <2>2
  <2>3. CASE i = Len(q) + 1
    BY <2>3
  <2> QED
    BY <2>1, <2>2, <2>3
<1>2. \A i \in DOMAIN q : i < Len(q) + 1
  OBVIOUS
<1>3. Sorted(a)
  BY <1>1, <1>2
<1> QED
  BY <1>1, <1>3 DEF a

LEMMA TailEnded ==
    ASSUME NEW q \in Seq(Made), q # <<>>, NEW later, Ended(q, later)
    PROVE  /\ Ended(Tail(q), later)
           /\ Head(q).kind = "hold" => later \/ Releases(Tail(q))
           /\ Releases(q) => Release(Head(q)) \/ Releases(Tail(q))
<1> DEFINE t == Tail(q)
<1>0. /\ Len(q) \in Nat \ {0} /\ DOMAIN q = 1 .. Len(q) /\ DOMAIN t = 1 .. Len(q) - 1
      /\ (\A i \in DOMAIN t : t[i] = q[i + 1]) /\ Head(q) = q[1]
  BY TailOf
<1> HIDE DEF t
<1> USE <1>0 DEF Ended, Releases
<1>1. \A i \in DOMAIN t : i + 1 \in DOMAIN q /\ t[i] = q[i + 1] /\ i \in Nat
  OBVIOUS
<1>2. \A j \in DOMAIN q : j = 1 \/ (j - 1 \in DOMAIN t /\ t[j - 1] = q[j] /\ j \in Nat)
  OBVIOUS
<1>3. 1 \in DOMAIN q /\ Head(q) = q[1]
  OBVIOUS
<1>4. Ended(t, later)
  <2> SUFFICES ASSUME NEW i \in DOMAIN t, t[i].kind = "hold", ~later
               PROVE  \E j \in DOMAIN t : i < j /\ Release(t[j])
    OBVIOUS
  <2>1. PICK j \in DOMAIN q : i + 1 < j /\ Release(q[j])
    BY <1>1
  <2>2. j - 1 \in DOMAIN t /\ t[j - 1] = q[j]
    BY <1>1, <1>2, <2>1
  <2>3. i < j - 1
    BY <1>1, <2>1
  <2> QED
    BY <2>1, <2>2, <2>3
<1>5. Head(q).kind = "hold" => later \/ Releases(t)
  BY <1>2, <1>3
<1>6. Releases(q) => Release(Head(q)) \/ Releases(t)
  BY <1>2, <1>3
<1> QED
  BY <1>4, <1>5, <1>6 DEF t

LEMMA AppendEnded ==
    ASSUME NEW q \in Seq(Made), NEW g \in Made, NEW later, NEW then,
           Ended(q, later), later => then \/ Release(g), g.kind = "hold" => then
    PROVE  /\ Ended(Append(q, g), then)
           /\ Releases(q) => Releases(Append(q, g))
           /\ Release(g) => Releases(Append(q, g))
<1> DEFINE a == Append(q, g)
<1>0. /\ Len(q) \in Nat /\ DOMAIN q = 1 .. Len(q) /\ DOMAIN a = 1 .. Len(q) + 1
      /\ (\A i \in 1 .. Len(q) : a[i] = q[i]) /\ a[Len(q) + 1] = g
  BY AppendTo
<1> HIDE DEF a
<1> USE <1>0 DEF Ended, Releases
<1>1. \A i \in DOMAIN a :
        i \in Nat /\ ((i \in DOMAIN q /\ a[i] = q[i]) \/ (i = Len(q) + 1 /\ a[i] = g))
  <2> TAKE i \in DOMAIN a
  <2>1. i \in 1 .. Len(q) + 1
    OBVIOUS
  <2>2. CASE i \in 1 .. Len(q)
    BY <2>2
  <2>3. CASE i = Len(q) + 1
    BY <2>3
  <2> QED
    BY <2>1, <2>2, <2>3
<1>2. \A i \in DOMAIN q : i < Len(q) + 1 /\ i \in DOMAIN a /\ a[i] = q[i]
  OBVIOUS
<1>3. Len(q) + 1 \in DOMAIN a /\ a[Len(q) + 1] = g
  OBVIOUS
<1>4. Ended(a, then)
  <2> SUFFICES ASSUME NEW i \in DOMAIN a, a[i].kind = "hold", ~then
               PROVE  \E j \in DOMAIN a : i < j /\ Release(a[j])
    OBVIOUS
  <2>1. i \in DOMAIN q /\ q[i].kind = "hold"
    BY <1>1
  <2>2. CASE later
    BY <1>2, <1>3, <2>1, <2>2
  <2>3. CASE \E j \in DOMAIN q : i < j /\ Release(q[j])
    BY <1>2, <2>3
  <2> QED
    BY <2>1, <2>2, <2>3
<1>5. Releases(q) => Releases(a)
  BY <1>2
<1>6. Release(g) => Releases(a)
  BY <1>3
<1> QED
  BY <1>4, <1>5, <1>6 DEF a

-----------------------------------------------------------------------------
(* Who waits, and what is where.                                            *)

\* batch stays a record, whose queue alone matters here.
Shaped(b) == b = [configured |-> b.configured, on |-> b.on, q |-> b.q]

DataInv ==
    /\ queue \in Seq(Made) /\ Len(queue) <= MaxQueue
    /\ batch.q \in Seq(Made) /\ Shaped(batch)
    /\ made \in Nat /\ acted \in Nat

\* While a wait is pending nothing is queued; the router has a batch only between an
\* answer and its next question.
WaitInv ==
    /\ waiter \in {"none", "router", "nobody"}
    /\ waiter = "router" <=> at = "waiting"
    /\ waiter # "none" => queue = <<>>
    /\ at \in {"top", "load", "stop", "ask", "waiting"} => batch.q = <<>>
    /\ at \in RouterSteps

New(kind) == [n |-> made + 1, kind |-> kind]

\* What push() does: the gesture is queued behind what is kept of a full queue, or
\* goes to the router that waits, or to nobody.
Pushed(kind) ==
    /\ made' = made + 1 /\ waiter' = "none"
    /\ \/ /\ waiter = "none" /\ batch' = batch /\ at' = at
          /\ \/ queue' = Append(queue, New(kind)) /\ Len(queue) < MaxQueue
             \/ /\ queue # <<>> /\ queue' = Append(Tail(queue), New(kind))
                /\ Release(Head(queue)) => excuse'
       \/ /\ waiter = "nobody" /\ batch' = batch /\ at' = at
          /\ queue = <<>> /\ queue' = <<>>
          /\ kind = "release" => excuse'
       \/ /\ waiter = "router" /\ queue = <<>> /\ queue' = <<>>
          /\ batch'.q = <<New(kind)>> /\ Shaped(batch') /\ at' = "judge"

LEMMA PushIs ==
    ASSUME NEW kind \in Kinds, DataInv, WaitInv, Push(kind)
    PROVE  Pushed(kind) /\ (excuse => excuse') /\ New(kind) \in Made
<1> DEFINE kept == IF Len(queue) < MaxQueue THEN queue ELSE Tail(queue)
           new == Append(kept, New(kind))
<1>1. /\ made' = made + 1 /\ waiter' = "none"
      /\ queue' = (IF waiter = "none" THEN new ELSE <<>>)
      /\ waiter = "router" => batch' = [Drain EXCEPT !.q = new] /\ at' = "judge"
      /\ waiter # "router" => batch' = batch /\ at' = at
  BY Zenon DEF Push, Drained, New
<1>2. excuse => excuse'
  BY Zenon DEF Push
<1>3. waiter = "nobody" /\ kind = "release" => excuse'
  BY Zenon DEF Push
<1>4. Len(queue) = MaxQueue /\ Release(Head(queue)) => excuse'
  BY Zenon DEF Push
<1>5. New(kind) \in Made
  BY DEF New, Made, DataInv
<1>6. CASE waiter = "none"
  <2>1. CASE Len(queue) < MaxQueue
    <3>1. queue' = Append(queue, New(kind))
      BY <1>1, <1>6, <2>1
    <3> QED
      BY <1>1, <1>2, <1>5, <1>6, <2>1, <3>1, Zenon DEF Pushed
  <2>2. CASE ~(Len(queue) < MaxQueue)
    <3>1. Len(queue) = MaxQueue /\ queue # <<>>
      BY <2>2, GesturesAssumption, LenProperties, EmptySeq DEF DataInv
    <3>2. queue' = Append(Tail(queue), New(kind))
      BY <1>1, <1>6, <2>2
    <3>3. Release(Head(queue)) => excuse'
      BY <1>4, <3>1, Zenon
    <3>4. batch' = batch /\ at' = at
      BY <1>1, <1>6
    <3> QED
      BY <1>1, <1>2, <1>5, <1>6, <3>1, <3>2, <3>3, <3>4, Zenon DEF Pushed
  <2> QED
    BY <2>1, <2>2
<1>7. CASE waiter = "nobody"
  BY <1>1, <1>2, <1>3, <1>5, <1>7 DEF Pushed, WaitInv
<1>8. CASE waiter = "router"
  <2>1. queue = <<>>
    BY <1>8 DEF WaitInv
  <2>2. new = <<New(kind)>>
    BY <2>1, <1>5, GesturesAssumption, EmptyQueue
  <2>3. batch' = [configured |-> configured, on |-> pageOn, q |-> <<New(kind)>>]
    BY <1>1, <1>8, <2>2 DEF Drain
  <2>4. batch'.q = <<New(kind)>> /\ Shaped(batch')
    BY <2>3 DEF Shaped
  <2> QED
    BY <1>1, <1>2, <1>5, <1>8, <2>1, <2>4 DEF Pushed
<1> QED
  BY <1>6, <1>7, <1>8 DEF WaitInv

LEMMA PushKeepsData ==
    ASSUME NEW kind \in Kinds, DataInv, WaitInv, Push(kind), UNCHANGED acted
    PROVE  DataInv' /\ WaitInv'
<1> USE DEF DataInv, WaitInv, RouterSteps
<1>1. Pushed(kind) /\ New(kind) \in Made
  BY PushIs
<1>2. <<New(kind)>> \in Seq(Made)
  BY <1>1
<1>3. CASE waiter = "none"
  <2>1. queue' \in Seq(Made) /\ Len(queue') <= MaxQueue
    <3>1. CASE queue' = Append(queue, New(kind)) /\ Len(queue) < MaxQueue
      BY <1>1, <3>1, AppendTo, GesturesAssumption
    <3>2. CASE queue # <<>> /\ queue' = Append(Tail(queue), New(kind))
      <4>1. Tail(queue) \in Seq(Made) /\ Len(Tail(queue)) = Len(queue) - 1 /\ Len(queue) \in Nat
        BY <3>2, TailOf
      <4> QED
        BY <1>1, <3>2, <4>1, AppendTo, GesturesAssumption
    <3> QED
      BY <1>1, <1>3, <3>1, <3>2 DEF Pushed
  <2> QED
    BY <1>1, <1>3, <2>1 DEF Pushed, Shaped
<1>4. CASE waiter = "nobody"
  BY <1>1, <1>4, EmptyQueue, GesturesAssumption DEF Pushed, Shaped
<1>5. CASE waiter = "router"
  <2>1. queue' = <<>> /\ batch'.q = <<New(kind)>> /\ waiter' = "none" /\ at' = "judge" /\ made' = made + 1
    BY <1>1, <1>5 DEF Pushed
  <2>2. Shaped(batch)'
    BY <1>1, <1>5 DEF Pushed, Shaped
  <2> QED
    BY <1>2, <2>1, <2>2, EmptyQueue, GesturesAssumption
<1> QED
  BY <1>3, <1>4, <1>5

LEMMA KeepStep == ASSUME DataInv, WaitInv, [Next]_vars PROVE DataInv' /\ WaitInv'
<1> USE GesturesAssumption, EmptyQueue DEF DataInv, WaitInv, RouterSteps, Shaped
<1>1. CASE FingerDown
  BY <1>1 DEF FingerDown, PageFrame
<1>2. CASE SecondFinger
  BY <1>2 DEF SecondFinger, PageFrame
<1>3. CASE Drag
  <2>1. CASE Push("move") /\ UNCHANGED acted
    BY <2>1, PushKeepsData DEF Kinds
  <2>2. CASE UNCHANGED <<queue, waiter, batch, at, made, acted>>
    BY <2>2
  <2> QED
    BY <1>3, <2>1, <2>2 DEF Drag, PageFrame
<1>4. CASE LongPress
  <2>1. Push("hold") /\ UNCHANGED acted
    BY <1>4 DEF LongPress, PageFrame
  <2> QED
    BY <2>1, PushKeepsData DEF Kinds
<1>5. CASE FingerUp
  <2>1. CASE Push("release") /\ UNCHANGED acted
    BY <2>1, PushKeepsData DEF Kinds
  <2>2. CASE Push("move") /\ UNCHANGED acted
    BY <2>2, PushKeepsData DEF Kinds
  <2>3. CASE UNCHANGED <<queue, waiter, batch, at, made, acted>>
    BY <2>3
  <2> QED
    BY <1>5, <2>1, <2>2, <2>3 DEF FingerUp, PageFrame
<1>6. CASE Reload
  BY <1>6 DEF Reload, Move
<1>7. CASE WaitEnds
  BY <1>7 DEF WaitEnds, PageFrame, Drain, Drained
<1>8. CASE Toggle
  BY <1>8 DEF Toggle, Move
<1>9. CASE StorePush
  BY <1>9 DEF StorePush, Move
<1>10. CASE ModalChanges
  BY <1>10 DEF ModalChanges, Move
<1>11. CASE TakePush
  BY <1>11 DEF TakePush, Move
<1>12. CASE PushEnabled
  BY <1>12 DEF PushEnabled, Move, Ran, SetEnabled
<1>13. CASE StopScrub
  BY <1>13 DEF StopScrub, Move
<1>14. CASE Ask
  BY <1>14 DEF Ask, Move, Drain, Drained
<1>15. CASE AskTimesOut
  BY <1>15 DEF AskTimesOut, Move, Fault
<1>16. CASE Configure
  BY <1>16 DEF Configure, Move, Ran
<1>17. CASE Disable
  <2>1. at = "disable" /\ at' = "configure" /\ UNCHANGED <<batch, acted, made>>
    BY <1>17, Zenon DEF Disable, Move
  <2>2. (UNCHANGED <<queue, waiter>>) \/ (waiter' = "none" /\ queue' = <<>>)
    BY <1>17 DEF Disable, Ran, SetEnabled
  <2>3. DataInv'
    <3>1. queue' \in Seq(Made) /\ Len(queue') <= MaxQueue
      <4>1. CASE queue' = queue
        BY <4>1
      <4>2. CASE queue' = <<>>
        BY <4>2
      <4> QED
        BY <2>2, <4>1, <4>2
    <3>2. batch'.q \in Seq(Made) /\ Shaped(batch') /\ made' \in Nat /\ acted' \in Nat
      BY <2>1
    <3> QED
      BY <3>1, <3>2
  <2>4. WaitInv'
    BY <2>1, <2>2
  <2> QED
    BY <2>3, <2>4
<1>18. CASE Judge
  BY <1>18 DEF Judge, Move
<1>19. CASE Skip
  BY <1>19, TailOf DEF Skip
<1>20. CASE Act
  BY <1>20, TailOf DEF Act, Made
<1>21. CASE ActDone
  BY <1>21 DEF ActDone, Move, NoBatch
<1>22. CASE UNCHANGED vars
  BY <1>22 DEF vars
<1>23. CASE VideoChanges
  BY <1>23 DEF VideoChanges
<1> QED
  BY <1>1, <1>2, <1>3, <1>4, <1>5, <1>6, <1>7, <1>8, <1>9, <1>10, <1>11, <1>12, <1>13,
     <1>14, <1>15, <1>16, <1>17, <1>18, <1>19, <1>20, <1>21, <1>22, <1>23 DEF Next, Router

LEMMA KeepHolds == Spec => [](DataInv /\ WaitInv)
<1>1. Init => DataInv /\ WaitInv
  BY GesturesAssumption, EmptyQueue DEF Init, DataInv, WaitInv, RouterSteps, NoBatch, Shaped
<1> QED
  BY <1>1, KeepStep, PTL DEF Spec

-----------------------------------------------------------------------------
(* The order gestures are acted on.                                         *)

Within(q, low, high) == Sorted(q) /\ \A i \in DOMAIN q : low < q[i].n /\ q[i].n <= high

\* What was acted on is older than what is drained, and that older than what is queued.
OrderInv ==
    /\ acted <= made
    /\ Within(queue, acted, made) /\ Within(batch.q, acted, made)
    /\ \A i \in DOMAIN batch.q, j \in DOMAIN queue : batch.q[i].n < queue[j].n

LEMMA Numbers == ASSUME NEW q \in Seq(Made) PROVE \A i \in DOMAIN q : q[i] \in Made /\ q[i].n \in Nat
<1> TAKE i \in DOMAIN q
<1>1. q[i] \in Made
  BY LenProperties, ElementOfSeq
<1> QED
  BY <1>1 DEF Made

LEMMA PushKeepsOrder ==
    ASSUME NEW kind \in Kinds, DataInv, WaitInv, OrderInv, Push(kind), UNCHANGED acted
    PROVE  OrderInv'
<1> USE DEF OrderInv, Within, DataInv
<1>1. Pushed(kind) /\ New(kind) \in Made /\ New(kind).n = made + 1
  BY PushIs DEF New
<1>2. made' = made + 1 /\ acted' = acted
  BY <1>1 DEF Pushed
<1>3. CASE queue' = queue \/ queue' = <<>>
  <2>1. CASE batch' = batch
    BY <1>2, <1>3, <2>1, EmptyQueue, Numbers
  <2>2. CASE batch'.q = <<New(kind)>> /\ queue' = <<>>
    <3> DEFINE one == <<New(kind)>>
    <3>1. DOMAIN one = {1} /\ one[1] = New(kind)
      OBVIOUS
    <3> HIDE DEF one
    <3>2. Sorted(one)
      BY <3>1 DEF Sorted
    <3> QED
      BY <1>1, <1>2, <2>2, <3>1, <3>2, EmptyQueue DEF one
  <2> QED
    BY <1>1, <1>3, <2>1, <2>2 DEF Pushed
<1>4. CASE waiter = "none"
  <2>1. batch' = batch
    BY <1>1, <1>4 DEF Pushed
  <2>2. PICK kept \in Seq(Made) :
          /\ queue' = Append(kept, New(kind)) /\ Sorted(kept)
          /\ \A i \in DOMAIN kept : \E j \in DOMAIN queue : kept[i] = queue[j]
    <3>1. CASE queue' = Append(queue, New(kind))
      BY <3>1
    <3>2. CASE queue # <<>> /\ queue' = Append(Tail(queue), New(kind))
      BY <3>2, TailOf, TailSorted
    <3> QED
      BY <1>1, <1>4, <3>1, <3>2 DEF Pushed
  <2>3. \A i \in DOMAIN kept : acted < kept[i].n /\ kept[i].n <= made
    BY <2>2
  <2>4. \A i \in DOMAIN kept : kept[i].n < New(kind).n
    <3> TAKE i \in DOMAIN kept
    <3>1. kept[i] \in Made
      BY LenProperties, ElementOfSeq
    <3> QED
      BY <1>1, <2>3, <3>1 DEF Made
  <2>5. /\ Sorted(queue')
        /\ \A i \in DOMAIN queue' : queue'[i] = New(kind) \/ \E j \in DOMAIN kept : queue'[i] = kept[j]
    BY <1>1, <2>2, <2>4, AppendSorted
  <2>6. \A i \in DOMAIN queue' : queue'[i] = New(kind) \/ \E j \in DOMAIN queue : queue'[i] = queue[j]
    BY <2>2, <2>5
  <2>7. \A i \in DOMAIN queue : queue[i].n \in Nat
    BY Numbers
  <2>8. \A i \in DOMAIN batch.q : batch.q[i].n \in Nat
    BY Numbers
  <2>9. Within(queue', acted', made')
    BY <1>1, <1>2, <2>5, <2>6, <2>7
  <2>10. Within(batch'.q, acted', made')
    BY <1>2, <2>1, <2>8
  <2>11. \A i \in DOMAIN batch'.q, j \in DOMAIN queue' : batch'.q[i].n < queue'[j].n
    BY <1>1, <2>1, <2>6, <2>8
  <2> QED
    BY <1>2, <2>9, <2>10, <2>11
<1>5. queue' = <<>> \/ waiter = "none"
  BY <1>1 DEF Pushed
<1> QED
  BY <1>3, <1>4, <1>5

LEMMA OrderStep == ASSUME DataInv, WaitInv, OrderInv, [Next]_vars PROVE OrderInv'
<1> USE EmptyQueue DEF OrderInv, Within, DataInv
<1>1. CASE FingerDown
  BY <1>1 DEF FingerDown, PageFrame
<1>2. CASE SecondFinger
  BY <1>2 DEF SecondFinger, PageFrame
<1>3. CASE Drag
  <2>1. CASE Push("move") /\ UNCHANGED acted
    BY <2>1, PushKeepsOrder DEF Kinds
  <2>2. CASE UNCHANGED <<queue, batch, acted, made>>
    BY <2>2
  <2> QED
    BY <1>3, <2>1, <2>2 DEF Drag, PageFrame
<1>4. CASE LongPress
  <2>1. CASE Push("hold") /\ UNCHANGED acted
    BY <2>1, PushKeepsOrder DEF Kinds
  <2> QED
    BY <1>4, <2>1 DEF LongPress, PageFrame
<1>5. CASE FingerUp
  <2>1. CASE Push("release") /\ UNCHANGED acted
    BY <2>1, PushKeepsOrder DEF Kinds
  <2>2. CASE Push("move") /\ UNCHANGED acted
    BY <2>2, PushKeepsOrder DEF Kinds
  <2>3. CASE UNCHANGED <<queue, batch, acted, made>>
    BY <2>3
  <2> QED
    BY <1>5, <2>1, <2>2, <2>3 DEF FingerUp, PageFrame
<1>6. CASE Reload
  BY <1>6 DEF Reload
<1>7. CASE WaitEnds
  BY <1>7 DEF WaitEnds, PageFrame, Drain, Drained
<1>8. CASE Toggle
  BY <1>8 DEF Toggle, Move
<1>9. CASE StorePush
  BY <1>9 DEF StorePush, Move
<1>10. CASE ModalChanges
  BY <1>10 DEF ModalChanges, Move
<1>11. CASE TakePush
  BY <1>11 DEF TakePush, Move
<1>12. CASE PushEnabled
  BY <1>12 DEF PushEnabled, Move, Ran, SetEnabled
<1>13. CASE StopScrub
  BY <1>13 DEF StopScrub, Move
<1>14. CASE Ask
  BY <1>14 DEF Ask, Move, Drain, Drained
<1>15. CASE AskTimesOut
  BY <1>15 DEF AskTimesOut, Move
<1>16. CASE Configure
  BY <1>16 DEF Configure, Move, Ran
<1>17. CASE Disable
  <2>1. UNCHANGED <<batch, acted, made>>
    BY <1>17, Zenon DEF Disable
  <2>2. UNCHANGED queue \/ queue' = <<>>
    BY <1>17 DEF Disable, Ran, SetEnabled
  <2> QED
    BY <2>1, <2>2
<1>18. CASE Judge
  BY <1>18 DEF Judge, Move
<1>19. CASE Skip
  <2>1. batch'.q = Tail(batch.q) /\ UNCHANGED <<queue, acted, made>> /\ batch.q # <<>>
    BY <1>19 DEF Skip, Shaped
  <2> QED
    BY <2>1, TailOf, TailSorted
<1>20. CASE Act
  <2>1. batch'.q = Tail(batch.q) /\ acted' = Head(batch.q).n /\ batch.q # <<>>
    BY <1>20 DEF Act, Shaped
  <2>2. UNCHANGED <<queue, made>>
    BY <1>20 DEF Act
  <2>3. acted < acted' /\ acted' <= made
    BY <2>1, TailSorted
  <2>4. \A i \in DOMAIN queue : acted' < queue[i].n
    BY <2>1, TailSorted
  <2>5. Sorted(Tail(batch.q)) /\ \A i \in DOMAIN Tail(batch.q) :
          /\ acted' < Tail(batch.q)[i].n
          /\ \E j \in DOMAIN batch.q : Tail(batch.q)[i] = batch.q[j]
    BY <2>1, TailSorted
  <2> QED
    BY <2>1, <2>2, <2>3, <2>4, <2>5
<1>21. CASE ActDone
  BY <1>21 DEF ActDone, Move, NoBatch
<1>22. CASE UNCHANGED vars
  BY <1>22 DEF vars
<1>23. CASE VideoChanges
  BY <1>23 DEF VideoChanges
<1> QED
  BY <1>1, <1>2, <1>3, <1>4, <1>5, <1>6, <1>7, <1>8, <1>9, <1>10, <1>11, <1>12, <1>13,
     <1>14, <1>15, <1>16, <1>17, <1>18, <1>19, <1>20, <1>21, <1>22, <1>23 DEF Next, Router

\* No gesture is acted on twice or after a later one, whatever call timed out or was
\* superseded: a batch is taken off the page's queue when it is answered.
THEOREM ActsInOrder == Spec => ActedInOrder
<1>1. Init => OrderInv
  BY EmptyQueue, GesturesAssumption DEF Init, OrderInv, Within, NoBatch
<1>2. DataInv /\ OrderInv /\ [Next]_vars => [acted' # acted => acted' > acted]_acted
  <2> SUFFICES ASSUME DataInv, OrderInv, [Next]_vars, acted' # acted PROVE acted' > acted
    OBVIOUS
  <2>1. Act
    BY Zenon DEF Next, Router, vars, PageFrame, FingerDown, Drag, SecondFinger, LongPress, FingerUp, VideoChanges, Reload,
        WaitEnds, Toggle, StorePush, ModalChanges, TakePush, PushEnabled, StopScrub, Ask, AskTimesOut,
        Configure, Disable, Judge, Skip, ActDone
  <2> QED
    BY <2>1, TailSorted DEF Act, DataInv, OrderInv, Within, Made
<1> QED
  BY <1>1, <1>2, KeepHolds, OrderStep, PTL DEF Spec, ActedInOrder

-----------------------------------------------------------------------------
(* The end of a scrub.                                                      *)

HeldDown == finger \in {"held", "heldSecond"}

\* A page that is off has nothing queued and sees no finger; a hold it may have cut off
\* from its release is stopped, or is one that Disable has noted. An "off" owed to such a
\* hold stands until it is pushed.
OffInv ==
    /\ forgot \in {"none", "owed", "crossed"}
    /\ video = "held" => scrub
    /\ ~pageOn => queue = <<>> /\ finger = "none"
    /\ ~pageOn /\ (video = "held" \/ Holds(batch.q)) => at = "stop" \/ forgot # "none"
    /\ at \in {"judge", "disable", "configure"} /\ ~batch.on => batch.q = <<>>
    /\ at \in {"judge", "disable"} /\ ~batch.on /\ video = "held" => forgot # "none"
    /\ forgot = "owed" => StopIsOwed \/ at = "stop"

\* Every hold the router may still act on has its release behind it, or a finger down,
\* unless the page forgot it at a configuration.
Safe ==
    /\ Ended(queue, HeldDown)
    /\ ~drop /\ forgot # "crossed" /\ (forgot = "owed" => at # "configure")
          => Ended(batch.q, HeldDown \/ Releases(queue))
    /\ video = "held" /\ forgot # "crossed" =>
          HeldDown \/ Releases(queue) \/ Releases(batch.q) \/ at = "stop" \/ forgot = "owed"

DropInv == drop => at = "act"

LEMMA TailReleases ==
    ASSUME NEW q \in Seq(Made), q # <<>>
    PROVE  Releases(q) => Release(Head(q)) \/ Releases(Tail(q))
  BY TailEnded, Zenon DEF Ended

LEMMA PushKeepsSafe ==
    ASSUME NEW kind \in Kinds, DataInv, WaitInv, DropInv, Safe, ~excuse', Push(kind),
           UNCHANGED <<drop, videoVars, forgot>>,
           HeldDown => HeldDown' \/ kind = "release", kind = "hold" => HeldDown'
    PROVE  Safe'
<1> DEFINE new == New(kind)
<1>1. Pushed(kind) /\ new \in Made
  BY PushIs
<1>2. (Release(new) <=> kind = "release") /\ new.kind = kind
  BY DEF New, Release
<1>3. /\ queue \in Seq(Made) /\ batch.q \in Seq(Made) /\ (waiter = "router" => at = "waiting")
      /\ waiter \in {"none", "router", "nobody"} /\ (at = "waiting" => batch.q = <<>>)
  BY DEF DataInv, WaitInv
<1> HIDE DEF new
<1>4. CASE waiter = "none"
  <2>1. PICK kept \in Seq(Made) :
          /\ queue' = Append(kept, new) /\ Ended(kept, HeldDown)
          /\ Releases(queue) => Releases(kept)
    <3>1. CASE queue' = Append(queue, new)
      BY <1>3, <3>1 DEF Safe
    <3>2. CASE queue # <<>> /\ queue' = Append(Tail(queue), new) /\ ~Release(Head(queue))
      <4>1. Tail(queue) \in Seq(Made) /\ Ended(Tail(queue), HeldDown)
        BY <1>3, <3>2, TailOf, TailEnded DEF Safe
      <4> QED
        BY <1>3, <3>2, <4>1, TailReleases
    <3>3. Release(Head(queue)) /\ queue # <<>> /\ queue' = Append(Tail(queue), new) => excuse' \/ queue' = Append(queue, new)
      BY <1>1, <1>4, Zenon DEF Pushed, new
    <3> QED
      BY <1>1, <1>4, <3>1, <3>2, <3>3 DEF Pushed, new
  <2>2. Ended(queue', HeldDown') /\ (Releases(kept) => Releases(queue')) /\ (Release(new) => Releases(queue'))
    BY <1>1, <1>2, <2>1, AppendEnded
  <2>3. batch' = batch /\ at' = at
    BY <1>1, <1>4 DEF Pushed
  <2>4. HeldDown \/ Releases(queue) => HeldDown' \/ Releases(queue')
    BY <1>2, <2>1, <2>2
  <2>5. Ended(batch.q, HeldDown \/ Releases(queue)) => Ended(batch.q, HeldDown' \/ Releases(queue'))
    BY <2>4 DEF Ended
  <2> QED
    BY <2>2, <2>3, <2>4, <2>5 DEF Safe, DropInv
<1>5. CASE waiter = "nobody"
  <2>1. batch' = batch /\ at' = at /\ queue' = queue
    BY <1>1, <1>5 DEF Pushed
  <2>2. kind # "release"
    BY <1>1, <1>5, Zenon DEF Pushed
  <2>3. HeldDown => HeldDown'
    BY <2>2
  <2> QED
    BY <2>1, <2>3 DEF Safe, DropInv, Ended, Releases
<1>6. CASE waiter = "router"
  <2>1. batch'.q = <<new>> /\ queue' = <<>> /\ queue = <<>> /\ at = "waiting"
    BY <1>1, <1>3, <1>6 DEF Pushed, new
  <2>2. ~drop /\ ~drop'
    BY <2>1 DEF DropInv
  <2>3. <<new>> = Append(<<>>, new) /\ Ended(<<>>, HeldDown) /\ <<>> \in Seq(Made)
    BY EmptyQueue DEF Ended
  <2>4. Ended(<<new>>, HeldDown') /\ (Release(new) => Releases(<<new>>))
    BY <1>1, <1>2, <2>3, AppendEnded
  <2>5. video = "held" /\ forgot # "crossed" => HeldDown \/ forgot = "owed"
    BY <1>3, <2>1, EmptyQueue DEF Safe
  <2>6. video' = "held" /\ forgot' # "crossed" => HeldDown' \/ Releases(<<new>>) \/ forgot' = "owed"
    BY <1>2, <2>4, <2>5
  <2>7. Ended(queue', HeldDown') /\ Ended(batch'.q, HeldDown' \/ Releases(queue'))
    BY <2>1, <2>4, EmptyQueue DEF Ended
  <2> QED
    BY <2>1, <2>2, <2>6, <2>7 DEF Safe, DropInv
<1> QED
  BY <1>3, <1>4, <1>5, <1>6

LEMMA PushKeepsOff ==
    ASSUME NEW kind \in Kinds, DataInv, WaitInv, OffInv, Push(kind), pageOn, UNCHANGED <<videoVars, forgot>>,
           UNCHANGED <<pageOn, enabled, push, storing>>
    PROVE  OffInv'
<1>1. \/ batch' = batch /\ at' = at
      \/ at' = "judge" /\ batch'.on = pageOn /\ waiter = "router"
  BY Zenon DEF Push, Drain
<1>2. batch' = [Drain EXCEPT !.q = batch'.q] \/ (batch' = batch /\ at' = at)
  BY Zenon DEF Push, Drain
<1> QED
  BY <1>1, <1>2 DEF OffInv, StopIsOwed, WaitInv

LEMMA OffStep == ASSUME DataInv, WaitInv, OffInv, ~excuse', [Next]_vars PROVE OffInv'
<1> USE EmptyQueue DEF OffInv, StopIsOwed, WaitInv, DataInv
<1>1. CASE FingerDown
  BY <1>1 DEF FingerDown, PageFrame
<1>2. CASE SecondFinger
  BY <1>2 DEF SecondFinger, PageFrame
<1>3. CASE Drag
  <2>1. CASE Push("move")
    BY <1>3, <2>1, PushKeepsOff DEF Kinds, Drag, PageFrame
  <2>2. CASE UNCHANGED <<queue, batch, at>>
    BY <1>3, <2>2 DEF Drag, PageFrame
  <2> QED
    BY <1>3, <2>1, <2>2 DEF Drag
<1>4. CASE LongPress
  <2>1. pageOn
    BY <1>4 DEF LongPress
  <2> QED
    BY <1>4, <2>1, PushKeepsOff DEF Kinds, LongPress, PageFrame
<1>5. CASE FingerUp
  <2>1. CASE Push("release")
    BY <1>5, <2>1, PushKeepsOff DEF Kinds, FingerUp, PageFrame
  <2>2. CASE Push("move")
    BY <1>5, <2>2, PushKeepsOff DEF Kinds, FingerUp, PageFrame
  <2>3. CASE UNCHANGED <<queue, batch, at>>
    BY <1>5, <2>3 DEF FingerUp, PageFrame
  <2> QED
    BY <1>5, <2>1, <2>2, <2>3 DEF FingerUp
<1>6. CASE Reload
  BY <1>6 DEF Reload, Fault
<1>7. CASE WaitEnds
  BY <1>7 DEF WaitEnds, PageFrame, Drain, Drained, Holds
<1>8. CASE Toggle
  BY <1>8 DEF Toggle
<1>9. CASE StorePush
  BY <1>9 DEF StorePush
<1>10. CASE ModalChanges
  BY <1>10 DEF ModalChanges
<1>11. CASE TakePush
  BY <1>11 DEF TakePush, Move
<1>12. CASE PushEnabled
  BY <1>12 DEF PushEnabled, Move, Ran, SetEnabled, Fault
<1>13. CASE StopScrub
  <2>1. video' # "held"
    BY <1>13, Zenon DEF StopScrub, Unscrub
  <2>2. /\ UNCHANGED <<queue, batch, pageOn, finger>> /\ at = "stop" /\ at' = "ask"
        /\ forgot' = "none"
    BY <1>13 DEF StopScrub, Move
  <2> QED
    BY <2>1, <2>2 DEF Holds
<1>14. CASE Ask
  BY <1>14 DEF Ask, Move, Drain, Drained, Fault, Holds
<1>15. CASE AskTimesOut
  BY <1>15 DEF AskTimesOut, Move, Fault
<1>16. CASE Configure
  BY <1>16 DEF Configure, Move, Ran
<1>17. CASE Disable
  <2>1. UNCHANGED <<batch, videoVars, enabled, push, storing>> /\ at = "disable" /\ at' = "configure"
    BY <1>17, Zenon DEF Disable, Move
  <2>2. \/ UNCHANGED <<pageOn, queue, finger>>
        \/ pageOn' = FALSE /\ queue' = <<>> /\ finger' = "none"
    BY <1>17 DEF Disable, Ran, SetEnabled
  <2>3. \/ forgot' = forgot /\ (forgot = "crossed" \/ (video # "held" /\ ~Holds(batch.q)))
        \/ forgot' = "crossed"
        \/ forgot' = "owed" /\ ~enabled /\ (video = "held" \/ Holds(batch.q)) /\ forgot # "crossed"
    BY <1>17, Zenon DEF Disable
  <2>4. CASE forgot' = "owed" /\ ~batch.on
    <3>1. ~Holds(batch.q)
      BY <2>1, <2>4 DEF Holds
    <3>2. batch.q = <<>> /\ (video = "held" => forgot # "none")
      BY <2>1, <2>4
    <3>3. forgot = "owed"
      BY <2>3, <2>4, <3>1, <3>2
    <3> QED
      BY <2>1, <2>2, <2>4, <3>1, <3>2, <3>3
  <2>5. CASE forgot' = "owed" /\ batch.on
    <3>1. ~enabled
      BY <2>1, <2>3, <2>5
    <3> QED
      BY <2>1, <2>2, <2>5, <3>1
  <2>6. CASE forgot' # "owed"
    BY <2>1, <2>2, <2>3, <2>6
  <2> QED
    BY <2>4, <2>5, <2>6
<1>18. CASE Judge
  BY <1>18 DEF Judge, Move, Agreed
<1>19. CASE Skip
  <2>1. /\ batch'.q = Tail(batch.q) /\ batch.q # <<>> /\ at = "act"
        /\ UNCHANGED <<pageOn, queue, finger, at, enabled, push, storing, videoVars, forgot>>
    BY <1>19 DEF Skip, Shaped
  <2>2. Holds(Tail(batch.q)) => Holds(batch.q)
    BY <2>1, TailOf DEF Holds
  <2> QED
    BY <2>1, <2>2
<1>20. CASE Act
  <2>1. /\ batch'.q = Tail(batch.q) /\ batch.q # <<>> /\ at = "act"
        /\ UNCHANGED <<pageOn, queue, finger, at, enabled, push, storing, forgot>>
    BY <1>20 DEF Act, Shaped
  <2>2. Holds(Tail(batch.q)) => Holds(batch.q)
    BY <2>1, TailOf DEF Holds
  <2>3. video' = "held" => video = "held" \/ Holds(batch.q)
    <3>1. video' = "held" => video = "held" \/ Head(batch.q).kind = "hold"
      BY <1>20, Zenon DEF Act, Unscrub
    <3>2. Head(batch.q) = batch.q[1] /\ 1 \in DOMAIN batch.q
      BY <2>1, TailOf
    <3> QED
      BY <3>1, <3>2 DEF Holds
  <2>4. video' = "held" => scrub'
    <3>1. UNCHANGED videoVars \/ Scrub \/ Unscrub
      BY <1>20, Zenon DEF Act
    <3>2. CASE UNCHANGED videoVars
      BY <3>2
    <3>3. CASE Scrub
      BY <3>3 DEF Scrub
    <3>4. CASE Unscrub
      <4>1. video' # "held"
        BY <3>4, Zenon DEF Unscrub
      <4> QED
        BY <4>1
    <3> QED
      BY <3>1, <3>2, <3>3, <3>4
  <2> QED
    BY <2>1, <2>2, <2>3, <2>4
<1>21. CASE ActDone
  BY <1>21 DEF ActDone, Move, NoBatch, Holds
<1>22. CASE UNCHANGED vars
  BY <1>22 DEF vars
<1>23. CASE VideoChanges
  BY <1>23 DEF VideoChanges
<1> QED
  BY <1>1, <1>2, <1>3, <1>4, <1>5, <1>6, <1>7, <1>8, <1>9, <1>10, <1>11, <1>12, <1>13,
     <1>14, <1>15, <1>16, <1>17, <1>18, <1>19, <1>20, <1>21, <1>22, <1>23 DEF Next, Router

LEMMA SafeStep == ASSUME DataInv, WaitInv, DropInv, OffInv, Safe, ~excuse', [Next]_vars PROVE Safe'
<1> USE EmptyQueue DEF DropInv, Safe, WaitInv, HeldDown, DataInv
<1>1. CASE FingerDown
  BY <1>1 DEF FingerDown, PageFrame, Ended, Releases
<1>2. CASE SecondFinger
  BY <1>2 DEF SecondFinger, PageFrame, Ended, Releases
<1>3. CASE Drag
  <2>1. UNCHANGED <<drop, videoVars, forgot>> /\ (HeldDown => HeldDown')
    BY <1>3 DEF Drag, PageFrame
  <2>2. CASE Push("move")
    BY <2>1, <2>2, PushKeepsSafe DEF Kinds
  <2>3. CASE ~HeldDown /\ UNCHANGED <<queue, batch, at>>
    BY <2>1, <2>3 DEF Ended, Releases
  <2> QED
    BY <1>3, <2>2, <2>3 DEF Drag
<1>4. CASE LongPress
  <2>1. UNCHANGED <<drop, videoVars, forgot>> /\ HeldDown' /\ Push("hold")
    BY <1>4 DEF LongPress, PageFrame
  <2> QED
    BY <2>1, PushKeepsSafe DEF Kinds
<1>5. CASE FingerUp
  <2>1. UNCHANGED <<drop, videoVars, forgot>> /\ ~HeldDown'
    BY <1>5 DEF FingerUp, PageFrame
  <2>2. CASE Push("release")
    BY <2>1, <2>2, PushKeepsSafe DEF Kinds
  <2>3. CASE ~HeldDown /\ Push("move")
    BY <2>1, <2>3, PushKeepsSafe DEF Kinds
  <2>4. CASE ~HeldDown /\ UNCHANGED <<queue, batch, at>>
    BY <2>1, <2>4 DEF Ended, Releases
  <2> QED
    BY <1>5, <2>2, <2>3, <2>4 DEF FingerUp
<1>6. CASE Reload
  <2>1. drop \/ ~Holds(batch.q)
    BY <1>6, Zenon DEF Reload
  <2>2. ~drop => Ended(batch.q, FALSE)
    BY <2>1 DEF Holds, Ended
  <2>3. queue' = <<>> /\ video' # "held" /\ UNCHANGED <<batch, drop, forgot>>
    BY <1>6 DEF Reload
  <2>4. at' = at \/ (at = "waiting" /\ at' = "top")
    BY <1>6 DEF Reload
  <2> QED
    BY <2>2, <2>3, <2>4 DEF Ended
<1>7. CASE WaitEnds
  BY <1>7 DEF WaitEnds, PageFrame, Drain, Drained, Ended, Releases
<1>8. CASE Toggle
  BY <1>8 DEF Toggle, Move, Ended, Releases
<1>9. CASE StorePush
  BY <1>9 DEF StorePush, Move, Ended, Releases
<1>10. CASE ModalChanges
  BY <1>10 DEF ModalChanges, Move, Ended, Releases
<1>11. CASE TakePush
  BY <1>11 DEF TakePush, Move, Ended, Releases
<1>12. CASE PushEnabled
  <2>1. at = "load" /\ at' \in {"ask", "stop"} /\ UNCHANGED <<batch, drop, videoVars, forgot>> /\ batch.q = <<>>
    BY <1>12 DEF PushEnabled, Move
  <2>2. CASE UNCHANGED <<queue, finger>>
    BY <2>1, <2>2 DEF Ended, Releases
  <2>3. CASE queue' = <<>> /\ at' = "stop"
    BY <2>1, <2>3 DEF Ended
  <2>4. (UNCHANGED <<queue, finger>>) \/ (queue' = <<>> /\ at' = "stop")
    BY <1>12 DEF PushEnabled, Move, Ran, SetEnabled
  <2> QED
    BY <2>2, <2>3, <2>4
<1>13. CASE StopScrub
  <2>1. video' # "held"
    BY <1>13, Zenon DEF StopScrub, Unscrub, OffInv
  <2>2. UNCHANGED <<queue, batch, drop, finger>> /\ at = "stop" /\ at' = "ask" /\ forgot' = "none"
    BY <1>13 DEF StopScrub, Move
  <2> QED
    BY <2>1, <2>2 DEF Ended
<1>14. CASE Ask
  <2>1. at = "ask" /\ ~drop /\ batch.q = <<>> /\ UNCHANGED <<finger, drop, videoVars, forgot>>
    BY <1>14 DEF Ask, Move
  <2>2. CASE at' = "judge" /\ queue' = <<>> /\ batch'.q = queue
    BY <2>1, <2>2 DEF Ended, Releases
  <2>3. CASE at' = "top" /\ queue' = <<>> /\ batch' = batch /\ ~Releases(queue)
    BY <2>1, <2>3 DEF Ended
  <2>4. CASE at' = "waiting" /\ UNCHANGED <<queue, batch>>
    BY <2>1, <2>4 DEF Ended, Releases
  <2>5. at' = "top" => ~Releases(queue)
    BY <1>14, Zenon DEF Ask, Move
  <2>6. \/ at' = "judge" /\ queue' = <<>> /\ batch'.q = queue
        \/ at' = "top" /\ queue' = <<>> /\ batch' = batch
        \/ at' = "waiting" /\ UNCHANGED <<queue, batch>>
    BY <1>14 DEF Ask, Move, Drain, Drained
  <2> QED
    BY <2>2, <2>3, <2>4, <2>5, <2>6
<1>15. CASE AskTimesOut
  BY <1>15 DEF AskTimesOut, Move, Fault, Ended, Releases
<1>16. CASE Configure
  BY <1>16 DEF Configure, Move, Ran, Ended, Releases
<1>17. CASE Disable
  <2>1. UNCHANGED <<batch, drop, videoVars>> /\ at = "disable" /\ at' = "configure"
    BY <1>17, Zenon DEF Disable, Move
  <2>2. (UNCHANGED <<queue, finger>>) \/ queue' = <<>>
    BY <1>17 DEF Disable, Ran, SetEnabled
  <2>3. forgot' \notin {"owed", "crossed"} => video # "held" /\ ~Holds(batch.q)
    BY <1>17, Zenon DEF Disable
  <2>4. ~Holds(batch.q) => Ended(batch.q, FALSE)
    BY DEF Ended, Holds
  <2> QED
    BY <2>1, <2>2, <2>3, <2>4 DEF Ended
<1>18. CASE Judge
  <2>1. ~drop /\ at' = "act" /\ at # "stop" /\ UNCHANGED <<queue, batch, finger, videoVars, forgot>>
    BY <1>18 DEF Judge, Move
  <2>2. ~drop' => enabled
    BY <1>18, Zenon DEF Judge, Dropping
  <2>3. ~drop' => forgot # "owed"
    BY <2>1, <2>2 DEF OffInv, StopIsOwed
  <2> QED
    BY <2>1, <2>3 DEF Ended, Releases
<1>19. CASE Skip
  <2>1. /\ batch'.q = Tail(batch.q) /\ drop /\ ~Release(Head(batch.q)) /\ batch.q # <<>>
        /\ UNCHANGED <<queue, finger, at, drop, videoVars, forgot>>
    BY <1>19 DEF Skip, Shaped
  <2>2. Releases(batch.q) => Releases(Tail(batch.q))
    BY <2>1, TailReleases
  <2> QED
    BY <2>1, <2>2 DEF Ended, Releases
<1>20. CASE Act
  <2>0. batch.q # <<>> /\ at = "act"
    BY <1>20 DEF Act
  <2>1. batch'.q = Tail(batch.q) /\ UNCHANGED <<queue, finger, at, drop, forgot>>
    BY <1>20 DEF Act, Shaped
  <2> DEFINE kind == Head(batch.q).kind
             later == HeldDown \/ Releases(queue)
  <2>2. Releases(batch.q) => kind = "release" \/ Releases(Tail(batch.q))
    BY <2>0, TailReleases DEF Release
  <2>3. ~drop /\ forgot # "crossed" =>
          Ended(Tail(batch.q), later) /\ (kind = "hold" => later \/ Releases(Tail(batch.q)))
    BY <2>0, TailEnded
  <2>4. video' = "held" => video = "held" \/ kind = "hold"
    BY <1>20, Zenon DEF Act, Unscrub
  <2>5. kind = "release" => video' # "held"
    <3>1. SUFFICES ASSUME kind = "release" PROVE video' # "held"
      OBVIOUS
    <3>2. kind # "move" /\ kind # "hold"
      BY <3>1
    <3>3. Unscrub
      BY <1>20, <3>1, <3>2, Zenon DEF Act
    <3> QED
      BY <3>3, Zenon DEF Unscrub, OffInv
  <2>6. kind = "hold" => ~drop
    BY <1>20 DEF Act, Release
  <2> HIDE DEF kind, later
  <2>7. later <=> (HeldDown \/ Releases(queue))
    BY DEF later
  <2>8. ~drop' /\ forgot' # "crossed" => Ended(batch'.q, HeldDown' \/ Releases(queue'))
    BY <2>1, <2>3, <2>7 DEF Ended, Releases
  <2>9. video' = "held" /\ forgot' # "crossed" =>
          HeldDown' \/ Releases(queue') \/ Releases(batch'.q) \/ at' = "stop" \/ forgot' = "owed"
    <3>1. (at = "stop") = (at' = "stop") /\ at # "stop"
      BY <2>0, <2>1
    <3>2. video' = "held" /\ forgot # "crossed" => later \/ Releases(Tail(batch.q)) \/ forgot = "owed"
      BY <2>2, <2>3, <2>4, <2>5, <2>6, <2>7, <3>1, Zenon DEF Safe
    <3> QED
      BY <2>1, <2>7, <3>2
  <2>10. Ended(queue', HeldDown')
    BY <2>1 DEF Ended
  <2> QED
    BY <2>0, <2>1, <2>8, <2>9, <2>10
<1>21. CASE ActDone
  BY <1>21 DEF ActDone, Move, NoBatch, Ended, Releases
<1>22. CASE UNCHANGED vars
  BY <1>22 DEF vars
<1>23. CASE VideoChanges
  BY <1>23 DEF VideoChanges, Ended, Releases
<1> QED
  BY <1>1, <1>2, <1>3, <1>4, <1>5, <1>6, <1>7, <1>8, <1>9, <1>10, <1>11, <1>12, <1>13,
     <1>14, <1>15, <1>16, <1>17, <1>18, <1>19, <1>20, <1>21, <1>22, <1>23 DEF Next, Router


LEMMA ExcuseStays == ASSUME [Next]_vars, excuse PROVE excuse'
<1>1. ASSUME NEW kind, Push(kind) PROVE excuse'
  BY <1>1, Zenon DEF Push
<1> QED
  BY <1>1, Zenon DEF Next, Router, vars, PageFrame, FingerDown, Drag, SecondFinger, LongPress, FingerUp, VideoChanges, Reload,
      WaitEnds, Toggle, StorePush, ModalChanges, TakePush, PushEnabled, StopScrub, Ask, AskTimesOut,
      Configure, Disable, Judge, Skip, Act, ActDone

LEMMA DropStep == ASSUME WaitInv, DropInv, [Next]_vars PROVE DropInv'
<1> USE DEF DropInv
<1>1. CASE FingerDown
  BY <1>1 DEF FingerDown, PageFrame
<1>2. CASE SecondFinger
  BY <1>2 DEF SecondFinger, PageFrame
<1>3. CASE Drag
  <2>1. UNCHANGED drop /\ (at' = at \/ waiter = "router")
    BY <1>3, Zenon DEF Drag, Push, PageFrame
  <2> QED
    BY <2>1 DEF WaitInv
<1>4. CASE LongPress
  <2>1. UNCHANGED drop /\ (at' = at \/ waiter = "router")
    BY <1>4, Zenon DEF LongPress, Push, PageFrame
  <2> QED
    BY <2>1 DEF WaitInv
<1>5. CASE FingerUp
  <2>1. UNCHANGED drop /\ (at' = at \/ waiter = "router")
    BY <1>5, Zenon DEF FingerUp, Push, PageFrame
  <2> QED
    BY <2>1 DEF WaitInv
<1>6. CASE Reload
  BY <1>6 DEF Reload, Move
<1>7. CASE WaitEnds
  <2>1. UNCHANGED drop /\ (at' = at \/ waiter = "router")
    BY <1>7, Zenon DEF WaitEnds, Push, PageFrame
  <2> QED
    BY <2>1 DEF WaitInv
<1>8. CASE Toggle
  BY <1>8 DEF Toggle, Move
<1>9. CASE StorePush
  BY <1>9 DEF StorePush, Move
<1>10. CASE ModalChanges
  BY <1>10 DEF ModalChanges, Move
<1>11. CASE TakePush
  BY <1>11 DEF TakePush, Move
<1>12. CASE PushEnabled
  BY <1>12 DEF PushEnabled, Move
<1>13. CASE StopScrub
  BY <1>13 DEF StopScrub, Move
<1>14. CASE Ask
  BY <1>14 DEF Ask, Move
<1>15. CASE AskTimesOut
  BY <1>15 DEF AskTimesOut, Move
<1>16. CASE Configure
  BY <1>16 DEF Configure, Move
<1>17. CASE Disable
  BY <1>17 DEF Disable, Move
<1>18. CASE Judge
  BY <1>18 DEF Judge, Move
<1>19. CASE Skip
  BY <1>19 DEF Skip, Move
<1>20. CASE Act
  BY <1>20 DEF Act, Move
<1>21. CASE ActDone
  BY <1>21 DEF ActDone, Move
<1>22. CASE UNCHANGED vars
  BY <1>22 DEF vars
<1>23. CASE VideoChanges
  BY <1>23 DEF VideoChanges
<1> QED
  BY <1>1, <1>2, <1>3, <1>4, <1>5, <1>6, <1>7, <1>8, <1>9, <1>10, <1>11, <1>12, <1>13,
     <1>14, <1>15, <1>16, <1>17, <1>18, <1>19, <1>20, <1>21, <1>22, <1>23 DEF Next, Router

\* A video at the rate of a hold has an end of that ahead, however the router is toggled
\* and whatever surface is modal, but for a release that was lost and for an "on" between
\* the "off" of a configuration and its push. (With the latter it need not have one:
\* ScrubAlwaysEnds, which TLC refutes.)
THEOREM ScrubEnds == Spec => []ScrubHasEnd
<1>1. Init => DropInv /\ (excuse \/ (OffInv /\ Safe))
  BY EmptyQueue DEF Init, DropInv, OffInv, Safe, NoBatch, Ended
<1>2. /\ DataInv /\ WaitInv /\ DropInv /\ (excuse \/ (OffInv /\ Safe)) /\ [Next]_vars
      => DropInv' /\ (excuse' \/ (OffInv' /\ Safe'))
  BY ExcuseStays, OffStep, SafeStep, DropStep, Zenon
<1>3. excuse \/ (OffInv /\ Safe) => ScrubHasEnd
  BY Zenon DEF ScrubHasEnd, Ending, OffInv, Safe, HeldDown
<1> QED
  BY <1>1, <1>2, <1>3, KeepHolds, PTL DEF Spec
=============================================================================
