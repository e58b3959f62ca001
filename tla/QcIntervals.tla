---------------------------- MODULE QcIntervals ----------------------------
(***************************************************************************)
(* What a technical QC scan reports: parse_technical_qc_ffmpeg_log         *)
(* (technical_qc.py:1166) turns the frames, cuts and silences ffmpeg found *)
(* into intervals, each with frame numbers and with milliseconds, and      *)
(* merge_overlapping_intervals (219) joins those that overlap in either.   *)
(*                                                                         *)
(* Time is counted in ticks of half a frame, so frame f starts at 2 * f    *)
(* and _frame_time_ms is exact, while a silence may start or end in the    *)
(* middle of a frame and is rounded as Python's round does.  What the log  *)
(* says is the environment: Init takes every combination of frames, cuts   *)
(* and silences.                                                           *)
(***************************************************************************)
EXTENDS Integers, Sequences, FiniteSets, SequencesExt, FiniteSetsExt

CONSTANTS
    TotalFrames,   \* total_frames
    TotalTicks,    \* total_ms, which need not be the last frame's end
    LastTick,      \* the audio may be longer than the video
    LumaMin,       \* CONTINUOUS_LUMA_MIN_MS, in ticks
    SilenceMin     \* SILENCE_MIN_MS, in ticks

LengthAssumption ==
    /\ TotalFrames \in Nat \ {0}
    /\ TotalTicks \in Nat \ {0}
    /\ LastTick \in Nat

VARIABLES
    hits,      \* what ffmpeg reported: black and white frames, cuts, silences
    found,     \* every interval before merging
    todo,      \* those the merge loop has not reached
    merged     \* the merge loop's list

vars == <<hits, found, todo, merged>>

Frames == 0 .. TotalFrames - 1
ShortShotFrameCounts == {1, 2, 3}

Interval(first, last, from, to, reason) ==
    [start_frame |-> first, end_frame |-> last,
     start_ms |-> from, end_ms |-> to, reasons |-> {reason}]

_frame_time_ms(frame) == 2 * frame

(* Python's round of ticks / 2: half a frame goes to the even frame.       *)
_seconds_to_frame(ticks) ==
    IF ticks % 4 = 3 THEN (ticks + 1) \div 2 ELSE ticks \div 2

(* The runs of consecutive frames, by one pass over the sorted frames.     *)
Runs(frames) ==
    LET ordered == SetToSortSeq(frames, <)
        Step(acc, frame) ==
            IF frame = acc.previous + 1
            THEN [acc EXCEPT !.previous = frame]
            ELSE [start |-> frame, previous |-> frame,
                  runs |-> acc.runs \union {<<acc.start, acc.previous>>}]
        first == Head(ordered)
        final == FoldLeft(Step, [start |-> first, previous |-> first, runs |-> {}],
                          Tail(ordered))
    IN  final.runs \union {<<final.start, final.previous>>}

_frame_interval(frame, reason) ==
    Interval(frame, frame, _frame_time_ms(frame), _frame_time_ms(frame + 1), reason)

_continuous_luma_intervals(frames, single, continuous) ==
    IF frames = {} THEN {}
    ELSE {_frame_interval(frame, single) : frame \in frames} \union
         {Interval(run[1], run[2], _frame_time_ms(run[1]),
                   _frame_time_ms(run[2] + 1), continuous) :
            run \in {r \in Runs(frames) :
                       _frame_time_ms(r[2] + 1) - _frame_time_ms(r[1]) > LumaMin}}

(* A shot lies between two neighbouring boundaries.                        *)
short_shot_intervals(cuts) ==
    LET boundaries == {0, TotalFrames} \union cuts
        shots == {<<a, b>> \in boundaries \X boundaries :
                    a < b /\ \A c \in boundaries : ~(a < c /\ c < b)}
    IN  {Interval(shot[1], shot[2] - 1, _frame_time_ms(shot[1]),
                  _frame_time_ms(shot[2]), "short_shot") :
           shot \in {s \in shots : s[2] - s[1] \in ShortShotFrameCounts}}

(* A silence from tick s to tick e, clamped to the media.                  *)
SilenceInterval(s, e) ==
    LET first == Min({TotalFrames - 1, _seconds_to_frame(s)})
        last == Min({TotalFrames - 1, Max({first, _seconds_to_frame(e) - 1})})
    IN  Interval(first, last, s, Max({s, Min({TotalTicks, e})}), "silence")

silence_intervals(silences) ==
    {SilenceInterval(x[1], x[2]) : x \in {y \in silences : y[2] - y[1] > SilenceMin}}

Found(h) ==
    UNION {silence_intervals(h.silences),
           _continuous_luma_intervals(h.black, "black_frame", "continuous_black"),
           _continuous_luma_intervals(h.white, "white_frame", "continuous_white"),
           short_shot_intervals(h.cuts)}

(* ffmpeg's silencedetect reports silences one after the other.            *)
Silences ==
    LET one == {<<s, e>> \in (0 .. LastTick) \X (0 .. LastTick) : s < e}
    IN  {{}} \union {{x} : x \in one} \union
        {{x[1], x[2]} : x \in {y \in one \X one :
            /\ y[1][2] < y[2][1]
            /\ y[1][2] - y[1][1] > SilenceMin
            /\ y[2][2] - y[2][1] > SilenceMin}}

Init ==
    /\ \E black \in SUBSET Frames, cuts \in SUBSET (1 .. TotalFrames), silences \in Silences :
       \E white \in SUBSET (Frames \ black) :
          hits = [black |-> black, white |-> white, cuts |-> cuts, silences |-> silences]
    /\ found = Found(hits)
    /\ todo = found
    /\ merged = <<>>

(* The sort key, without the reasons: how ties are broken does not matter. *)
Key(x) == <<x.start_frame, x.start_ms, x.end_frame, x.end_ms>>
Before(x, y) ==
    \E i \in 1 .. 4 :
        /\ Key(x)[i] < Key(y)[i]
        /\ \A j \in 1 .. i - 1 : Key(x)[j] = Key(y)[j]

Overlaps(x, previous) ==
    \/ x.start_frame <= previous.end_frame
    \/ x.start_ms < previous.end_ms

Joined_last(previous, x) ==
    [start_frame |-> previous.start_frame,
     end_frame |-> x.end_frame,
     start_ms |-> Min({previous.start_ms, x.start_ms}),
     end_ms |-> Max({previous.end_ms, x.end_ms}),
     reasons |-> previous.reasons \union x.reasons]

Joined(previous, x) ==
    [start_frame |-> Min({previous.start_frame, x.start_frame}),
     end_frame |-> Max({previous.end_frame, x.end_frame}),
     start_ms |-> Min({previous.start_ms, x.start_ms}),
     end_ms |-> Max({previous.end_ms, x.end_ms}),
     reasons |-> previous.reasons \union x.reasons]

(* One turn of the merge loop.                                             *)
merge_overlapping_intervals ==
    \E x \in todo :
        /\ \A y \in todo : ~Before(y, x)
        /\ todo' = todo \ {x}
        /\ merged' = IF merged # <<>> /\ Overlaps(x, Last(merged))
                     THEN Append(Front(merged), Joined(Last(merged), x))
                     ELSE Append(merged, x)
        /\ UNCHANGED <<hits, found>>

Next == merge_overlapping_intervals

Spec == Init /\ [][Next]_vars

-----------------------------------------------------------------------------
(* Every interval, merged or not, has its ends in order and its frames in  *)
(* the video.                                                              *)
TypeOK ==
    \A x \in found \union ToSet(merged) :
        /\ x.start_frame \in Frames
        /\ x.end_frame \in x.start_frame .. TotalFrames - 1
        /\ x.start_ms <= x.end_ms

(* A reference definition of overlap, in frames or in time, that does not  *)
(* depend on an order.                                                     *)
Touch(x, y) ==
    \/ x.start_frame <= y.end_frame /\ y.start_frame <= x.end_frame
    \/ x.start_ms < y.end_ms /\ y.start_ms < x.end_ms
Within(x, m) ==
    /\ m.start_frame <= x.start_frame /\ x.end_frame <= m.end_frame
    /\ m.start_ms <= x.start_ms /\ x.end_ms <= m.end_ms
Hull(S) ==
    [start_frame |-> Min({x.start_frame : x \in S}),
     end_frame |-> Max({x.end_frame : x \in S}),
     start_ms |-> Min({x.start_ms : x \in S}),
     end_ms |-> Max({x.end_ms : x \in S}),
     reasons |-> UNION {x.reasons : x \in S}]
Connected(S) ==
    \A P \in SUBSET S \ {{}, S} : \E x \in P, y \in S \ P : Touch(x, y)

(* The one pass that compares an interval with the last merged one only    *)
(* finds the connected groups of overlapping intervals: the intervals      *)
(* reported do not overlap one another, each is exactly the hull of a      *)
(* connected group with that group's reasons, and no interval is lost.     *)
MergedAreComponents ==
    LET done == found \ todo
        Members(m) == {x \in done : Within(x, m)}
    IN  /\ \A i, j \in DOMAIN merged : i # j => ~Touch(merged[i], merged[j])
        /\ \A x \in done : \E i \in DOMAIN merged : Within(x, merged[i])
        /\ \A i \in DOMAIN merged :
              /\ merged[i] = Hull(Members(merged[i]))
              /\ Connected(Members(merged[i]))

(* A continuous black or white picture is reported for exactly the longest *)
(* runs of such frames that exceed the minimum, and a short shot for       *)
(* exactly the stretches of one to three frames between neighbouring cuts. *)
DetectionsAreExact ==
    LET Found_(reason) == {<<x.start_frame, x.end_frame>> :
                              x \in {y \in found : reason \in y.reasons}}
        Longest(S) == {<<a, b>> \in Frames \X Frames :
                          /\ a .. b \subseteq S /\ a <= b
                          /\ a - 1 \notin S /\ b + 1 \notin S
                          /\ 2 * (b + 1 - a) > LumaMin}
        edges == {0, TotalFrames} \union hits.cuts
    IN  /\ Found_("continuous_black") = Longest(hits.black)
        /\ Found_("continuous_white") = Longest(hits.white)
        /\ Found_("short_shot") =
             {<<a, b>> \in Frames \X Frames :
                 /\ {a, b + 1} \subseteq edges /\ a <= b /\ b - a < 3
                 /\ edges \intersect (a + 1 .. b) = {}}

(* The frames and the times of a reported interval name the same stretch:  *)
(* they differ by at most half a frame at either end, as long as no        *)
(* silence runs past the end of the video.                                 *)
TimesMatchFrames ==
    (\A x \in hits.silences : x[2] <= Min({TotalTicks, 2 * TotalFrames})) =>
        \A i \in DOMAIN merged :
            /\ merged[i].start_ms - 2 * merged[i].start_frame \in -1 .. 1
            /\ merged[i].end_ms - 2 * (merged[i].end_frame + 1) \in -1 .. 1
=============================================================================
