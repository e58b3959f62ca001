---------------------------- MODULE FrameTiming ----------------------------
(***************************************************************************)
(* How an upload is shown to have a constant frame rate:                   *)
(* validate_streamed_frame_timing (modules/review_media/service.py:383)    *)
(* reads the packets of the video stream in decode order, one line each,   *)
(* and keeps in a heap those that are presented later than the next frame  *)
(* it expects.  It must not hold the file's timing in memory, so the heap  *)
(* is bounded by the reorder depth the stream declares.                    *)
(*                                                                         *)
(* Time is counted in ticks of MEDIA_PROBE_TIMESTAMP_TOLERANCE from the    *)
(* stream's start, so the tolerance is 1 and frame i is due at             *)
(* i * Interval.  The stream is the environment: any packet may be next.   *)
(***************************************************************************)
EXTENDS Integers, Sequences, FiniteSets, SequencesExt, FiniteSetsExt

CONSTANTS
    Interval,      \* ticks between two frames at the declared rate
    MinInterval,   \* ticks between two frames at the highest allowed rate
    Durations,     \* video_duration_seconds, in ticks
    Depths,        \* video_reorder_depth (has_b_frames)
    Counts,        \* video_packet_count and video_frame_count
    Offsets,       \* where between two grid points a pts may be
    Drifts,        \* how much longer than Interval a dts step or a duration may be
    Leads          \* how long before the start the first dts may be

IntervalAssumption ==
    /\ MinInterval \in Nat \ {0}
    /\ Interval \in Nat
    /\ Interval >= MinInterval
    /\ Interval > 2

Tolerance == 1
MinPacketEvidence == 3
FrameCountTolerance == 2
NoFrameCount == 0

VARIABLES
    meta,      \* the declared metadata
    packets,   \* the pts taken into the heap so far, in decode order
    dts,       \* previous_dts, once a packet is taken
    heap,      \* presentation_heap, in ascending order
    expected,  \* expected_presentation_index
    verdict,   \* "reading", "accepted", "unknown" or "variable"
    at         \* which test decided: "line", "window", "end" or none of them

vars == <<meta, packets, dts, heap, expected, verdict, at>>

Abs(x) == IF x < 0 THEN -x ELSE x
Near(pts, i) == Abs(pts - i * Interval) <= Tolerance
Timestamps == {i * Interval + e : i \in 0 .. Max(Counts), e \in Offsets}
MaximumFrameCount(m) ==
    (m.duration + MinInterval - 1) \div MinInterval + FrameCountTolerance

Init ==
    /\ meta \in [duration : Durations, depth : Depths, count : Counts,
               frames : Counts \union {NoFrameCount}]
    /\ packets = <<>>
    /\ dts = 0
    /\ heap = <<>>
    /\ expected = 0
    /\ verdict = IF meta.count > MaximumFrameCount(meta) THEN "unknown" ELSE "reading"
    /\ at = "none"

(* heapq.heappush, on the sorted view of the heap.                         *)
Push(h, pts) ==
    LET i == Cardinality({j \in DOMAIN h : h[j] <= pts})
    IN  SubSeq(h, 1, i) \o <<pts>> \o SubSeq(h, i + 1, Len(h))

(* How many of the heap's first entries are the frames due next: the loop  *)
(* that accepts until the head is not the expected frame.                  *)
DueCount(h, e) ==
    Max({n \in 0 .. Len(h) : \A j \in 1 .. n : Near(h[j], e + j - 1)})

(* The tests the heap must pass after each packet.                         *)
Capacity == meta.depth + 1
Lookahead == 2 * meta.depth

BufferVerdict_full(h, e) ==
    IF Len(h) >= Capacity THEN "unknown"
    ELSE IF h = <<>> THEN "reading"
    ELSE IF h[1] < e * Interval - Tolerance THEN "variable"
    ELSE IF h[Len(h)] > (e + Lookahead) * Interval + Tolerance THEN "unknown"
    ELSE "reading"

BufferVerdict(h, e) ==
    IF Len(h) > Capacity THEN "unknown"
    ELSE IF h = <<>> THEN "reading"
    ELSE IF h[1] < e * Interval - Tolerance THEN "variable"
    ELSE IF h[Len(h)] > (e + Lookahead) * Interval + Tolerance THEN "unknown"
    ELSE "reading"

(* The tests of one line, in the code's order; a line that cannot be       *)
(* parsed is refused like one with times outside the stream.               *)
LineVerdict(pts, d, duration) ==
    IF pts > meta.duration + Tolerance \/ d > pts + Tolerance THEN "unknown"
    ELSE IF packets # <<>> /\ Abs(d - dts - Interval) > Tolerance THEN "variable"
    ELSE IF Abs(duration - Interval) > Tolerance THEN "variable"
    ELSE IF Len(packets) + 1 > MaximumFrameCount(meta) THEN "unknown"
    ELSE "reading"

line_refused(pts, d, duration) ==
    /\ LineVerdict(pts, d, duration) # "reading"
    /\ verdict' = LineVerdict(pts, d, duration)
    /\ at' = "line"
    /\ UNCHANGED <<packets, dts, heap, expected>>

line_taken(pts, d, duration) ==
    /\ LineVerdict(pts, d, duration) = "reading"
    /\ packets' = Append(packets, pts)
    /\ dts' = d
    /\ LET pushed == Push(heap, pts)
           due == DueCount(pushed, expected)
       IN  /\ heap' = SubSeq(pushed, due + 1, Len(pushed))
           /\ expected' = expected + due
    /\ verdict' = BufferVerdict(heap', expected')
    /\ at' = IF verdict' = "reading" THEN "none" ELSE "window"

read_packet(pts) ==
    /\ verdict = "reading"
    /\ Len(packets) < Max(Counts)
    /\ \E drift \in Drifts, late \in Drifts, lead \in Leads :
         LET d == IF packets = <<>> THEN -lead ELSE dts + Interval + late
         IN  \/ line_refused(pts, d, Interval + drift)
             \/ line_taken(pts, d, Interval + drift)
    /\ UNCHANGED meta

(* accept_next_presentation_timestamp on what is left when the lines end:  *)
(* the first entry that is not the expected frame decides the refusal.     *)
DrainVerdict(h, e) ==
    LET due == DueCount(h, e)
        pts == h[due + 1]
        onGrid == \E i \in 0 .. (pts \div Interval + 1) : Near(pts, i)
    IN  IF due = Len(h) THEN "accepted"
        ELSE IF pts > (e + due) * Interval + Tolerance /\ onGrid THEN "unknown"
        ELSE "variable"

CountsAgree ==
    /\ Len(packets) >= MinPacketEvidence
    /\ Len(packets) = meta.count
    /\ meta.frames \in {NoFrameCount, Len(packets)}

(* The frame count the duration asks for, within the tolerance.            *)
DurationAgrees ==
    Abs(Len(packets) * Interval - meta.duration) <= FrameCountTolerance * Interval

end_of_stream ==
    /\ verdict = "reading"
    /\ verdict' = IF ~CountsAgree THEN "unknown"
                  ELSE IF DrainVerdict(heap, expected) # "accepted"
                       THEN DrainVerdict(heap, expected)
                  ELSE IF ~DurationAgrees THEN "unknown"
                  ELSE "accepted"
    /\ at' = "end"
    /\ UNCHANGED <<meta, packets, dts, heap, expected>>

Next ==
    \/ \E pts \in Timestamps : read_packet(pts)
    \/ end_of_stream

Spec == Init /\ [][Next]_vars

-----------------------------------------------------------------------------
(* The heap is sorted and holds only packets that were read; the frames    *)
(* accepted and the frames held are together the packets taken.            *)
TypeOK ==
    /\ verdict \in {"reading", "accepted", "unknown", "variable"}
    /\ at \in {"none", "line", "window", "end"}
    /\ \A i \in 1 .. Len(heap) - 1 : heap[i] <= heap[i + 1]
    /\ ToSet(heap) \subseteq ToSet(packets)
    /\ expected + Len(heap) = Len(packets)

(* A definition of the same streams without a heap: the frames a stream    *)
(* has shown after k packets, and the first one it has not.                *)
OnGrid ==
    \A k \in DOMAIN packets :
        \E i \in 0 .. (packets[k] \div Interval + 1) : Near(packets[k], i)
FrameOf(pts) == CHOOSE i \in 0 .. (pts \div Interval + 1) : Near(pts, i)
FramesAfter(k) == {FrameOf(packets[j]) : j \in 1 .. k}
FirstMissing(k) == Min((0 .. k) \ FramesAfter(k))
Distinct == Cardinality(FramesAfter(Len(packets))) = Len(packets)

(* At most depth + 1 frames are ever ahead of the first missing one, and   *)
(* none of them by more than twice the depth.                              *)
WithinReorderWindow ==
    \A k \in DOMAIN packets :
        LET ahead == {i \in FramesAfter(k) : i > FirstMissing(k)}
        IN  /\ Cardinality(ahead) <= meta.depth + 1
            /\ \A i \in ahead : i <= FirstMissing(k) + 2 * meta.depth

(* An accepted stream has a constant frame rate: put in presentation       *)
(* order, its packets are frames 0, 1, 2, ... of the declared rate, none   *)
(* missing and none twice, whatever the order they were decoded in and     *)
(* although the heap never held more than a few of them.                   *)
AcceptedIsConstantRate ==
    verdict = "accepted" =>
        LET order == SortSeq(packets, LAMBDA x, y : x < y)
        IN  /\ Len(packets) = meta.count
            /\ \A i \in DOMAIN order : Near(order[i], i - 1)

(* The heap decides exactly what the definition without a heap says: of    *)
(* the streams of distinct frames on the grid of their rate, those that    *)
(* keep their reorder window are read to the end and no others are, and    *)
(* those of them that have every frame and the counts they declared are    *)
(* accepted.  The heap's size is bounded by the window, not by the length  *)
(* of the stream.                                                          *)
WindowIsDecided ==
    OnGrid /\ Distinct =>
        /\ at # "window" <=> WithinReorderWindow
        /\ at = "end" =>
             (verdict = "accepted" <=>
                 /\ CountsAgree
                 /\ DurationAgrees
                 /\ FirstMissing(Len(packets)) = Len(packets))

(* MEDIA_VARIABLE_FRAME_RATE is said of the presentation times only when   *)
(* one of them is off the grid or a frame is there twice.  A frame that is *)
(* missing or too far ahead is MEDIA_FRAME_RATE_UNKNOWN.                   *)
VariableIsDeserved ==
    verdict = "variable" => at = "line" \/ ~OnGrid \/ ~Distinct
=============================================================================
