----------------------------- MODULE StormTracks -----------------------------
(***************************************************************************)
(* The storm engine (engine/detection, tracking, trajectory, pipeline):    *)
(* the cells of successive radar frames are detected, associated into      *)
(* tracks, and a track's motion gives an arrival time.  Places are         *)
(* kilometres along a meridian, so a heading is north (ahead) or south and *)
(* the closing speed is the speed; times are minutes.                      *)
(***************************************************************************)
EXTENDS Integers, FiniteSets, Sequences, SequencesExt, FiniteSetsExt

CONSTANTS
    Scans,         \* what the radar may show: sequences of cells [km, dbz]
    Intervals,     \* minutes between two frames, 0 for two of the same time
    Destinations,       \* places whose arrival times are asked for
    MaxScans,      \* bound: frames
    NoAnswer       \* Python's None

ASSUME TracksAssumption ==
    /\ \A s \in Scans : s \in Seq([km : Int, dbz : Nat])
    /\ Intervals \subseteq Nat /\ Destinations \subseteq Int /\ MaxScans \in Nat

VARIABLES scans, tracks
trackVars == <<scans, tracks>>

MinDbz == 35
MaxAssociation == 40   \* km
TrendDelta == 3
MinSpeed == 1          \* km/h

-----------------------------------------------------------------------------
\* CellDetector.detect: the cells above the threshold, under their place in the frame.
Strong(cells) == {i \in DOMAIN cells : cells[i].dbz >= MinDbz}
Detected(cells, minute, scan) ==
    [i \in Strong(cells) |-> [minute |-> minute, scan |-> scan, cell |-> i,
                              km |-> cells[i].km, dbz |-> cells[i].dbz]]

Length(km) == IF km < 0 THEN -km ELSE km
Apart(a, b) == Length(a.km - b.km)

\* TrackBuilder._nearest: the last of the nearest, when it is near enough; 0 for none.
NearestOf(ref, frame, left) ==
    LET near == {i \in left : Apart(ref, frame[i]) <= MaxAssociation}
        best == {i \in near : \A j \in near : Apart(ref, frame[i]) <= Apart(ref, frame[j])} IN
    IF near = {} THEN 0 ELSE Max(best)

\* Mutant: a cell that was taken stays for the tracks that follow.
LeftBy_Shared(old, frame) == [t \in 0 .. Len(old) |-> DOMAIN frame]

\* The tracks choose in the order they began: what each leaves.
LeftBy(old, frame) ==
    LET left[t \in 0 .. Len(old)] ==
          IF t = 0 THEN DOMAIN frame
          ELSE LET before == left[t - 1] IN before \ {NearestOf(Last(old[t]), frame, before)}
    IN left

Taken(old, frame, t) == NearestOf(Last(old[t]), frame, LeftBy(old, frame)[t - 1])

Ascending(S) ==
    CHOOSE s \in [1 .. Cardinality(S) -> S] : \A i, j \in DOMAIN s : i < j => s[i] < s[j]

\* TrackBuilder._consume_frame: each track with what it takes, then what is left, in
\* its order, as new ones.
Consume(old, frame) ==
    LET left == LeftBy(old, frame)[Len(old)]
        born == Ascending(left) IN
    [t \in 1 .. Len(old) + Cardinality(left) |->
        IF t > Len(old) THEN <<frame[born[t - Len(old)]]>>
        ELSE IF Taken(old, frame, t) = 0 THEN old[t]
        ELSE Append(old[t], frame[Taken(old, frame, t)])]

Trend(track) ==
    LET delta == Last(track).dbz - Head(track).dbz IN
    IF delta >= TrendDelta THEN "intensifying"
    ELSE IF delta <= -TrendDelta THEN "weakening" ELSE "steady"

\* estimate_trajectory, from the last two observations.
Trajectory(track) ==
    LET n == Len(track)
        minutes == track[n].minute - track[n - 1].minute
        km == track[n].km - track[n - 1].km IN
    IF n < 2 THEN NoAnswer
    ELSE IF minutes <= 0 THEN NoAnswer
    ELSE [speed |-> (Length(km) * 60) \div minutes, ahead |-> km > 0, trend |-> Trend(track)]

\* eta_minutes_to
Eta(track, target) ==
    LET t == Trajectory(track)
        km == target - Last(track).km IN
    IF t = NoAnswer THEN NoAnswer
    ELSE IF t.speed < MinSpeed THEN NoAnswer
    ELSE IF (km >= 0) # t.ahead THEN NoAnswer
    ELSE (Length(km) * 60 + t.speed \div 2) \div t.speed

-----------------------------------------------------------------------------
Minute == IF scans = <<>> THEN 0 ELSE Last(scans).minute

\* StormEngine.process, frame by frame in the order of their times.
Scan(cells, after) ==
    /\ Len(scans) < MaxScans
    /\ LET minute == Minute + after IN
       /\ scans' = Append(scans, [minute |-> minute, cells |-> cells])
       /\ tracks' = Consume(tracks, Detected(cells, minute, Len(scans) + 1))

TracksInit == scans = <<>> /\ tracks = <<>>
TracksNext == \E cells \in Scans, after \in Intervals : Scan(cells, after)
TracksSpec == TracksInit /\ [][TracksNext]_trackVars

-----------------------------------------------------------------------------
TracksTypeOK ==
    /\ Len(scans) <= MaxScans
    /\ \A t \in Range(tracks) : t # <<>> /\ \A o \in Range(t) : o.dbz >= MinDbz

Observations == UNION {Range(t) : t \in Range(tracks)}

\* Every cell above the threshold is in one track, once; a track has a cell of a
\* frame at most, in their order, none farther than the association from the one
\* before.
CellsArePartitioned ==
    /\ \A o \in Observations : o.scan \in DOMAIN scans
    /\ \A n \in DOMAIN scans :
         {o.cell : o \in {x \in Observations : x.scan = n}} = Strong(scans[n].cells)
    /\ \A t, u \in DOMAIN tracks : \A i \in DOMAIN tracks[t], j \in DOMAIN tracks[u] :
         /\ <<tracks[t][i].scan, tracks[t][i].cell>> = <<tracks[u][j].scan, tracks[u][j].cell>>
              => t = u /\ i = j
         /\ t = u /\ i < j => tracks[t][i].scan < tracks[u][j].scan
         /\ t = u /\ j = i + 1 => Apart(tracks[t][i], tracks[t][j]) <= MaxAssociation

\* A cell begins a track only if no older track that the frame left alone could have
\* taken it: one whose observations before and after the frame are next to each other.
NewTracksAreNew ==
    \A t, u \in DOMAIN tracks : \A i \in DOMAIN tracks[t] :
        LET born == Head(tracks[u]) IN
        /\ tracks[t][i].scan < born.scan
        /\ i = Len(tracks[t]) \/ tracks[t][i + 1].scan > born.scan
        => Apart(tracks[t][i], born) > MaxAssociation

\* An arrival is told only of a storm that comes nearer, and is when it gets there, to
\* half a minute.
ArrivalsAreAhead ==
    \A t \in Range(tracks), target \in Destinations : Eta(t, target) # NoAnswer =>
        /\ Len(t) >= 2
        /\ Apart(Last(t), [km |-> target]) <= Apart(t[Len(t) - 1], [km |-> target])

TracksAreStorms == CellsArePartitioned /\ NewTracksAreNew /\ ArrivalsAreAhead
=============================================================================
