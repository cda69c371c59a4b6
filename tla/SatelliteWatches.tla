-------------------------- MODULE SatelliteWatches --------------------------
(***************************************************************************)
(* Early watches from satellite images (backend/workers/                   *)
(* satellite_pipeline.py): one image per cycle, the newest first; the      *)
(* systems in a new latest image are matched with the active watches, and  *)
(* the locations near one are told when it appears and when it dissolves.  *)
(*                                                                         *)
(* A cycle is one transaction of a task that runs alone: it commits, or is *)
(* lost and leaves nothing.  Places are points on a line, in steps of      *)
(* 60 km; a frame is named by the hour it was captured in.                 *)
(***************************************************************************)
EXTENDS Naturals, FiniteSets, SequencesExt

CONSTANTS
    Places,
    Skies,            \* what an image may show: the places of its systems, in the order detected
    Sites, SiteAt, SiteRadius,   \* locations
    MaxHour,          \* bound: clock, and with it the images
    Playback,         \* _PLAYBACK_ITEM_LIMIT
    Retention,        \* _IMAGE_HISTORY_RETENTION, in hours
    MaxAge,           \* satellite_max_watch_age_hours
    MaxPauses         \* bound: changes of a location's is_active

MatchDistance == 2    \* _MATCH_DISTANCE_KM: 100 km are less than two steps

ASSUME SatelliteConstants ==
    /\ Places \subseteq Nat /\ \A sky \in Skies : sky \in Seq(Places)
    /\ SiteAt \in [Sites -> Nat] /\ SiteRadius \in [Sites -> Nat]
    /\ MaxHour \in Nat /\ Playback \in Nat /\ Retention \in Nat /\ MaxAge \in Nat
    /\ MaxPauses \in Nat

VARIABLES
    hour,
    catalogue,   \* frames the STAC catalogue lists -> their sky
    images,      \* satellite_images: the frames stored
    watches,     \* convective_watches: id -> row
    alerted,     \* alerts: <<location, watch, event>>
    enabled,     \* locations with is_active
    pauses,
    live         \* history: the last frame that drove the watches; 0 at first

satVars == <<hour, catalogue, images, watches, alerted, enabled, pauses, live>>

Distance(a, b) == IF a <= b THEN b - a ELSE a - b
Listed == DOMAIN catalogue

-----------------------------------------------------------------------------
(* The images *)

\* _stac_search: the newest few.
Items == {f \in Listed : Cardinality({g \in Listed : g > f}) < Playback}

\* Mutant: every frame drives the watches.
IsLatest_Always(f) == TRUE

IsLatest(f) == \A g \in Items : g <= f

\* _select_unstored_item: the newest frame not stored; only the catalogue's
\* newest one is live.
Selected(f) == /\ f \in Items \ images
               /\ \A g \in Items \ images : g <= f

\* _persist_image prunes first: a newest frame older than the retention lasts
\* until the next cycle.
Persisted(f) == {g \in images : g + Retention >= hour} \cup {f}

-----------------------------------------------------------------------------
(* The watches *)

Fresh(ws) == Cardinality(DOMAIN ws) + 1

\* The nearest active watch, closer than MatchDistance, that no system has taken.
Candidates(old, taken, place) ==
    {w \in DOMAIN old : /\ old[w].active /\ w \notin taken
                        /\ Distance(place, old[w].at) < MatchDistance}
Nearest(old, ws, place) ==
    CHOOSE w \in ws : \A v \in ws : Distance(place, old[w].at) <= Distance(place, old[v].at)

Seen(place) == [active |-> TRUE, gone |-> FALSE, at |-> place, seen |-> hour]

\* Mutant: a watch may be taken twice.
MatchOne_Shared(old, acc, place) ==
    LET near == Candidates(old, {}, place)
        w == IF near = {} THEN Fresh(acc.rows) ELSE Nearest(old, near, place)
    IN [touched |-> acc.touched \cup {w},
        rows |-> [v \in DOMAIN acc.rows \cup {w} |-> IF v = w THEN Seen(place) ELSE acc.rows[v]]]

\* One system takes a watch, or makes a new one, which none after it may take.
MatchOne(old, acc, place) ==
    LET near == Candidates(old, acc.touched, place)
        w == IF near = {} THEN Fresh(acc.rows) ELSE Nearest(old, near, place)
    IN [touched |-> acc.touched \cup {w},
        rows |-> [v \in DOMAIN acc.rows \cup {w} |-> IF v = w THEN Seen(place) ELSE acc.rows[v]]]

\* Of the systems in the order detected.
MatchAll(old, sky) ==
    LET acc[i \in 0 .. Len(sky)] == IF i = 0 THEN [touched |-> {}, rows |-> old]
                                    ELSE MatchOne(old, acc[i - 1], sky[i])
    IN acc[Len(sky)]

\* _match_or_create: those no system took are dissipated.
Matched(old, sky) ==
    LET all == MatchAll(old, sky)
    IN [touched |-> all.touched,
        dissipated |-> {w \in DOMAIN old : old[w].active} \ all.touched,
        rows |-> [w \in DOMAIN all.rows |->
                    IF w \in all.touched THEN all.rows[w]
                    ELSE [all.rows[w] EXCEPT !.active = FALSE]]]

\* Mutant: of a watch that has gone, those in whose radius it is now.
Alerts_GoneNearby(m) ==
    {a \in enabled \X (m.touched \cup m.dissipated) \X {"detected", "dissipated"} :
        /\ (a[3] = "detected") = (a[2] \in m.touched)
        /\ Distance(m.rows[a[2]].at, SiteAt[a[1]]) <= SiteRadius[a[1]]}

\* _decide_alerts: active locations in whose radius a watch is; and of a watch
\* that has gone, those that were told of it.  What has been told is not told again.
Alerts(m) ==
    {a \in enabled \X m.touched \X {"detected"} :
        Distance(m.rows[a[2]].at, SiteAt[a[1]]) <= SiteRadius[a[1]]}
    \cup {a \in enabled \X m.dissipated \X {"dissipated"} :
        <<a[1], a[2], "detected">> \in alerted}

\* _prune_stale_watches: old inactive rows go (here they are marked, so that the
\* ids stay apart).
Pruned(rows) == [w \in DOMAIN rows |->
    IF ~rows[w].active /\ rows[w].seen + MaxAge < hour THEN [rows[w] EXCEPT !.gone = TRUE]
    ELSE rows[w]]

-----------------------------------------------------------------------------
(* run_satellite_detection_cycle *)

\* An older frame only fills the playback.
Backfill(f) ==
    /\ Selected(f) /\ ~IsLatest(f)
    /\ images' = Persisted(f)
    /\ UNCHANGED <<hour, catalogue, watches, alerted, enabled, pauses, live>>

Detect(f) ==
    /\ Selected(f) /\ IsLatest(f)
    /\ images' = Persisted(f)
    /\ LET m == Matched(watches, catalogue[f]) IN
         /\ alerted' = alerted \cup Alerts(m)
         /\ watches' = Pruned(m.rows)
    /\ live' = f
    /\ UNCHANGED <<hour, catalogue, enabled, pauses>>

-----------------------------------------------------------------------------
(* The world *)

\* An image is published, now or late, but in the order of capture.
Publish(f, sky) ==
    /\ f \in 1 .. hour /\ \A g \in Listed : g < f
    /\ catalogue' = [g \in Listed \cup {f} |-> IF g = f THEN sky ELSE catalogue[g]]
    /\ UNCHANGED <<hour, images, watches, alerted, enabled, pauses, live>>

HourPasses ==
    /\ hour < MaxHour /\ hour' = hour + 1
    /\ UNCHANGED <<catalogue, images, watches, alerted, enabled, pauses, live>>

\* A user switches a location off or on.
SwitchSite(l) ==
    /\ pauses > 0 /\ pauses' = pauses - 1
    /\ enabled' = IF l \in enabled THEN enabled \ {l} ELSE enabled \cup {l}
    /\ UNCHANGED <<hour, catalogue, images, watches, alerted, live>>

-----------------------------------------------------------------------------
SatInit == /\ hour = 1 /\ catalogue = <<>> /\ images = {} /\ watches = <<>>
           /\ alerted = {} /\ enabled = Sites /\ pauses = MaxPauses /\ live = 0

SatNext == \/ \E f \in Listed : Backfill(f) \/ Detect(f)
           \/ \E f \in 1 .. hour, sky \in Skies : Publish(f, sky)
           \/ HourPasses
           \/ \E l \in Sites : SwitchSite(l)

SatSpec == SatInit /\ [][SatNext]_satVars

-----------------------------------------------------------------------------
(* Properties *)

\* The rows' types; alerts are about watches there have been.
SatTypeOK ==
    /\ images \subseteq Listed /\ enabled \subseteq Sites /\ live \in Listed \cup {0}
    /\ \A w \in DOMAIN watches : /\ watches[w].at \in Places /\ watches[w].seen \in 1 .. hour
                                 /\ watches[w].gone => ~watches[w].active
    /\ alerted \subseteq Sites \X (DOMAIN watches) \X {"detected", "dissipated"}

\* The active watches are the systems of the last frame that drove them, one each,
\* whatever the order in which systems take them, and no stored frame is newer:
\* `historical frames are display-only and must never rewind the live state'
\* (_select_unstored_item).
WatchesAreSystems ==
    LET actives == {w \in DOMAIN watches : watches[w].active} IN
    /\ \A g \in images : g <= live
    /\ live # 0 => /\ {watches[w].at : w \in actives} = ToSet(catalogue[live])
                   /\ Cardinality(actives) = Len(catalogue[live])
    /\ live = 0 => actives = {}

\* A location told of a watch is told when it has gone, if it was never switched
\* off meanwhile.
DissipationIsTold ==
    pauses = MaxPauses =>
        \A a \in alerted : ~watches[a[2]].active => <<a[1], a[2], "dissipated">> \in alerted
=============================================================================
