--------------------------- MODULE MCStormAlerts ---------------------------
(***************************************************************************)
(* StormAlerts on a small instance: what the radar may show of two storms, *)
(* from a distant weak one to a severe one overhead.                       *)
(***************************************************************************)
EXTENDS StormAlerts

CONSTANTS l1, l2, s1, s2

VARIABLE scene   \* "storms": two over one location; "places": one over two of them

Cell(distance, dbz, speed, eta) ==
    [distance |-> distance, dbz |-> dbz, speed |-> speed, eta |-> eta]

Far == Cell(90, 36, Unknown, Unknown)   \* green
Near == Cell(60, 41, 30, Unknown)       \* yellow, no active hazard
Windy == Cell(65, 41, 80, Unknown)      \* yellow, wind
Coming == Cell(30, 52, 30, 60)          \* orange: rain, wind, hail, lightning
Severe == Cell(5, 60, 30, 10)           \* red

Sees(first, second) ==
    [l \in Locations |->
        [s \in Storms |-> IF l # l1 THEN None ELSE IF s = s1 THEN first ELSE second]]

MCFrames == {Sees(Far, None), Sees(Windy, None), Sees(Severe, Far), Sees(Near, Coming),
             Sees(None, Coming)}
MCMuted == {{}, {"wind"}}

\* Two locations that see one storm differently.
PairSees(first, second) ==
    [l \in Locations |->
        [s \in Storms |-> IF s # s1 THEN None ELSE IF l = l1 THEN first ELSE second]]
MCPairFrames == {PairSees(Far, Coming), PairSees(Coming, Far), PairSees(Coming, Coming),
                 PairSees(Near, None)}
MCAllFrames == MCFrames \cup MCPairFrames

\* The readings cover every risk level and the hazards that matter.
ASSUME ReadingsDiffer ==
    /\ Level(Far) = 0 /\ Level(Near) = 1 /\ Level(Windy) = 1
    /\ Level(Coming) = 2 /\ Level(Severe) = 3
    /\ ActiveHazards(Near) = {} /\ ActiveHazards(Windy) = {"wind"}
    /\ ActiveHazards(Coming) = Hazards \ {"wind"} /\ ActiveHazards(Severe) = Hazards

-----------------------------------------------------------------------------
\* What a scene has: its locations, its radar, its preferences.
InScene ==
    CASE scene = "storms" -> /\ locations[l2] = None
                             /\ \A w \in Workers : work[w].frame \in MCFrames \cup {NoFrame}
      [] scene = "places" -> /\ \A w \in Workers : work[w].frame \in MCPairFrames \cup {NoFrame}
                             /\ \A l \in Locations : Exists(l) => locations[l].muted = {}

SceneInit == Init /\ scene \in {"storms", "places"} /\ InScene
SceneNext == Next /\ UNCHANGED scene /\ InScene'
SceneSpec == SceneInit /\ [][SceneNext]_<<vars, scene>>
=============================================================================
