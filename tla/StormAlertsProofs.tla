-------------------------- MODULE StormAlertsProofs --------------------------
(***************************************************************************)
(* Proofs about StormAlerts, for every value of the constants: the tables  *)
(* keep their types and foreign keys, locations with a radius of at most   *)
(* 67 km are never told that a storm has passed, and summaries are asked   *)
(* for stored risks only; and, when ingestion cycles do not overlap, who   *)
(* is at risk has been warned of the level and of the hazards, and is told *)
(* when the risk is over.  About the risk engine: a worse storm is never   *)
(* ranked lower.  And about StormTracks, the engine that the cycles feed:  *)
(* the tracks are storms.                                                  *)
(***************************************************************************)
EXTENDS StormAlerts, StormTracks, FiniteSetTheorems, WellFoundedInduction, TLAPS

WorkRow == [pc : {"idle", "run", "dispatch"},
            frame : [Locations -> [Storms -> Reading \cup {None}]], born : Stamps,
            todo : SUBSET Locations, seen : [Locations -> LocationRow \cup {None}],
            risks : SUBSET RiskRow, alerts : SUBSET AlertRow,
            unflushed : SUBSET Locations, tasks : SUBSET RiskRow]

\* Rows of a cycle whose location may be gone have not been flushed, and every
\* alert comes with a risk.
Anchored(w) ==
    /\ \A r \in work[w].risks : Exists(r.location) \/ r.location \in work[w].unflushed
    /\ \A a \in work[w].alerts : \E r \in work[w].risks : r.location = a.location
    /\ work[w].pc # "run" => work[w].risks = {}

IInv == /\ TypeOK
        /\ work \in [Workers -> WorkRow]
        /\ \A w \in Workers : Anchored(w)

-----------------------------------------------------------------------------
(* The risk engine *)

\* Whatever the cell, the intensity is one of the four of RiskConfig.
LEMMA Intensities ==
    ASSUME NEW n PROVE Intensity(n) \in {20, 50, 75, 100}
BY DEF Intensity

\* A cell the detector keeps puts every location within 67 km at risk.
THEOREM NearbyIsNeverGreen ==
    ASSUME NEW x \in Reading, x.distance <= 67 PROVE Level(x) >= 1
<1> DEFINE i == Intensity(x.dbz)
<1>1. x.distance \in Nat /\ (x.eta = Unknown \/ x.eta \in Nat)
  BY DEF Reading
<1>2. Proximity(x) \in Nat /\ Proximity(x) >= 53
  BY <1>1 DEF Proximity
<1>3. Imminence(x) \in Nat
  BY <1>1 DEF Imminence, Unknown
<1>4. 15840 + 88 * Proximity(x) >= 20504
  BY <1>2
<1>5. Risk(x)["lightning"] >= 410080 /\ Risk(x)["lightning"] \in Int
  <2> DEFINE p == Proximity(x)
  <2>1. Risk(x)["lightning"] = i * (15840 + 88 * p)
    BY DEF Risk
  <2>2. p \in Nat /\ p >= 53
    BY <1>2
  <2> HIDE DEF p
  <2>3. i \in {20, 50, 75, 100}
    BY Intensities
  <2> HIDE DEF i
  <2>4. CASE i = 20
    BY <2>1, <2>2, <2>4
  <2>5. CASE i = 50
    BY <2>1, <2>2, <2>5
  <2>6. CASE i = 75
    BY <2>1, <2>2, <2>6
  <2>7. CASE i = 100
    BY <2>1, <2>2, <2>7
  <2> QED
    BY <2>3, <2>4, <2>5, <2>6, <2>7
<1>6. Reaches(x, 18)
  <2> DEFINE l == Risk(x)["lightning"]
             p == Proximity(x)
             m == Imminence(x)
  <2>1. l \in Int /\ l >= 410080 /\ p \in Nat /\ p >= 53 /\ m \in Nat
    BY <1>2, <1>3, <1>5
  <2> HIDE DEF l, p, m
  <2>2. 6 * l + 44000 * p + 88000 * m >= 18 * 264000
    BY <2>1
  <2>3. Unit \div 10 = 264000
    BY DEF Unit
  <2> QED
    BY <2>2, <2>3 DEF Reaches, l, p, m, Hazards
<1> QED
  BY <1>6 DEF Level

LEMMA IntensityGrows ==
    ASSUME NEW d \in Nat, NEW e \in Nat, d <= e
    PROVE  /\ Intensity(d) \in Nat /\ Intensity(e) \in Nat /\ Intensity(d) <= Intensity(e)
           /\ Intensity(d) <= 100
BY DEF Intensity

LEMMA ProductsGrow ==
    ASSUME NEW i \in Nat, NEW j \in Nat, NEW a \in Nat, NEW b \in Nat, i <= j, a <= b
    PROVE  i * a <= j * b /\ i * a \in Nat /\ j * b \in Nat
<1>1. PICK di \in Nat : j = i + di
  <2>1. j - i \in Nat /\ j = i + (j - i)
    OBVIOUS
  <2> QED
    BY <2>1
<1>2. PICK db \in Nat : b = a + db
  <2>1. b - a \in Nat /\ b = a + (b - a)
    OBVIOUS
  <2> QED
    BY <2>1
<1>3. j * b = i * a + i * db + di * b
  BY <1>1, <1>2
<1>4. i * a \in Nat /\ i * db \in Nat /\ di * b \in Nat
  BY <1>1, <1>2
<1> QED
  BY <1>3, <1>4

\* y is a storm at least as near, as strong and as fast as x, due no later.
Worse(x, y) == /\ y.distance <= x.distance /\ x.dbz <= y.dbz
               /\ x.speed = Unknown \/ x.speed <= y.speed
               /\ x.eta = Unknown \/ (y.eta # Unknown /\ y.eta <= x.eta)

LEMMA ClosenessGrows ==
    ASSUME NEW x \in Reading, NEW y \in Reading, Worse(x, y)
    PROVE  /\ Proximity(x) \in Nat /\ Proximity(y) \in Nat /\ Proximity(x) <= Proximity(y)
           /\ Imminence(x) \in Nat /\ Imminence(y) \in Nat /\ Imminence(x) <= Imminence(y)
           /\ WindSpeed(x) \in Nat /\ WindSpeed(y) \in Nat /\ WindSpeed(x) <= WindSpeed(y)
           /\ Least(x.dbz, 55) \in Nat /\ Least(y.dbz, 55) \in Nat
           /\ Least(x.dbz, 55) <= Least(y.dbz, 55)
BY DEF Worse, Reading, Proximity, Imminence, WindSpeed, Least, Unknown, MinReflectivity

LEMMA RiskGrows ==
    ASSUME NEW x \in Reading, NEW y \in Reading, Worse(x, y), NEW h \in Hazards
    PROVE  Risk(x)[h] \in Nat /\ Risk(y)[h] \in Nat /\ Risk(x)[h] <= Risk(y)[h]
<1> DEFINE i == Intensity(x.dbz)
           j == Intensity(y.dbz)
<1>1. i \in Nat /\ j \in Nat /\ i <= j
  BY IntensityGrows DEF Worse, Reading
<1> HIDE DEF i, j
<1>2. CASE h = "rain"
  <2> DEFINE a == 13200 + 110 * Proximity(x)
             b == 13200 + 110 * Proximity(y)
  <2>1. a \in Nat /\ b \in Nat /\ a <= b
    BY ClosenessGrows
  <2>2. Risk(x)[h] = i * a /\ Risk(y)[h] = j * b
    BY <1>2 DEF Risk, i, j
  <2> HIDE DEF a, b
  <2> QED
    BY <1>1, <2>1, <2>2, ProductsGrow
<1>3. CASE h = "wind"
  <2> DEFINE a == 10560 + 198 * WindSpeed(x)
             b == 10560 + 198 * WindSpeed(y)
  <2>1. a \in Nat /\ b \in Nat /\ a <= b
    BY ClosenessGrows
  <2>2. Risk(x)[h] = i * a /\ Risk(y)[h] = j * b
    BY <1>3 DEF Risk, i, j
  <2> HIDE DEF a, b
  <2> QED
    BY <1>1, <2>1, <2>2, ProductsGrow
<1>4. CASE h = "hail"
  <2> DEFINE a == 480 * Least(x.dbz, 55)
             b == 480 * Least(y.dbz, 55)
  <2>1. a \in Nat /\ b \in Nat /\ a <= b
    BY ClosenessGrows
  <2>2. Risk(x)[h] = i * a /\ Risk(y)[h] = j * b
    <3>1. Least(x.dbz, 55) \in Nat /\ Least(y.dbz, 55) \in Nat
      BY ClosenessGrows
    <3>2. Risk(x)[h] = i * 480 * Least(x.dbz, 55) /\ Risk(y)[h] = j * 480 * Least(y.dbz, 55)
      BY <1>4 DEF Risk, i, j
    <3> QED
      BY <1>1, <3>1, <3>2
  <2> HIDE DEF a, b
  <2> QED
    BY <1>1, <2>1, <2>2, ProductsGrow
<1>5. CASE h = "lightning"
  <2> DEFINE a == 15840 + 88 * Proximity(x)
             b == 15840 + 88 * Proximity(y)
  <2>1. a \in Nat /\ b \in Nat /\ a <= b
    BY ClosenessGrows
  <2>2. Risk(x)[h] = i * a /\ Risk(y)[h] = j * b
    BY <1>5 DEF Risk, i, j
  <2> HIDE DEF a, b
  <2> QED
    BY <1>1, <2>1, <2>2, ProductsGrow
<1> QED
  BY <1>2, <1>3, <1>4, <1>5 DEF Hazards

\* No storm is ranked below one that is farther, weaker, slower and later, nor
\* has a hazard the other has and it has not: the score and each hazard's
\* probability (StormRiskEngine.assess) grow with every one of them.
THEOREM WorseStormsRankNoLower ==
    ASSUME NEW x \in Reading, NEW y \in Reading, Worse(x, y)
    PROVE  Level(x) <= Level(y) /\ ActiveHazards(x) \subseteq ActiveHazards(y)
<1>1. \A h \in Hazards : Risk(x)[h] \in Nat /\ Risk(y)[h] \in Nat /\ Risk(x)[h] <= Risk(y)[h]
  BY RiskGrows
<1>2. ASSUME NEW percent \in Nat, Reaches(x, percent) PROVE Reaches(y, percent)
  <2> DEFINE bar == percent * (Unit \div 10)
  <2>1. PICK h \in Hazards : 6 * Risk(x)[h] + 44000 * Proximity(x) + 88000 * Imminence(x) >= bar
    BY <1>2 DEF Reaches
  <2>2. bar \in Int
    BY DEF Unit
  <2> HIDE DEF bar
  <2>3. 6 * Risk(y)[h] + 44000 * Proximity(y) + 88000 * Imminence(y) >= bar
    BY <1>1, <2>1, <2>2, ClosenessGrows
  <2> QED
    BY <2>3 DEF Reaches, bar
<1>3. ActiveHazards(x) \subseteq ActiveHazards(y)
  BY <1>1 DEF ActiveHazards, Unit
<1> QED
  BY <1>2, <1>3 DEF Level

LEMMA SnapshotIsState ==
    ASSUME NEW x \in Reading PROVE snapshot(x) \in State
<1>1. Level(x) \in RiskLevels
  BY DEF Level, RiskLevels
<1>2. ActiveHazards(x) \subseteq Hazards
  BY DEF ActiveHazards
<1>3. x.distance \in Nat /\ x.eta \in Nat \cup {Unknown}
  BY DEF Reading
<1> QED
  BY <1>1, <1>2, <1>3 DEF snapshot, State

LEMMA DecisionIsEvent ==
    ASSUME NEW prev, NEW curr
    PROVE  /\ Decision(prev, curr) \in EventTypes \cup {None}
           /\ curr.level # 0 =>
                Decision(prev, curr) \in {"approaching", "intensified", "changed", None}
BY DEF Decision, EventTypes

-----------------------------------------------------------------------------
(* Type correctness *)

LEMMA IdleWorkerOK ==
    /\ IdleWorker \in WorkRow
    /\ IdleWorker.pc = "idle" /\ IdleWorker.risks = {} /\ IdleWorker.alerts = {}
    /\ IdleWorker.todo = {}
<1>1. NoFrame \in [Locations -> [Storms -> Reading \cup {None}]]
  BY DEF NoFrame
<1>2. 0 \in Stamps
  BY ConstantsAssumption DEF ConstantsAssumption, Stamps
<1> QED
  BY <1>1, <1>2 DEF IdleWorker, WorkRow

LEMMA Opening == ASSUME Init PROVE IInv
<1> USE DEF Init
<1>1. locations \in [Locations -> LocationRow \cup {None}]
  <2> SUFFICES ASSUME NEW l \in Locations, locations[l] # None PROVE locations[l] \in LocationRow
    OBVIOUS
  <2>1. locations[l] \in [active : {TRUE}, radius : Radii, muted : Muted]
    OBVIOUS
  <2> QED
    BY <2>1, ConstantsAssumption DEF ConstantsAssumption, LocationRow
<1>2. TypeOK
  BY <1>1, ConstantsAssumption DEF ConstantsAssumption, TypeOK, Stamps
<1> QED
  BY <1>2, IdleWorkerOK DEF IInv, Anchored

\* A step of one cycle that leaves the tables as they are.
LEMMA StepOfCycle ==
    ASSUME IInv, NEW w \in Workers, clock' \in Stamps, queue' \subseteq RiskRow,
           UNCHANGED <<requests, locations, risks, alerts>>,
           work' = [work EXCEPT ![w] = work'[w]], work'[w] \in WorkRow, Anchored(w)'
    PROVE  IInv'
<1>1. TypeOK'
  BY DEF IInv, TypeOK, Exists
<1>2. \A v \in Workers : Anchored(v)'
  <2> TAKE v \in Workers
  <2>1. CASE v = w
    BY <2>1
  <2>2. CASE v # w
    BY <2>2 DEF IInv, Anchored, Exists
  <2> QED
    BY <2>1, <2>2
<1> QED
  BY <1>1, <1>2 DEF IInv

LEMMA EndingStep ==
    ASSUME IInv, NEW w \in Workers, clock' \in Stamps,
           UNCHANGED <<requests, locations, risks, alerts, queue>>,
           work' = [work EXCEPT ![w] = IdleWorker]
    PROVE  IInv'
<1>1. work'[w] = IdleWorker
  BY DEF IInv
<1>2. queue' \subseteq RiskRow
  BY DEF IInv, TypeOK
<1>3. Anchored(w)'
  BY <1>1, IdleWorkerOK DEF Anchored
<1> QED
  BY <1>1, <1>2, <1>3, IdleWorkerOK, StepOfCycle

LEMMA FetchStep ==
    ASSUME IInv, NEW w \in Workers, Fetch(w) PROVE IInv'
<1>1. PICK frame \in Frames \cup {NoFrame} :
        work' = [work EXCEPT ![w] = [IdleWorker EXCEPT
            !.pc = "run", !.frame = frame, !.born = clock, !.seen = locations,
            !.todo = {l \in Locations : Exists(l) /\ locations[l].active}]]
  BY DEF Fetch
<1>2. frame \in [Locations -> [Storms -> Reading \cup {None}]]
  BY ConstantsAssumption DEF ConstantsAssumption, NoFrame
<1>3. work'[w] = [pc |-> "run", frame |-> frame, born |-> clock,
                  todo |-> {l \in Locations : Exists(l) /\ locations[l].active},
                  seen |-> locations, risks |-> {}, alerts |-> {},
                  unflushed |-> {}, tasks |-> {}]
  BY <1>1 DEF IInv, IdleWorker
<1>4. /\ clock \in Stamps /\ queue \subseteq RiskRow
      /\ locations \in [Locations -> LocationRow \cup {None}]
  BY DEF IInv, TypeOK
<1>5. work'[w] \in WorkRow
  BY <1>2, <1>3, <1>4 DEF WorkRow
<1>6. Anchored(w)'
  BY <1>3 DEF Anchored
<1>7. work' = [work EXCEPT ![w] = work'[w]]
  BY <1>1 DEF IInv
<1>8. UNCHANGED <<clock, requests, locations, risks, alerts, queue>>
  BY DEF Fetch
<1> QED
  BY <1>4, <1>5, <1>6, <1>7, <1>8, StepOfCycle

LEMMA SkipStep ==
    ASSUME IInv, NEW w \in Workers, NEW l \in Locations, Skip(w, l) PROVE IInv'
<1>1. /\ work[w] \in WorkRow /\ clock \in Stamps /\ queue \subseteq RiskRow
      /\ work'[w] = [work[w] EXCEPT !.todo = @ \ {l}]
      /\ work' = [work EXCEPT ![w] = work'[w]]
  BY DEF IInv, TypeOK, Skip
<1>2. UNCHANGED <<clock, requests, locations, risks, alerts, queue>>
  BY DEF Skip
<1>3. work'[w] \in WorkRow
  BY <1>1 DEF WorkRow
<1>4. Anchored(w)'
  BY <1>1, <1>2 DEF IInv, Anchored, Exists, WorkRow
<1> QED
  BY <1>1, <1>2, <1>3, <1>4, StepOfCycle

LEMMA AssessStep ==
    ASSUME IInv, NEW w \in Workers, NEW l \in Locations, Assess(w, l) PROVE IInv'
<1>1. PICK s \in Nearest(w, l) :
         LET row == Assessed(w, l, s)
             alert == AlertFor(w, l, s)
         IN \/ /\ Flushed(row, alert) /\ ~Exists(l)
               /\ work' = [work EXCEPT ![w] = IdleWorker]
            \/ /\ ~Flushed(row, alert) \/ Exists(l)
               /\ work' = [work EXCEPT
                     ![w].todo = @ \ {l},
                     ![w].risks = @ \cup {row},
                     ![w].alerts = IF Emitted(w, alert) THEN @ \cup {alert} ELSE @,
                     ![w].unflushed = IF Flushed(row, alert) THEN {} ELSE {l},
                     ![w].tasks = IF Summarised(row) THEN @ \cup {row} ELSE @]
  BY Zenon DEF Assess
<1> DEFINE row == Assessed(w, l, s)
           alert == AlertFor(w, l, s)
           flushed == Flushed(row, alert)
<1>3. /\ work[w] \in WorkRow /\ work[w].pc = "run" /\ clock' = clock + 1 /\ clock' \in Stamps
      /\ Flushable(w)
      /\ UNCHANGED <<requests, locations, risks, alerts, queue>>
  BY ConstantsAssumption DEF IInv, TypeOK, Assess, Stamps, ConstantsAssumption
<1>4. s \in Storms /\ snapshot(work[w].frame[l][s]) \in State
  <2>1. s \in Storms /\ work[w].frame[l][s] \in Reading
    BY <1>3 DEF Nearest, InRadius, WorkRow
  <2> QED
    BY <2>1, SnapshotIsState
<1>6. row \in RiskRow /\ row.location = l
  BY <1>3, <1>4 DEF Assessed, RiskRow, Cells, WorkRow
<1>7. alert.location = l /\ (Emitted(w, alert) => alert \in AlertRow)
  <2> DEFINE event == Decision(Previous(w, l), row.state)
             status == IF Exists(l) /\ Suppressed(row.state, locations[l].muted)
                       THEN "suppressed" ELSE "pending"
  <2>1. alert = [location |-> l, cell |-> row.cell, event |-> event,
                 level |-> row.state.level, at |-> row.at, status |-> status]
    BY DEF AlertFor
  <2>2. status \in {"pending", "suppressed"} /\ event \in EventTypes \cup {None}
    BY DecisionIsEvent
  <2>3. row.cell \in Cells /\ row.at \in Stamps /\ row.state.level \in RiskLevels
    BY <1>6 DEF RiskRow, State
  <2> HIDE DEF event, status, row, alert
  <2>4. Emitted(w, alert) => event # None
    BY <2>1 DEF Emitted
  <2> QED
    BY <2>1, <2>2, <2>3, <2>4 DEF AlertRow
<1> HIDE DEF row, alert, flushed
<1>8. CASE flushed /\ ~Exists(l)
  BY <1>1, <1>3, <1>8, EndingStep DEF flushed, row, alert
<1>9. CASE ~(flushed /\ ~Exists(l))
  <2>1. /\ work' = [work EXCEPT ![w] = work'[w]]
        /\ work'[w] = [work[w] EXCEPT
              !.todo = @ \ {l}, !.risks = @ \cup {row},
              !.alerts = IF Emitted(w, alert) THEN @ \cup {alert} ELSE @,
              !.unflushed = IF flushed THEN {} ELSE {l},
              !.tasks = IF Summarised(row) THEN @ \cup {row} ELSE @]
    BY <1>1, <1>9 DEF IInv, flushed, row, alert
  <2>4. /\ work'[w].pc = "run" /\ work'[w].todo = work[w].todo \ {l}
        /\ work'[w].risks = work[w].risks \cup {row}
        /\ work'[w].alerts = IF Emitted(w, alert) THEN work[w].alerts \cup {alert}
                                                  ELSE work[w].alerts
        /\ work'[w].unflushed = IF flushed THEN {} ELSE {l}
        /\ work'[w].tasks = IF Summarised(row) THEN work[w].tasks \cup {row} ELSE work[w].tasks
    BY <1>3, <2>1 DEF WorkRow
  <2>2. work'[w] \in WorkRow
    <3>1. /\ work'[w].risks \subseteq RiskRow /\ work'[w].tasks \subseteq RiskRow
          /\ work'[w].alerts \subseteq AlertRow /\ work'[w].unflushed \subseteq Locations
          /\ work'[w].todo \subseteq Locations
      BY <1>3, <1>6, <1>7, <2>1, <2>4 DEF WorkRow
    <3>2. work'[w].pc \in {"idle", "run", "dispatch"}
      BY <2>4
    <3> HIDE DEF row, alert, flushed
    <3> QED
      BY <1>3, <2>1, <3>1, <3>2 DEF WorkRow
  <2>3. Anchored(w)'
    <3>1. \A r \in work[w].risks : Exists(r.location)
      BY <1>3 DEF IInv, Anchored, Flushable
    <3>2. \A r \in work'[w].risks : Exists(r.location)' \/ r.location \in work'[w].unflushed
      BY <1>3, <1>6, <1>9, <2>1, <2>4, <3>1 DEF Exists
    <3>3. \A a \in work'[w].alerts : \E r \in work'[w].risks : r.location = a.location
      <4> TAKE a \in work'[w].alerts
      <4>1. CASE a \in work[w].alerts
        BY <2>1, <2>4, <4>1 DEF IInv, Anchored
      <4>2. CASE a = alert
        BY <1>6, <1>7, <2>1, <2>4, <4>2
      <4> QED
        BY <2>1, <2>4, <4>1, <4>2
    <3> QED
      BY <2>1, <2>4, <3>2, <3>3 DEF Anchored
  <2> QED
    BY <1>3, <2>1, <2>4, <2>2, <2>3, StepOfCycle DEF IInv, TypeOK
<1> QED
  BY <1>8, <1>9

LEMMA CommitStep ==
    ASSUME IInv, NEW w \in Workers, Commit(w) PROVE IInv'
<1> DEFINE tasks == work[w].tasks
<1>1. /\ work[w] \in WorkRow /\ Flushable(w)
      /\ risks' = risks \cup work[w].risks /\ alerts' = alerts \cup work[w].alerts
      /\ UNCHANGED <<clock, requests, locations, queue>>
  BY DEF IInv, Commit
<1>2. \A r \in work[w].risks \cup work[w].alerts : Exists(r.location)
  BY <1>1 DEF IInv, Anchored, Flushable
<1>3. TypeOK'
  BY <1>1, <1>2 DEF IInv, TypeOK, WorkRow, Exists
<1>4. /\ work'[w] = [IdleWorker EXCEPT !.pc = IF tasks = {} THEN "idle" ELSE "dispatch",
                                       !.tasks = tasks]
      /\ work' = [work EXCEPT ![w] = work'[w]]
  BY DEF IInv, Commit
<1>5. work'[w] \in WorkRow /\ work'[w].risks = {} /\ work'[w].alerts = {}
  BY <1>1, <1>4, IdleWorkerOK DEF WorkRow
<1>6. \A v \in Workers : Anchored(v)'
  <2> TAKE v \in Workers
  <2>1. CASE v = w
    BY <1>5, <2>1 DEF Anchored
  <2>2. CASE v # w
    BY <1>1, <1>4, <2>2 DEF IInv, Anchored, Exists
  <2> QED
    BY <2>1, <2>2
<1> QED
  BY <1>3, <1>4, <1>5, <1>6 DEF IInv

LEMMA DispatchStep ==
    ASSUME IInv, NEW w \in Workers, Dispatch(w) PROVE IInv'
<1>1. PICK r \in work[w].tasks :
         /\ queue' = queue \cup {r}
         /\ work' = [work EXCEPT ![w].tasks = @ \ {r},
                                 ![w].pc = IF work[w].tasks = {r} THEN "idle" ELSE @]
  BY DEF Dispatch
<1>2. /\ work[w] \in WorkRow /\ work[w].pc = "dispatch"
      /\ UNCHANGED <<clock, requests, locations, risks, alerts>>
      /\ clock' \in Stamps
  BY DEF IInv, TypeOK, Dispatch
<1>3. queue' \subseteq RiskRow
  BY <1>1, <1>2 DEF IInv, TypeOK, WorkRow
<1>4. /\ work' = [work EXCEPT ![w] = work'[w]]
      /\ work'[w] = [work[w] EXCEPT !.tasks = @ \ {r},
                                    !.pc = IF work[w].tasks = {r} THEN "idle" ELSE @]
  BY <1>1 DEF IInv
<1>5. work'[w] \in WorkRow
  BY <1>2, <1>4 DEF WorkRow
<1>6. Anchored(w)'
  BY <1>2, <1>4 DEF IInv, Anchored, WorkRow
<1> QED
  BY <1>2, <1>3, <1>4, <1>5, <1>6, StepOfCycle

LEMMA LocationStep ==
    ASSUME IInv, NEW l \in Locations, NEW radius \in Radii, NEW muted \in Muted,
           NEW active \in BOOLEAN,
           CreateLocation(l, radius, muted) \/ UpdateLocation(l, active, radius, muted)
    PROVE  IInv'
<1>1. /\ UNCHANGED <<clock, risks, alerts, queue, work>>
      /\ requests' \in 0 .. MaxRequests
  BY ConstantsAssumption
  DEF CreateLocation, UpdateLocation, Request, IInv, TypeOK, ConstantsAssumption
<1>2. PICK on \in BOOLEAN :
        locations' = [locations EXCEPT ![l] = [active |-> on, radius |-> radius, muted |-> muted]]
  BY DEF CreateLocation, UpdateLocation
<1>3. [active |-> on, radius |-> radius, muted |-> muted] \in LocationRow
  BY ConstantsAssumption DEF ConstantsAssumption, LocationRow
<1>4. locations' \in [Locations -> LocationRow \cup {None}]
  BY <1>2, <1>3 DEF IInv, TypeOK
<1>5. \A k \in Locations : Exists(k) => Exists(k)'
  BY <1>2, <1>3, NoneIsNoRow DEF NoneIsNoRow, IInv, TypeOK, Exists
<1>6. TypeOK'
  BY <1>1, <1>4, <1>5 DEF IInv, TypeOK, RiskRow, AlertRow
<1>7. \A w \in Workers : Anchored(w)'
  <2> TAKE w \in Workers
  <2>1. \A r \in work[w].risks : r.location \in Locations
    BY DEF IInv, WorkRow, RiskRow
  <2> QED
    BY <1>1, <1>5, <2>1 DEF IInv, Anchored
<1> QED
  BY <1>1, <1>6, <1>7 DEF IInv

LEMMA DeleteLocationStep ==
    ASSUME IInv, NEW l \in Locations, DeleteLocation(l) PROVE IInv'
<1>1. /\ UNCHANGED <<clock, queue, work>>
      /\ locations' = [locations EXCEPT ![l] = None]
      /\ risks' = {r \in risks : r.location # l}
      /\ alerts' = {a \in alerts : a.location # l}
      /\ requests' \in 0 .. MaxRequests
  BY ConstantsAssumption
  DEF DeleteLocation, Of, Request, IInv, TypeOK, ConstantsAssumption
<1>2. \A k \in Locations : k # l /\ Exists(k) => Exists(k)'
  BY <1>1 DEF IInv, TypeOK, Exists
<1>3. TypeOK'
  <2>1. locations' \in [Locations -> LocationRow \cup {None}]
    BY <1>1 DEF IInv, TypeOK
  <2>2. \A r \in risks' \cup alerts' : Exists(r.location)'
    BY <1>1, <1>2 DEF IInv, TypeOK, RiskRow, AlertRow
  <2> QED
    BY <1>1, <2>1, <2>2 DEF IInv, TypeOK
<1>4. \A w \in Workers : Anchored(w)'
  <2> TAKE w \in Workers
  <2>1. \A r \in work[w].risks : r.location = l => l \in work[w].unflushed
    BY DEF DeleteLocation, Of, IInv, Anchored
  <2>2. \A r \in work[w].risks : r.location \in Locations
    BY DEF IInv, WorkRow, RiskRow
  <2> QED
    BY <1>1, <1>2, <2>1, <2>2 DEF IInv, Anchored
<1> QED
  BY <1>1, <1>3, <1>4 DEF IInv

LEMMA Invariance == ASSUME IInv, [Next]_vars PROVE IInv'
<1>1. CASE UNCHANGED vars
  <2>1. UNCHANGED <<clock, requests, locations, risks, alerts, queue, work>>
    BY <1>1 DEF vars
  <2> QED
    BY <2>1 DEF IInv, TypeOK, Anchored, Exists
<1>2. ASSUME NEW w \in Workers, Cycle(w) PROVE IInv'
  <2>1. CASE CommitFails(w) \/ Kill(w)
    BY <2>1, EndingStep DEF CommitFails, Kill, IInv, TypeOK
  <2>2. ASSUME NEW l \in Locations, FlushFails(w, l) PROVE IInv'
    BY <2>2, EndingStep DEF FlushFails, IInv, TypeOK
  <2> QED
    BY <1>2, <2>1, <2>2, FetchStep, SkipStep, AssessStep, CommitStep, DispatchStep DEF Cycle
<1>3. ASSUME NEW r \in queue, Summarise(r) PROVE IInv'
  BY <1>3 DEF Summarise, IInv, TypeOK, Anchored, Exists
<1>4. CASE Api
  BY <1>4, LocationStep, DeleteLocationStep DEF Api
<1> QED
  BY <1>1, <1>2, <1>3, <1>4 DEF Next

\* Every column keeps its type, and the risks and alerts in the tables belong to
\* a location that exists, however locations are edited and deleted under the
\* cycles and the cycles killed, even when two of them run at once.
THEOREM TypeCorrect == Spec => []TypeOK
<1>1. IInv => TypeOK
  BY DEF IInv
<1> QED
  BY Opening, Invariance, <1>1, PTL DEF Spec

-----------------------------------------------------------------------------
(* Nothing passes nearby *)

\* The locations are near whatever their cycles have seen or said.
KeptNear ==
    /\ \A l \in Locations : Exists(l) => locations[l].radius <= 67
    /\ \A w \in Workers :
          /\ \A l \in work[w].todo : work[w].seen[l] # None /\ work[w].seen[l].radius <= 67
          /\ \A a \in work[w].alerts : a.event # "passed"
    /\ NoneHasPassed

LEMMA KeptNearPreserved ==
    ASSUME \A n \in Radii : n <= 67, IInv, KeptNear, [Next]_vars PROVE KeptNear'
<1>0. \A w \in Workers : work[w] \in WorkRow
  BY DEF IInv
<1>1. CASE UNCHANGED vars
  <2>1. UNCHANGED <<clock, requests, locations, risks, alerts, queue, work>>
    BY <1>1 DEF vars
  <2> QED
    BY <2>1 DEF KeptNear, NoneHasPassed, Exists
<1>2. ASSUME NEW w \in Workers, UNCHANGED <<locations, alerts>>,
             work' = [work EXCEPT ![w] = work'[w]],
             work'[w].todo \subseteq work[w].todo,
             work'[w].todo # {} => work'[w].seen = work[w].seen,
             \A a \in work'[w].alerts : a.event # "passed"
      PROVE  KeptNear'
  <2>1. \A v \in Workers : v # w => work'[v] = work[v]
    BY <1>2 DEF IInv
  <2> QED
    BY <1>2, <2>1 DEF KeptNear, NoneHasPassed, Exists
<1>3. ASSUME NEW w \in Workers, UNCHANGED <<locations, alerts>>,
             work' = [work EXCEPT ![w] = IdleWorker]
      PROVE  KeptNear'
  <2>1. work'[w] = IdleWorker
    BY <1>3 DEF IInv
  <2> QED
    BY <1>2, <1>3, <2>1, IdleWorkerOK
<1>4. ASSUME NEW w \in Workers, Fetch(w) PROVE KeptNear'
  <2>1. /\ work'[w].todo = {l \in Locations : Exists(l) /\ locations[l].active}
        /\ work'[w].seen = locations /\ work'[w].alerts = {}
        /\ \A v \in Workers : v # w => work'[v] = work[v]
    BY <1>4 DEF Fetch, IInv, IdleWorker
  <2>2. UNCHANGED <<locations, alerts>>
    BY <1>4 DEF Fetch
  <2> QED
    BY <2>1, <2>2 DEF KeptNear, NoneHasPassed, Exists
<1>5. ASSUME NEW w \in Workers, NEW l \in Locations, Skip(w, l) PROVE KeptNear'
  <2>1. /\ work'[w] = [work[w] EXCEPT !.todo = @ \ {l}]
        /\ work' = [work EXCEPT ![w] = work'[w]]
        /\ UNCHANGED <<locations, alerts>>
    BY <1>5 DEF Skip, IInv
  <2> QED
    BY <1>0, <1>2, <2>1 DEF KeptNear, WorkRow
<1>6. ASSUME NEW w \in Workers, NEW l \in Locations, Assess(w, l) PROVE KeptNear'
  <2>1. PICK s \in Nearest(w, l) :
           LET row == Assessed(w, l, s)
               alert == AlertFor(w, l, s)
           IN \/ /\ Flushed(row, alert) /\ ~Exists(l)
                 /\ work' = [work EXCEPT ![w] = IdleWorker]
              \/ /\ ~Flushed(row, alert) \/ Exists(l)
                 /\ work' = [work EXCEPT
                       ![w].todo = @ \ {l},
                       ![w].risks = @ \cup {row},
                       ![w].alerts = IF Emitted(w, alert) THEN @ \cup {alert} ELSE @,
                       ![w].unflushed = IF Flushed(row, alert) THEN {} ELSE {l},
                       ![w].tasks = IF Summarised(row) THEN @ \cup {row} ELSE @]
    BY <1>6, Zenon DEF Assess
  <2> DEFINE x == work[w].frame[l][s]
             row == Assessed(w, l, s)
             alert == AlertFor(w, l, s)
  <2>2. l \in work[w].todo /\ UNCHANGED <<locations, alerts>>
    BY <1>6 DEF Assess
  <2>3. x \in Reading /\ x.distance <= 67
    <3>1. /\ x \in Reading /\ x.distance <= work[w].seen[l].radius
          /\ work[w].seen[l] \in LocationRow /\ work[w].seen[l].radius <= 67
      BY <1>0, <2>2 DEF Nearest, InRadius, WorkRow, KeptNear
    <3> QED
      BY <3>1 DEF Reading, LocationRow
  <2>4. alert.event # "passed"
    <3>1. snapshot(x).level # 0
      BY <2>3, NearbyIsNeverGreen DEF snapshot, Level
    <3>2. alert.event = Decision(Previous(w, l), snapshot(x))
      BY DEF AlertFor, Assessed
    <3> QED
      BY <3>1, <3>2, DecisionIsEvent, NoneIsNoRow DEF NoneIsNoRow, EventTypes
  <2> HIDE DEF row, alert
  <2>5. CASE work' = [work EXCEPT ![w] = IdleWorker]
    BY <1>3, <2>2, <2>5
  <2>6. CASE work' = [work EXCEPT
                 ![w].todo = @ \ {l},
                 ![w].risks = @ \cup {row},
                 ![w].alerts = IF Emitted(w, alert) THEN @ \cup {alert} ELSE @,
                 ![w].unflushed = IF Flushed(row, alert) THEN {} ELSE {l},
                 ![w].tasks = IF Summarised(row) THEN @ \cup {row} ELSE @]
    <3>1. /\ work' = [work EXCEPT ![w] = work'[w]]
          /\ work'[w].todo \subseteq work[w].todo
          /\ work'[w].seen = work[w].seen
          /\ \A a \in work'[w].alerts : a \in work[w].alerts \/ a = alert
      <4>1. work' = [work EXCEPT ![w] = work'[w]]
            /\ work'[w] = [work[w] EXCEPT
                  !.todo = @ \ {l}, !.risks = @ \cup {row},
                  !.alerts = IF Emitted(w, alert) THEN @ \cup {alert} ELSE @,
                  !.unflushed = IF Flushed(row, alert) THEN {} ELSE {l},
                  !.tasks = IF Summarised(row) THEN @ \cup {row} ELSE @]
        BY <2>6 DEF IInv
      <4> QED
        BY <1>0, <4>1 DEF WorkRow
    <3> QED
      BY <1>2, <2>2, <2>4, <3>1 DEF KeptNear
  <2> QED
    BY <2>1, <2>5, <2>6 DEF row, alert
<1>7. ASSUME NEW w \in Workers, Commit(w) PROVE KeptNear'
  <2>1. /\ work'[w] = [IdleWorker EXCEPT
                          !.pc = IF work[w].tasks = {} THEN "idle" ELSE "dispatch",
                          !.tasks = work[w].tasks]
        /\ \A v \in Workers : v # w => work'[v] = work[v]
        /\ alerts' = alerts \cup work[w].alerts /\ locations' = locations
    BY <1>7 DEF Commit, IInv
  <2>2. work'[w].todo = {} /\ work'[w].alerts = {}
    BY <2>1, IdleWorkerOK DEF WorkRow
  <2>3. NoneHasPassed'
    BY <2>1 DEF KeptNear, NoneHasPassed
  <2>4. ASSUME NEW v \in Workers
        PROVE  /\ \A l \in work'[v].todo : work'[v].seen[l] # None /\ work'[v].seen[l].radius <= 67
               /\ \A a \in work'[v].alerts : a.event # "passed"
    <3>1. CASE v = w
      BY <2>2, <3>1
    <3>2. CASE v # w
      <4>1. work'[v] = work[v]
        BY <2>1, <3>2
      <4> QED
        BY <4>1 DEF KeptNear
    <3> QED
      BY <3>1, <3>2
  <2>5. \A l \in Locations : Exists(l)' => locations'[l].radius <= 67
    BY <2>1 DEF KeptNear, Exists
  <2> QED
    BY <2>3, <2>4, <2>5 DEF KeptNear
<1>8. ASSUME NEW w \in Workers, Dispatch(w) PROVE KeptNear'
  <2>1. PICK r \in work[w].tasks :
           work' = [work EXCEPT ![w].tasks = @ \ {r},
                                ![w].pc = IF work[w].tasks = {r} THEN "idle" ELSE @]
    BY <1>8 DEF Dispatch
  <2>2. /\ work' = [work EXCEPT ![w] = work'[w]]
        /\ work'[w].todo = work[w].todo /\ work'[w].seen = work[w].seen
        /\ work'[w].alerts = work[w].alerts
    BY <1>0, <2>1 DEF IInv, WorkRow
  <2>3. UNCHANGED <<locations, alerts>>
    BY <1>8 DEF Dispatch
  <2> QED
    BY <1>2, <2>2, <2>3 DEF KeptNear
<1>9. ASSUME NEW w \in Workers,
             CommitFails(w) \/ Kill(w) \/ \E l \in Locations : FlushFails(w, l)
      PROVE  KeptNear'
  BY <1>3, <1>9 DEF FlushFails, CommitFails, Kill
<1>10. CASE \E r \in queue : Summarise(r)
  BY <1>10 DEF Summarise, KeptNear, NoneHasPassed, Exists
<1>11. CASE Api
  <2>1. ASSUME NEW l \in Locations, NEW radius \in Radii, NEW muted \in Muted,
               NEW active \in BOOLEAN,
               CreateLocation(l, radius, muted) \/ UpdateLocation(l, active, radius, muted)
        PROVE  KeptNear'
    <3>1. /\ UNCHANGED <<alerts, work>>
          /\ locations'[l].radius = radius
          /\ \A k \in Locations : k # l => locations'[k] = locations[k]
      BY <2>1 DEF CreateLocation, UpdateLocation, IInv, TypeOK
    <3> QED
      BY <3>1 DEF KeptNear, NoneHasPassed, Exists
  <2>2. ASSUME NEW l \in Locations, DeleteLocation(l) PROVE KeptNear'
    <3>1. /\ UNCHANGED work /\ alerts' \subseteq alerts
          /\ locations'[l] = None
          /\ \A k \in Locations : k # l => locations'[k] = locations[k]
      BY <2>2 DEF DeleteLocation, IInv, TypeOK
    <3> QED
      BY <3>1 DEF KeptNear, NoneHasPassed, Exists
  <2> QED
    BY <1>11, <2>1, <2>2 DEF Api
<1>12. ASSUME NEW w \in Workers, Cycle(w) PROVE KeptNear'
  BY <1>4, <1>5, <1>6, <1>7, <1>8, <1>9, <1>12 DEF Cycle
<1> QED
  BY <1>1, <1>10, <1>11, <1>12 DEF Next

\* Where no radius exceeds 67 km, as with the default of 50, STORM_PASSED is
\* never emitted: an assessed cell always lies within the radius, and the engine
\* never puts one that near below the alert threshold.
THEOREM NothingPassesNearby ==
    ASSUME \A n \in Radii : n <= 67 PROVE Spec => []NoneHasPassed
<1>1. Init => KeptNear
  <2> SUFFICES ASSUME Init PROVE KeptNear
    OBVIOUS
  <2>1. \A l \in Locations : Exists(l) => locations[l].radius <= 67
    BY DEF Init, Exists
  <2> QED
    BY <2>1, IdleWorkerOK DEF Init, KeptNear, NoneHasPassed
<1>2. IInv /\ KeptNear /\ [Next]_vars => IInv' /\ KeptNear'
  BY Invariance, KeptNearPreserved
<1>3. KeptNear => NoneHasPassed
  BY DEF KeptNear
<1> QED
  BY Opening, <1>1, <1>2, <1>3, PTL DEF Spec

-----------------------------------------------------------------------------
(* A summary is asked for what is in the tables *)

\* A cycle asks for summaries of rows of its own, and only once they are
\* committed; what is committed goes only with its location.
TasksStored ==
    /\ \A w \in Workers :
          \A r \in work[w].tasks : IF work[w].pc = "run" THEN r \in work[w].risks
                                   ELSE r \in risks \/ ~Exists(r.location)
    /\ DispatchedRisksExist

\* What an assessment that is not thrown away adds to the cycle.
Records(w, l, s) ==
    LET row == Assessed(w, l, s)
        alert == AlertFor(w, l, s)
    IN /\ work'[w].pc = "run" /\ work'[w].born = work[w].born /\ work'[w].seen = work[w].seen
       /\ work'[w].todo = work[w].todo \ {l}
       /\ work'[w].risks = work[w].risks \cup {row}
       /\ work'[w].alerts = IF Emitted(w, alert) THEN work[w].alerts \cup {alert}
                                                 ELSE work[w].alerts
       /\ work'[w].tasks = IF Summarised(row) THEN work[w].tasks \cup {row} ELSE work[w].tasks

LEMMA AssessEffect ==
    ASSUME IInv, NEW w \in Workers, NEW l \in Locations, Assess(w, l)
    PROVE  /\ work[w].pc = "run" /\ l \in work[w].todo /\ clock' = clock + 1
           /\ UNCHANGED <<requests, locations, risks, alerts, queue>>
           /\ \A v \in Workers \ {w} : work'[v] = work[v]
           /\ \/ work'[w] = IdleWorker
              \/ \E s \in Nearest(w, l) : Records(w, l, s)
<1>1. PICK s \in Nearest(w, l) :
         LET row == Assessed(w, l, s)
             alert == AlertFor(w, l, s)
         IN \/ /\ Flushed(row, alert) /\ ~Exists(l)
               /\ work' = [work EXCEPT ![w] = IdleWorker]
            \/ /\ ~Flushed(row, alert) \/ Exists(l)
               /\ work' = [work EXCEPT
                     ![w].todo = @ \ {l},
                     ![w].risks = @ \cup {row},
                     ![w].alerts = IF Emitted(w, alert) THEN @ \cup {alert} ELSE @,
                     ![w].unflushed = IF Flushed(row, alert) THEN {} ELSE {l},
                     ![w].tasks = IF Summarised(row) THEN @ \cup {row} ELSE @]
  BY Zenon DEF Assess
<1> DEFINE row == Assessed(w, l, s)
           alert == AlertFor(w, l, s)
<1>2. /\ work[w] \in WorkRow /\ work[w].pc = "run" /\ l \in work[w].todo /\ clock' = clock + 1
      /\ UNCHANGED <<requests, locations, risks, alerts, queue>>
  BY DEF IInv, Assess
<1> HIDE DEF row, alert
<1>3. CASE work' = [work EXCEPT ![w] = IdleWorker]
  BY <1>2, <1>3 DEF IInv
<1>4. CASE work' = [work EXCEPT
                 ![w].todo = @ \ {l},
                 ![w].risks = @ \cup {row},
                 ![w].alerts = IF Emitted(w, alert) THEN @ \cup {alert} ELSE @,
                 ![w].unflushed = IF Flushed(row, alert) THEN {} ELSE {l},
                 ![w].tasks = IF Summarised(row) THEN @ \cup {row} ELSE @]
  <2>1. /\ \A v \in Workers \ {w} : work'[v] = work[v]
        /\ work'[w] = [work[w] EXCEPT
              !.todo = @ \ {l}, !.risks = @ \cup {row},
              !.alerts = IF Emitted(w, alert) THEN @ \cup {alert} ELSE @,
              !.unflushed = IF Flushed(row, alert) THEN {} ELSE {l},
              !.tasks = IF Summarised(row) THEN @ \cup {row} ELSE @]
    BY <1>4 DEF IInv
  <2>2. Records(w, l, s)
    BY <1>2, <2>1 DEF WorkRow, Records, row, alert
  <2> QED
    BY <1>2, <2>1, <2>2
<1> QED
  BY <1>1, <1>3, <1>4 DEF row, alert

LEMMA CommitEffect ==
    ASSUME IInv, NEW w \in Workers, Commit(w)
    PROVE  /\ work[w].pc = "run" /\ UNCHANGED <<clock, requests, locations, queue>>
           /\ risks' = risks \cup work[w].risks /\ alerts' = alerts \cup work[w].alerts
           /\ \A r \in work[w].risks : Exists(r.location)
           /\ \A v \in Workers \ {w} : work'[v] = work[v]
           /\ work'[w].pc # "run" /\ work'[w].risks = {} /\ work'[w].alerts = {}
           /\ work'[w].tasks = work[w].tasks
<1> DEFINE tasks == work[w].tasks
<1>1. /\ work'[w] = [IdleWorker EXCEPT !.pc = IF tasks = {} THEN "idle" ELSE "dispatch",
                                       !.tasks = tasks]
      /\ \A v \in Workers \ {w} : work'[v] = work[v]
  BY DEF IInv, Commit
<1>2. /\ work'[w].pc # "run" /\ work'[w].risks = {} /\ work'[w].alerts = {}
      /\ work'[w].tasks = tasks
  BY <1>1 DEF IdleWorker
<1>3. \A r \in work[w].risks : Exists(r.location)
  BY DEF IInv, Anchored, Commit, Flushable
<1> QED
  BY <1>1, <1>2, <1>3 DEF Commit, Evaluated

LEMMA DispatchEffect ==
    ASSUME IInv, NEW w \in Workers, Dispatch(w)
    PROVE  /\ work[w].pc = "dispatch" /\ UNCHANGED <<clock, requests, locations, risks, alerts>>
           /\ \A v \in Workers \ {w} : work'[v] = work[v]
           /\ work'[w].pc # "run" /\ work'[w].tasks \subseteq work[w].tasks
           /\ \A r \in queue' : r \in queue \/ r \in work[w].tasks
<1>1. PICK r \in work[w].tasks :
         /\ queue' = queue \cup {r}
         /\ work' = [work EXCEPT ![w].tasks = @ \ {r},
                                 ![w].pc = IF work[w].tasks = {r} THEN "idle" ELSE @]
  BY DEF Dispatch
<1>2. work[w] \in WorkRow /\ work \in [Workers -> WorkRow]
  BY DEF IInv
<1>3. work'[w] = [work[w] EXCEPT !.tasks = @ \ {r},
                                 !.pc = IF work[w].tasks = {r} THEN "idle" ELSE @]
  BY <1>1, <1>2
<1>4. work[w].pc = "dispatch" /\ UNCHANGED <<clock, requests, locations, risks, alerts>>
  BY DEF Dispatch
<1>5. work'[w].tasks = work[w].tasks \ {r} /\ work'[w].pc \in {"idle", "dispatch"}
  BY <1>2, <1>3, <1>4 DEF WorkRow
<1> QED
  BY <1>1, <1>2, <1>4, <1>5

\* A step that starts a cycle, ends it, or passes a location over.
LEMMA OtherCycleSteps ==
    ASSUME IInv, NEW w \in Workers,
           \/ Fetch(w) \/ CommitFails(w) \/ Kill(w)
           \/ \E l \in Locations : Skip(w, l) \/ FlushFails(w, l)
    PROVE  /\ UNCHANGED <<clock, requests, locations, risks, alerts, queue>>
           /\ \A v \in Workers \ {w} : work'[v] = work[v]
           /\ \/ work'[w] = IdleWorker
              \/ /\ Fetch(w) /\ work'[w].pc = "run" /\ work'[w].born = clock
                 /\ work'[w].seen = locations /\ work'[w].risks = {} /\ work'[w].alerts = {}
                 /\ work'[w].tasks = {} /\ \A l \in work'[w].todo : Exists(l)
              \/ /\ work[w].pc = "run" /\ work'[w].pc = "run" /\ work'[w].born = work[w].born
                 /\ work'[w].seen = work[w].seen /\ work'[w].todo \subseteq work[w].todo
                 /\ work'[w].risks = work[w].risks /\ work'[w].alerts = work[w].alerts
                 /\ work'[w].tasks = work[w].tasks
<1> DEFINE effect ==
       /\ UNCHANGED <<clock, requests, locations, risks, alerts, queue>>
       /\ \A v \in Workers \ {w} : work'[v] = work[v]
       /\ \/ work'[w] = IdleWorker
          \/ /\ Fetch(w) /\ work'[w].pc = "run" /\ work'[w].born = clock
             /\ work'[w].seen = locations /\ work'[w].risks = {} /\ work'[w].alerts = {}
             /\ work'[w].tasks = {} /\ \A l \in work'[w].todo : Exists(l)
          \/ /\ work[w].pc = "run" /\ work'[w].pc = "run" /\ work'[w].born = work[w].born
             /\ work'[w].seen = work[w].seen /\ work'[w].todo \subseteq work[w].todo
             /\ work'[w].risks = work[w].risks /\ work'[w].alerts = work[w].alerts
             /\ work'[w].tasks = work[w].tasks
<1>0. work[w] \in WorkRow /\ work \in [Workers -> WorkRow]
  BY DEF IInv
<1>1. ASSUME Fetch(w) PROVE effect
  <2>1. PICK frame \in Frames \cup {NoFrame} :
          work' = [work EXCEPT ![w] = [IdleWorker EXCEPT
              !.pc = "run", !.frame = frame, !.born = clock, !.seen = locations,
              !.todo = {l \in Locations : Exists(l) /\ locations[l].active}]]
    BY <1>1 DEF Fetch
  <2>2. work'[w] = [pc |-> "run", frame |-> frame, born |-> clock,
                    todo |-> {l \in Locations : Exists(l) /\ locations[l].active},
                    seen |-> locations, risks |-> {}, alerts |-> {},
                    unflushed |-> {}, tasks |-> {}]
    BY <1>0, <2>1 DEF IdleWorker
  <2>3. /\ UNCHANGED <<clock, requests, locations, risks, alerts, queue>>
        /\ \A v \in Workers \ {w} : work'[v] = work[v]
    BY <1>0, <1>1, <2>1 DEF Fetch
  <2> QED
    BY <1>1, <2>2, <2>3
<1>2. ASSUME CommitFails(w) \/ Kill(w) \/ \E l \in Locations : FlushFails(w, l) PROVE effect
  BY <1>0, <1>2 DEF CommitFails, Kill, FlushFails
<1>3. ASSUME NEW l \in Locations, Skip(w, l) PROVE effect
  <2>1. /\ UNCHANGED <<clock, requests, locations, risks, alerts, queue>>
        /\ \A v \in Workers \ {w} : work'[v] = work[v]
        /\ work[w].pc = "run" /\ work'[w] = [work[w] EXCEPT !.todo = @ \ {l}]
    BY <1>0, <1>3 DEF Skip
  <2> QED
    BY <1>0, <2>1 DEF WorkRow
<1> HIDE DEF effect
<1>4. effect
  BY <1>1, <1>2, <1>3
<1> QED
  BY <1>4 DEF effect

\* What the requests do to the rows: an edit keeps them, a deletion takes those
\* of the location with it, and a new location is one nobody refers to.
LEMMA ApiEffect ==
    ASSUME IInv, Api
    PROVE  /\ UNCHANGED <<clock, queue, work>>
           /\ \E l \in Locations :
                 /\ \A k \in Locations \ {l} : locations'[k] = locations[k]
                 /\ \/ UNCHANGED <<risks, alerts>> /\ Exists(l) /\ Exists(l)'
                    \/ UNCHANGED <<risks, alerts>> /\ ~Exists(l) /\ Unreferenced(l)
                    \/ /\ ~Exists(l)'
                       /\ risks' = {r \in risks : r.location # l}
                       /\ alerts' = {a \in alerts : a.location # l}
<1> PICK l \in Locations :
      \/ \E radius \in Radii, muted \in Muted :
           \/ CreateLocation(l, radius, muted)
           \/ \E active \in BOOLEAN : UpdateLocation(l, active, radius, muted)
      \/ DeleteLocation(l)
  BY DEF Api
<1> DEFINE effect == /\ UNCHANGED <<clock, queue, work>>
                     /\ \A k \in Locations \ {l} : locations'[k] = locations[k]
                     /\ \/ UNCHANGED <<risks, alerts>> /\ Exists(l) /\ Exists(l)'
                        \/ UNCHANGED <<risks, alerts>> /\ ~Exists(l) /\ Unreferenced(l)
                        \/ /\ ~Exists(l)'
                           /\ risks' = {r \in risks : r.location # l}
                           /\ alerts' = {a \in alerts : a.location # l}
<1>0. locations \in [Locations -> LocationRow \cup {None}]
  BY DEF IInv, TypeOK
<1>1. ASSUME NEW radius \in Radii, NEW muted \in Muted, CreateLocation(l, radius, muted)
      PROVE  effect
  BY <1>0, <1>1 DEF CreateLocation
<1>2. ASSUME NEW radius \in Radii, NEW muted \in Muted, NEW active \in BOOLEAN,
             UpdateLocation(l, active, radius, muted)
      PROVE  effect
  <2>1. [active |-> active, radius |-> radius, muted |-> muted] # None
    BY ConstantsAssumption, NoneIsNoRow DEF ConstantsAssumption, NoneIsNoRow, LocationRow
  <2> QED
    BY <1>0, <1>2, <2>1 DEF UpdateLocation, Exists
<1>3. ASSUME DeleteLocation(l) PROVE effect
  <2>1. /\ UNCHANGED <<clock, queue, work>> /\ ~Exists(l)'
        /\ \A k \in Locations \ {l} : locations'[k] = locations[k]
    BY <1>0, <1>3 DEF DeleteLocation, Exists
  <2>2. /\ risks' = {r \in risks : r.location # l}
        /\ alerts' = {a \in alerts : a.location # l}
    BY <1>3 DEF DeleteLocation, Of
  <2> QED
    BY <2>1, <2>2
<1> HIDE DEF effect
<1>4. effect
  BY <1>1, <1>2, <1>3
<1> QED
  BY <1>4 DEF effect

LEMMA TasksStoredStep == ASSUME IInv, TasksStored, [Next]_vars PROVE TasksStored'
<1>1. CASE UNCHANGED vars
  BY <1>1 DEF vars, TasksStored, DispatchedRisksExist, Exists
<1>2. ASSUME NEW w \in Workers, UNCHANGED <<locations, risks>>,
             \A v \in Workers \ {w} : work'[v] = work[v],
             \A r \in work'[w].tasks : IF work'[w].pc = "run" THEN r \in work'[w].risks
                                       ELSE r \in risks \/ ~Exists(r.location),
             \A r \in queue' : r \in risks \/ ~Exists(r.location)
      PROVE  TasksStored'
  BY <1>2 DEF TasksStored, DispatchedRisksExist, Exists
<1>3. ASSUME NEW w \in Workers, NEW l \in Locations, Assess(w, l) PROVE TasksStored'
  <2>1. /\ work[w].pc = "run" /\ UNCHANGED <<locations, risks, queue>>
        /\ \A v \in Workers \ {w} : work'[v] = work[v]
        /\ work'[w] = IdleWorker \/ \E s \in Nearest(w, l) : Records(w, l, s)
    BY <1>3, AssessEffect
  <2>2. \A r \in work[w].tasks : r \in work[w].risks
    BY <2>1 DEF TasksStored
  <2>3. CASE work'[w] = IdleWorker
    <3>1. work'[w].tasks = {}
      BY <2>3 DEF IdleWorker
    <3> QED
      BY <1>2, <2>1, <3>1 DEF TasksStored, DispatchedRisksExist
  <2>4. ASSUME NEW s \in Nearest(w, l), Records(w, l, s) PROVE TasksStored'
    <3>1. \A r \in work'[w].tasks : work'[w].pc = "run" /\ r \in work'[w].risks
      BY <2>2, <2>4 DEF Records
    <3> QED
      BY <1>2, <2>1, <3>1 DEF TasksStored, DispatchedRisksExist
  <2> QED
    BY <2>1, <2>3, <2>4
<1>4. ASSUME NEW w \in Workers, Commit(w) PROVE TasksStored'
  <2>1. /\ work[w].pc = "run" /\ UNCHANGED <<locations, queue>>
        /\ risks' = risks \cup work[w].risks
        /\ \A v \in Workers \ {w} : work'[v] = work[v]
        /\ work'[w].pc # "run" /\ work'[w].tasks = work[w].tasks
    BY <1>4, CommitEffect
  <2> QED
    BY <2>1 DEF TasksStored, DispatchedRisksExist, Exists
<1>5. ASSUME NEW w \in Workers, Dispatch(w) PROVE TasksStored'
  <2>1. /\ work[w].pc = "dispatch" /\ UNCHANGED <<locations, risks>>
        /\ \A v \in Workers \ {w} : work'[v] = work[v]
        /\ work'[w].pc # "run" /\ work'[w].tasks \subseteq work[w].tasks
        /\ \A r \in queue' : r \in queue \/ r \in work[w].tasks
    BY <1>5, DispatchEffect
  <2>2. \A r \in queue \cup work[w].tasks : r \in risks \/ ~Exists(r.location)
    BY <2>1 DEF TasksStored, DispatchedRisksExist
  <2> QED
    BY <1>2, <2>1, <2>2
<1>6. ASSUME NEW w \in Workers,
             \/ Fetch(w) \/ CommitFails(w) \/ Kill(w)
             \/ \E l \in Locations : Skip(w, l) \/ FlushFails(w, l)
      PROVE  TasksStored'
  <2>1. /\ UNCHANGED <<locations, risks, queue>> /\ \A v \in Workers \ {w} : work'[v] = work[v]
        /\ \/ work'[w].tasks = {}
           \/ /\ work[w].pc = "run" /\ work'[w].pc = "run"
              /\ work'[w].risks = work[w].risks /\ work'[w].tasks = work[w].tasks
    BY <1>6, OtherCycleSteps DEF IdleWorker
  <2> QED
    BY <1>2, <2>1 DEF TasksStored, DispatchedRisksExist
<1>7. CASE \E r \in queue : Summarise(r)
  BY <1>7 DEF Summarise, TasksStored, DispatchedRisksExist, Exists
<1>8. CASE Api
  <2>1. UNCHANGED <<queue, work>>
    BY <1>8, ApiEffect
  <2>2. PICK l \in Locations :
          /\ \A k \in Locations \ {l} : locations'[k] = locations[k]
          /\ \/ UNCHANGED <<risks, alerts>> /\ Exists(l) /\ Exists(l)'
             \/ UNCHANGED <<risks, alerts>> /\ ~Exists(l) /\ Unreferenced(l)
             \/ /\ ~Exists(l)'
                /\ risks' = {r \in risks : r.location # l}
                /\ alerts' = {a \in alerts : a.location # l}
    BY <1>8, ApiEffect
  <2>3. /\ \A r \in queue : r.location \in Locations
        /\ \A w \in Workers : \A r \in work[w].tasks : r.location \in Locations
    BY DEF IInv, TypeOK, WorkRow, RiskRow
  <2>4. ASSUME NEW r, r.location \in Locations, r \in risks \/ ~Exists(r.location),
               r \in queue \/ \E w \in Workers : r \in work[w].tasks
        PROVE  r \in risks' \/ ~Exists(r.location)'
    BY <2>2, <2>4 DEF Exists, Unreferenced
  <2> QED
    BY <2>1, <2>3, <2>4 DEF TasksStored, DispatchedRisksExist
<1> QED
  BY <1>1, <1>3, <1>4, <1>5, <1>6, <1>7, <1>8 DEF Next, Cycle

\* A summary is asked for a risk that other connections can see, or whose
\* location is gone: never for one that was rolled back, even when two
\* executions run at once.
THEOREM SummariesOfStoredRisks == Spec => []DispatchedRisksExist
<1>1. Init => TasksStored
  BY DEF Init, TasksStored, DispatchedRisksExist, IdleWorker
<1>2. IInv /\ TasksStored /\ [Next]_vars => IInv' /\ TasksStored'
  BY Invariance, TasksStoredStep
<1>3. TasksStored => DispatchedRisksExist
  BY DEF TasksStored
<1> QED
  BY Opening, <1>1, <1>2, <1>3, PTL DEF Spec

-----------------------------------------------------------------------------
(* What a location has been told *)

\* The rows and the alerts of one location, as a transaction sees them.  The
\* latest row is what the engine compares with; the rest is what is promised.
Coherent(rows, told) ==
    /\ rows # {} => \E p \in rows : \A q \in rows : q.at <= p.at
    /\ \A q, r \in rows : q.at = r.at => q = r
    /\ \A r \in rows : r.state.level > 0 =>
          \E a \in told : /\ a.at <= r.at /\ a.level >= r.state.level
                          /\ \A q \in rows : a.at <= q.at /\ q.at <= r.at => q.state.level > 0
    /\ \A r \in rows : \A h \in r.state.hazards :
          \E a \in told : /\ a.at <= r.at
                          /\ \A q \in rows : a.at <= q.at /\ q.at <= r.at => h \in q.state.hazards
    /\ \A q, r \in rows : q.at < r.at /\ q.state.level > 0 /\ r.state.level = 0 =>
          \E a \in told : a.event = "passed" /\ q.at < a.at /\ a.at <= r.at

\* What the cycle's session sees of the alerts.
Told(w) == alerts \cup work[w].alerts

\* One execution at a time: rows of the tables are older than the cycle that
\* runs, and its own are of locations it has seen and is done with.
InOrder(w) ==
    work[w].pc = "run" =>
        /\ work[w].born <= clock
        /\ \A r \in risks \cup alerts : r.at <= work[w].born
        /\ \A r \in work[w].risks \cup work[w].alerts :
              /\ work[w].born < r.at /\ r.at <= clock
              /\ work[w].seen[r.location] # None /\ r.location \notin work[w].todo
        /\ \A a \in work[w].alerts : a.cell[3] = work[w].born
        /\ \A l \in work[w].todo : work[w].seen[l] # None

ToldInv ==
    /\ \A v, w \in Workers : ~Idle(v) /\ ~Idle(w) => v = w
    /\ \A r \in risks \cup alerts : r.at <= clock
    /\ \A a \in alerts : a.cell[3] < a.at
    /\ \A w \in Workers : InOrder(w)
    /\ \A l \in Locations : Exists(l) => Coherent(Of(risks, l), Of(alerts, l))
    /\ \A w \in Workers, l \in Locations :
          work[w].pc = "run" /\ Exists(l) => Coherent(Of(Rows(w), l), Of(Told(w), l))

\* A hazard is active only at a location at risk.
LEMMA HazardsAreRisks ==
    ASSUME NEW x \in Reading, ActiveHazards(x) # {} PROVE Level(x) >= 1
<1> PICK h \in Hazards : 200 * Risk(x)[h] > 99 * Unit
  BY DEF ActiveHazards
<1> DEFINE i == Intensity(x.dbz)
           p == Proximity(x)
           m == Imminence(x)
           risk == Risk(x)[h]
<1>1. /\ x.distance \in Nat /\ (x.eta = Unknown \/ x.eta \in Nat)
      /\ x.dbz \in Nat /\ (x.speed = Unknown \/ x.speed \in Nat)
  BY DEF Reading
<1>2. p \in Nat /\ m \in Nat
  BY <1>1 DEF Proximity, Imminence, Unknown
<1>3. WindSpeed(x) \in Nat /\ Least(x.dbz, 55) \in Nat
  BY <1>1 DEF WindSpeed, Least
<1>4. i \in {20, 50, 75, 100}
  BY Intensities
<1>5. risk \in Int
  <2> HIDE DEF i, p
  <2>1. i \in Int
    BY <1>4
  <2>2. CASE h = "rain"
    BY <1>2, <2>1, <2>2 DEF Risk, i, p
  <2>3. CASE h = "wind"
    BY <1>3, <2>1, <2>3 DEF Risk, i
  <2>4. CASE h = "hail"
    BY <1>3, <2>1, <2>4 DEF Risk, i
  <2>5. CASE h = "lightning"
    BY <1>2, <2>1, <2>5 DEF Risk, i, p
  <2> QED
    BY <2>2, <2>3, <2>4, <2>5 DEF Hazards
<1>6. 6 * risk + 44000 * p + 88000 * m >= 18 * 264000
  <2>1. 200 * risk > 99 * 2640000
    BY DEF Unit
  <2> HIDE DEF risk, p, m
  <2> QED
    BY <1>2, <1>5, <2>1
<1>7. Unit \div 10 = 264000
  BY DEF Unit
<1>8. Reaches(x, 18)
  BY <1>6, <1>7 DEF Reaches
<1> QED
  BY <1>8 DEF Level

\* The engine's next row keeps what is promised: it is announced, or it is at no
\* higher level and has no new hazard.
LEMMA CoherentExtends ==
    ASSUME NEW rows, NEW told, NEW more, NEW row, NEW prev, Coherent(rows, told),
           \A r \in rows : r.at \in Int /\ r.state.level \in Nat /\ r.at < row.at,
           \A a \in told : a.at \in Int /\ a.level \in Int,
           row.at \in Int, row.state.level \in Nat,
           row.state.hazards # {} => row.state.level > 0,
           IF rows = {} THEN prev = None
           ELSE \E p \in rows : /\ \A q \in rows : q.at <= p.at
                                /\ prev = p.state /\ p.state # None,
           told \subseteq more,
           Decision(prev, row.state) # None =>
              \E a \in more : /\ a.at = row.at /\ a.level = row.state.level
                              /\ a.event = Decision(prev, row.state)
    PROVE  Coherent(rows \cup {row}, more)
<1> DEFINE all == rows \cup {row}
<1>1. \A q, r \in all : q.at = r.at => q = r
  BY DEF Coherent
<1>2. all # {} => \E p \in all : \A q \in all : q.at <= p.at
  OBVIOUS
<1>3. ASSUME Decision(prev, row.state) = None, row.state.level > 0
      PROVE  \E p \in rows : /\ \A q \in rows : q.at <= p.at
                             /\ row.state.level <= p.state.level
                             /\ row.state.hazards \subseteq p.state.hazards
  <2>1. prev # None
    BY <1>3, NoneIsNoRow DEF Decision, NoneIsNoRow, EventTypes
  <2>2. PICK p \in rows : (\A q \in rows : q.at <= p.at) /\ prev = p.state
    BY <2>1
  <2>3. ~(row.state.level > prev.level) /\ row.state.hazards \ prev.hazards = {}
    BY <1>3, <2>1, NoneIsNoRow DEF Decision, NoneIsNoRow, EventTypes
  <2> QED
    BY <2>2, <2>3
<1>4. ASSUME NEW r \in all, r.state.level > 0
      PROVE  \E a \in more : /\ a.at <= r.at /\ a.level >= r.state.level
                             /\ \A q \in all : a.at <= q.at /\ q.at <= r.at => q.state.level > 0
  <2>1. CASE r \in rows
    <3>1. PICK a \in told : /\ a.at <= r.at /\ a.level >= r.state.level
                            /\ \A q \in rows : a.at <= q.at /\ q.at <= r.at => q.state.level > 0
      BY <1>4, <2>1 DEF Coherent
    <3> QED
      BY <2>1, <3>1
  <2>2. CASE r = row /\ Decision(prev, row.state) = None
    <3>1. PICK p \in rows : /\ \A q \in rows : q.at <= p.at
                            /\ row.state.level <= p.state.level
      BY <1>3, <1>4, <2>2
    <3>2. PICK a \in told : /\ a.at <= p.at /\ a.level >= p.state.level
                            /\ \A q \in rows : a.at <= q.at /\ q.at <= p.at => q.state.level > 0
      BY <1>4, <2>2, <3>1 DEF Coherent
    <3> QED
      BY <1>4, <2>2, <3>1, <3>2
  <2>3. CASE r = row /\ Decision(prev, row.state) # None
    BY <1>4, <2>3
  <2> QED
    BY <2>1, <2>2, <2>3
<1>5. ASSUME NEW r \in all, NEW h \in r.state.hazards
      PROVE  \E a \in more : /\ a.at <= r.at
                             /\ \A q \in all : a.at <= q.at /\ q.at <= r.at => h \in q.state.hazards
  <2>1. CASE r \in rows
    <3>1. PICK a \in told : /\ a.at <= r.at
                            /\ \A q \in rows : a.at <= q.at /\ q.at <= r.at => h \in q.state.hazards
      BY <2>1 DEF Coherent
    <3> QED
      BY <2>1, <3>1
  <2>2. CASE r = row /\ Decision(prev, row.state) = None
    <3>1. PICK p \in rows : /\ \A q \in rows : q.at <= p.at
                            /\ row.state.hazards \subseteq p.state.hazards
      BY <1>3, <2>2
    <3>2. PICK a \in told : /\ a.at <= p.at
                            /\ \A q \in rows : a.at <= q.at /\ q.at <= p.at => h \in q.state.hazards
      BY <2>2, <3>1 DEF Coherent
    <3> QED
      BY <2>2, <3>1, <3>2
  <2>3. CASE r = row /\ Decision(prev, row.state) # None
    BY <2>3
  <2> QED
    BY <2>1, <2>2, <2>3
<1>6. ASSUME NEW q \in all, NEW r \in all, q.at < r.at, q.state.level > 0, r.state.level = 0
      PROVE  \E a \in more : a.event = "passed" /\ q.at < a.at /\ a.at <= r.at
  <2>1. q \in rows
    BY <1>6
  <2>2. CASE r \in rows
    BY <1>6, <2>1, <2>2 DEF Coherent
  <2>3. CASE r = row
    <3>1. PICK p \in rows : /\ \A k \in rows : k.at <= p.at
                            /\ prev = p.state /\ p.state # None
      BY <2>1
    <3>2. CASE p.state.level > 0
      <4>1. Decision(prev, row.state) = "passed"
        BY <1>6, <2>3, <3>1, <3>2 DEF Decision
      <4> QED
        BY <1>6, <2>3, <4>1, NoneIsNoRow DEF NoneIsNoRow, EventTypes
    <3>3. CASE p.state.level = 0
      <4>1. q.at < p.at
        BY <1>6, <2>1, <3>1, <3>3 DEF Coherent
      <4> QED
        BY <1>6, <2>1, <2>3, <3>1, <3>3, <4>1 DEF Coherent
    <3> QED
      BY <3>1, <3>2, <3>3
  <2> QED
    BY <2>2, <2>3
<1> QED
  BY <1>1, <1>2, <1>4, <1>5, <1>6 DEF Coherent

\* One row and perhaps its alert join what the cycle has seen of the location.
LEMMA AssessTold ==
    ASSUME IInv, ToldInv, NEW w \in Workers, NEW l \in Locations, NEW s \in Nearest(w, l),
           work[w].pc = "run", l \in work[w].todo, clock' = clock + 1, Exists(l),
           UNCHANGED <<risks, alerts>>, Records(w, l, s)
    PROVE  Coherent(Of(Rows(w)', l), Of(Told(w)', l))
<1> DEFINE x == work[w].frame[l][s]
           row == Assessed(w, l, s)
           alert == AlertFor(w, l, s)
           rows == Of(Rows(w), l)
           told == Of(Told(w), l)
           more == Of(Told(w)', l)
<1>1. s \in Storms /\ work[w] \in WorkRow /\ x \in Reading
  BY DEF IInv, Nearest, InRadius, WorkRow
<1>2. /\ row.location = l /\ row.state = snapshot(x) /\ row.at = clock + 1
      /\ row.cell = <<s, w, work[w].born>>
  BY DEF Assessed
<1>3. /\ alert.location = l /\ alert.event = Decision(Previous(w, l), row.state)
      /\ alert.level = row.state.level /\ alert.at = row.at /\ alert.cell = row.cell
  BY DEF AlertFor
<1>4. /\ row.state.level \in Nat /\ (row.state.hazards # {} => row.state.level > 0)
  <2>1. /\ row.state.level = Level(x) /\ row.state.hazards = ActiveHazards(x)
        /\ Level(x) \in Nat
    BY <1>2 DEF snapshot, Level
  <2> QED
    BY <1>1, <2>1, HazardsAreRisks
<1>5. Rows(w) \subseteq RiskRow /\ Told(w) \subseteq AlertRow /\ clock \in Nat
  BY <1>1 DEF IInv, TypeOK, WorkRow, Rows, Told, Stamps
<1>6. Of(Rows(w)', l) = rows \cup {row} /\ told \subseteq more
  BY <1>2 DEF Records, Rows, Told, Of
<1>7. /\ \A r \in Rows(w) \cup Told(w) : r.at <= clock
      /\ \A a \in alerts : a.cell[3] < a.at /\ a.at <= work[w].born
      /\ \A a \in work[w].alerts : a.location # l
  BY <1>1 DEF ToldInv, InOrder, Rows, Told
<1>8. /\ \A r \in rows : /\ r.at \in Int /\ r.state.level \in Nat /\ r.at < row.at
                         /\ r.state # None
      /\ \A a \in more : a.at \in Int /\ a.level \in Int
  <2>1. \A r \in Rows(w) : r.at \in Nat /\ r.state \in State /\ r.state.level \in Nat
    BY <1>5 DEF RiskRow, State, Stamps, RiskLevels
  <2>2. \A a \in Told(w) : a.at \in Nat /\ a.level \in Nat
    BY <1>5 DEF AlertRow, Stamps, RiskLevels
  <2>3. \A a \in Told(w)' : a \in Told(w) \/ a = alert
    BY DEF Records, Told
  <2> HIDE DEF row, alert
  <2> QED
    BY <1>2, <1>3, <1>4, <1>5, <1>7, <2>1, <2>2, <2>3, NoneIsNoRow DEF NoneIsNoRow, Of
<1>9. Coherent(rows, told)
  BY DEF ToldInv
<1>10. IF rows = {} THEN Previous(w, l) = None
       ELSE \E p \in rows : (\A q \in rows : q.at <= p.at) /\ Previous(w, l) = p.state
  <2>1. History(w, l) = rows
    BY DEF History, Of
  <2>2. rows # {} => \E p \in rows : \A q \in rows : q.at <= p.at
    BY <1>9 DEF Coherent
  <2> HIDE DEF rows
  <2> QED
    BY <2>1, <2>2 DEF Previous
<1>11. alert.event # None => alert \in more
  <2>1. ASSUME NEW a \in alerts PROVE ~SameKey(a, alert)
    <3>1. a.cell[3] < work[w].born
      <4>1. a.at \in Nat /\ a.cell[3] \in Nat /\ work[w].born \in Nat
        BY <1>1, <1>5, <2>1 DEF Told, AlertRow, Cells, Stamps, WorkRow
      <4> QED
        BY <1>7, <4>1
    <3>2. alert.cell[3] = work[w].born
      BY <1>2, <1>3
    <3>3. work[w].born \in Nat
      BY <1>1 DEF WorkRow, Stamps
    <3> HIDE DEF row, alert
    <3> QED
      BY <3>1, <3>2, <3>3 DEF SameKey
  <2>2. ASSUME NEW a \in work[w].alerts PROVE ~SameKey(a, alert)
    BY <1>3, <1>7 DEF SameKey
  <2>3. alert.event # None => Emitted(w, alert)
    BY <2>1, <2>2 DEF Emitted
  <2> HIDE DEF row
  <2> QED
    BY <1>3, <2>3 DEF Records, Told, Of
<1> HIDE DEF x, row, alert, rows, told, more
<1>12. Coherent(rows \cup {row}, more)
  <2>1. row.at \in Int
    BY <1>2, <1>5
  <2>2. Decision(Previous(w, l), row.state) # None =>
          \E a \in more : /\ a.at = row.at /\ a.level = row.state.level
                          /\ a.event = Decision(Previous(w, l), row.state)
    BY <1>3, <1>11
  <2>3. \A a \in told : a.at \in Int /\ a.level \in Int
    BY <1>6, <1>8
  <2> DEFINE prev == Previous(w, l)
  <2>4. IF rows = {} THEN prev = None
        ELSE \E p \in rows : /\ \A q \in rows : q.at <= p.at
                             /\ prev = p.state /\ p.state # None
    BY <1>8, <1>10
  <2>5. \A r \in rows : r.at \in Int /\ r.state.level \in Nat /\ r.at < row.at
    BY <1>8
  <2> HIDE DEF prev
  <2> QED
    BY <1>4, <1>6, <1>9, <2>1, <2>2, <2>3, <2>4, <2>5, CoherentExtends DEF prev
<1> QED
  BY <1>6, <1>12 DEF more

\* The rows of a location, and what each cycle in flight sees of them, are all
\* that the promise depends on.
LEMMA ToldOpening == ASSUME Init PROVE ToldInv
<1>1. \A w \in Workers : work[w].pc = "idle"
  BY IdleWorkerOK DEF Init
<1>2. \A l \in Locations : Coherent(Of(risks, l), Of(alerts, l))
  BY DEF Init, Of, Coherent
<1> QED
  BY <1>1, <1>2 DEF Init, ToldInv, InOrder, Idle

LEMMA ToldFetch ==
    ASSUME ~Overlap, IInv, ToldInv, NEW w \in Workers, Fetch(w) PROVE ToldInv'
<1>1. /\ UNCHANGED <<clock, locations, risks, alerts>>
      /\ \A v \in Workers \ {w} : work'[v] = work[v] /\ work[v].pc = "idle"
      /\ work'[w] = IdleWorker \/ work[w].pc = "run"
         \/ /\ work'[w].pc = "run" /\ work'[w].born = clock
            /\ work'[w].seen = locations /\ work'[w].risks = {} /\ work'[w].alerts = {}
            /\ \A l \in work'[w].todo : Exists(l)
  BY OtherCycleSteps DEF Fetch, Idle
<1>2. work[w].pc = "idle" /\ clock \in Nat
  BY DEF Fetch, Idle, IInv, TypeOK, Stamps
<1>3. CASE work'[w].pc = "idle"
  BY <1>1, <1>3 DEF ToldInv, InOrder, Idle, Exists
<1>4. CASE work'[w] # IdleWorker
  <2>1. InOrder(w)'
    BY <1>1, <1>2, <1>4 DEF ToldInv, InOrder, Exists
  <2>2. Rows(w)' = risks /\ Told(w)' = alerts
    BY <1>1, <1>2, <1>4 DEF Rows, Told
  <2> QED
    BY <1>1, <2>1, <2>2 DEF ToldInv, InOrder, Idle, Exists
<1> QED
  BY <1>3, <1>4, IdleWorkerOK

\* Ends, skips, dispatches: nothing is added.
LEMMA ToldQuiet ==
    ASSUME IInv, ToldInv, NEW w \in Workers, UNCHANGED <<clock, locations, risks, alerts>>,
           \A v \in Workers \ {w} : work'[v] = work[v],
           ~Idle(w),
           \/ work'[w].pc # "run"
           \/ /\ work[w].pc = "run" /\ work'[w].born = work[w].born
              /\ work'[w].seen = work[w].seen /\ work'[w].todo \subseteq work[w].todo
              /\ work'[w].risks = work[w].risks /\ work'[w].alerts = work[w].alerts
    PROVE  ToldInv'
<1>1. \A v \in Workers \ {w} : Idle(v) /\ Idle(v)'
  BY DEF ToldInv, Idle
<1>2. InOrder(w)'
  BY DEF ToldInv, InOrder
<1>3. \A l \in Locations : work'[w].pc = "run" /\ Exists(l)' =>
         Coherent(Of(Rows(w)', l), Of(Told(w)', l))
  BY DEF ToldInv, Rows, Told, Exists
<1>4. \A l \in Locations : Exists(l)' => Coherent(Of(risks', l), Of(alerts', l))
  BY DEF ToldInv, Exists
<1> QED
  BY <1>1, <1>2, <1>3, <1>4 DEF ToldInv, InOrder, Idle

LEMMA ToldAssess ==
    ASSUME IInv, ToldInv, NEW w \in Workers, NEW l \in Locations, Assess(w, l) PROVE ToldInv'
<1>1. /\ work[w].pc = "run" /\ l \in work[w].todo /\ clock' = clock + 1
      /\ UNCHANGED <<locations, risks, alerts>>
      /\ \A v \in Workers \ {w} : work'[v] = work[v]
      /\ work'[w] = IdleWorker \/ \E s \in Nearest(w, l) : Records(w, l, s)
  BY AssessEffect
<1>2. \A v \in Workers \ {w} : Idle(v) /\ Idle(v)'
  BY <1>1 DEF ToldInv, Idle
<1>3. /\ clock \in Nat /\ work[w] \in WorkRow /\ work[w].born \in Nat
      /\ \A r \in risks \cup alerts \cup work[w].risks \cup work[w].alerts : r.at \in Nat
  BY DEF IInv, TypeOK, Stamps, WorkRow, RiskRow, AlertRow
<1>4. \A r \in risks \cup alerts : r.at <= clock'
  BY <1>1, <1>3 DEF ToldInv
<1>5. \A k \in Locations : Exists(k)' => Coherent(Of(risks', k), Of(alerts', k))
  BY <1>1 DEF ToldInv, Exists
<1>6. CASE work'[w] = IdleWorker
  BY <1>1, <1>2, <1>4, <1>5, <1>6, IdleWorkerOK DEF ToldInv, InOrder, Idle
<1>7. ASSUME NEW s \in Nearest(w, l), Records(w, l, s) PROVE ToldInv'
  <2> DEFINE row == Assessed(w, l, s)
             alert == AlertFor(w, l, s)
  <2>1. /\ row.location = l /\ row.at = clock + 1
        /\ alert.location = l /\ alert.at = clock + 1 /\ alert.cell[3] = work[w].born
    BY DEF Assessed, AlertFor
  <2> HIDE DEF row, alert
  <2>2. /\ work'[w].pc = "run" /\ work'[w].born = work[w].born /\ work'[w].seen = work[w].seen
        /\ work'[w].todo = work[w].todo \ {l}
        /\ work'[w].risks = work[w].risks \cup {row}
        /\ work[w].alerts \subseteq work'[w].alerts
        /\ \A a \in work'[w].alerts : a \in work[w].alerts \/ a = alert
    BY <1>7 DEF Records, row, alert
  <2>3. InOrder(w)'
    BY <1>1, <1>3, <2>1, <2>2 DEF ToldInv, InOrder
  <2>4. ASSUME NEW k \in Locations, Exists(k)'
        PROVE  Coherent(Of(Rows(w)', k), Of(Told(w)', k))
    <3>1. CASE k = l
      BY <1>1, <1>7, <2>4, <3>1, AssessTold DEF Exists
    <3>2. CASE k # l
      <4>1. Of(Rows(w)', k) = Of(Rows(w), k) /\ Of(Told(w)', k) = Of(Told(w), k)
        BY <1>1, <2>1, <2>2, <3>2 DEF Rows, Told, Of
      <4> QED
        BY <1>1, <2>4, <4>1 DEF ToldInv, Exists
    <3> QED
      BY <3>1, <3>2
  <2> QED
    BY <1>1, <1>2, <1>4, <1>5, <2>3, <2>4 DEF ToldInv, InOrder, Idle
<1> QED
  BY <1>1, <1>6, <1>7

LEMMA ToldCommit ==
    ASSUME IInv, ToldInv, NEW w \in Workers, Commit(w) PROVE ToldInv'
<1>1. /\ work[w].pc = "run" /\ UNCHANGED <<clock, locations>>
      /\ risks' = Rows(w) /\ alerts' = Told(w)
      /\ \A v \in Workers \ {w} : work'[v] = work[v]
      /\ work'[w].pc # "run"
  BY CommitEffect DEF Rows, Told
<1>2. \A v \in Workers \ {w} : Idle(v) /\ Idle(v)'
  BY <1>1 DEF ToldInv, Idle
<1>3. \A r \in Rows(w) \cup Told(w) : r.at <= clock
  BY <1>1 DEF ToldInv, InOrder, Rows, Told
<1>4. \A a \in Told(w) : a.cell[3] < a.at
  BY <1>1 DEF ToldInv, InOrder, Told
<1>5. \A l \in Locations : Exists(l)' => Coherent(Of(risks', l), Of(alerts', l))
  BY <1>1 DEF ToldInv, Exists
<1> QED
  BY <1>1, <1>2, <1>3, <1>4, <1>5 DEF ToldInv, InOrder, Idle

\* A location's rows stay as they are, or all go with it, or there are none yet.
LEMMA ToldApi == ASSUME IInv, ToldInv, Api PROVE ToldInv'
<1>1. UNCHANGED <<clock, work>>
  BY ApiEffect
<1>2. PICK l \in Locations :
        /\ \A k \in Locations \ {l} : locations'[k] = locations[k]
        /\ \/ UNCHANGED <<risks, alerts>> /\ Exists(l) /\ Exists(l)'
           \/ UNCHANGED <<risks, alerts>> /\ ~Exists(l) /\ Unreferenced(l)
           \/ /\ ~Exists(l)'
              /\ risks' = {r \in risks : r.location # l}
              /\ alerts' = {a \in alerts : a.location # l}
  BY ApiEffect
<1>3. \A w \in Workers : InOrder(w)'
  BY <1>1, <1>2 DEF ToldInv, InOrder
<1>4. ASSUME NEW k \in Locations, Exists(k)'
      PROVE  /\ Coherent(Of(risks', k), Of(alerts', k))
             /\ \A w \in Workers : work[w].pc = "run" =>
                   Coherent(Of(Rows(w)', k), Of(Told(w)', k))
  <2>1. CASE Exists(k)
    <3>1. Of(risks', k) = Of(risks, k) /\ Of(alerts', k) = Of(alerts, k)
      BY <1>2, <1>4 DEF Of
    <3>2. \A w \in Workers : /\ Of(Rows(w)', k) = Of(Rows(w), k)
                             /\ Of(Told(w)', k) = Of(Told(w), k)
      BY <1>1, <3>1 DEF Rows, Told, Of
    <3> QED
      BY <2>1, <3>1, <3>2 DEF ToldInv
  <2>2. CASE ~Exists(k)
    <3>1. k = l /\ UNCHANGED <<risks, alerts>> /\ Unreferenced(l)
      BY <1>2, <1>4, <2>2 DEF Exists
    <3>2. Of(risks', k) = {} /\ Of(alerts', k) = {}
      BY <2>2, <3>1 DEF IInv, TypeOK, Of
    <3>3. \A w \in Workers : work[w].pc = "run" =>
             Of(Rows(w)', k) = {} /\ Of(Told(w)', k) = {}
      BY <1>1, <3>1, <3>2 DEF ToldInv, InOrder, Unreferenced, Rows, Told, Of
    <3> QED
      BY <3>2, <3>3 DEF Coherent
  <2> QED
    BY <2>1, <2>2
<1> QED
  BY <1>1, <1>2, <1>3, <1>4 DEF ToldInv, Idle

LEMMA ToldStep == ASSUME ~Overlap, IInv, ToldInv, [Next]_vars PROVE ToldInv'
<1>1. ASSUME UNCHANGED <<clock, locations, risks, alerts, work>> PROVE ToldInv'
  BY <1>1 DEF ToldInv, InOrder, Idle, Exists, Rows, Told
<1>2. ASSUME NEW w \in Workers,
             \/ CommitFails(w) \/ Kill(w)
             \/ \E l \in Locations : Skip(w, l) \/ FlushFails(w, l)
      PROVE  ToldInv'
  <2>1. ~Idle(w) /\ ~Fetch(w)
    BY <1>2 DEF Kill, CommitFails, Evaluated, Skip, FlushFails, Fetch, Idle
  <2> QED
    BY <1>2, <2>1, OtherCycleSteps, IdleWorkerOK, ToldQuiet
<1>3. ASSUME NEW w \in Workers, Dispatch(w) PROVE ToldInv'
  BY <1>3, DispatchEffect, ToldQuiet DEF Idle
<1>4. ASSUME NEW w \in Workers, Cycle(w) PROVE ToldInv'
  BY <1>2, <1>3, <1>4, ToldFetch, ToldAssess, ToldCommit DEF Cycle
<1>5. CASE \E r \in queue : Summarise(r)
  BY <1>1, <1>5 DEF Summarise
<1>6. CASE UNCHANGED vars
  BY <1>1, <1>6 DEF vars
<1> QED
  BY <1>4, <1>5, <1>6, ToldApi DEF Next

LEMMA ToldInvariance == ASSUME ~Overlap PROVE Spec => [](IInv /\ ToldInv)
<1>1. Init => IInv /\ ToldInv
  BY Opening, ToldOpening
<1>2. IInv /\ ToldInv /\ [Next]_vars => (IInv /\ ToldInv)'
  BY Invariance, ToldStep
<1> QED
  BY <1>1, <1>2, PTL DEF Spec

\* What a location has been told covers its rows: what holds of a location's
\* rows and alerts holds of all, since every row's location exists.
LEMMA ToldOf ==
    ASSUME IInv, ToldInv, NEW r \in risks
    PROVE  /\ Coherent(Of(risks, r.location), Of(alerts, r.location))
           /\ r \in Of(risks, r.location)
           /\ \A from : Since(from, r) =
                {q \in Of(risks, r.location) : from <= q.at /\ q.at <= r.at}
<1>1. Exists(r.location) /\ r.location \in Locations
  BY DEF IInv, TypeOK, RiskRow
<1> QED
  BY <1>1 DEF ToldInv, Since, Of

\* With one cycle at a time, a location at risk has been warned at that level or
\* a higher one, and has been at risk ever since the warning: no level is lost
\* to a deduplicated alert, a failed cycle or an edit of the location.
THEOREM RiskIsWarned == ASSUME ~Overlap PROVE Spec => []WarnedAtCurrentLevel
<1>1. ASSUME IInv, ToldInv PROVE WarnedAtCurrentLevel
  <2> SUFFICES ASSUME NEW r \in risks, r.state.level > 0
               PROVE  \E a \in alerts : /\ a.location = r.location /\ a.at <= r.at
                                        /\ a.level >= r.state.level
                                        /\ \A q \in Since(a.at, r) : q.state.level > 0
    BY DEF WarnedAtCurrentLevel
  <2> DEFINE rows == Of(risks, r.location)
  <2>1. PICK a \in Of(alerts, r.location) :
           /\ a.at <= r.at /\ a.level >= r.state.level
           /\ \A q \in rows : a.at <= q.at /\ q.at <= r.at => q.state.level > 0
    BY <1>1, ToldOf DEF Coherent
  <2>2. \A q \in Since(a.at, r) : q \in rows /\ a.at <= q.at /\ q.at <= r.at
    BY <1>1, ToldOf
  <2> QED
    BY <2>1, <2>2 DEF Of
<1> QED
  BY ToldInvariance, <1>1, PTL

\* With one cycle at a time, a hazard that is active at a location was active
\* when an alert told of it, and has been active ever since.
THEOREM HazardsTold == ASSUME ~Overlap PROVE Spec => []HazardsAreTold
<1>1. ASSUME IInv, ToldInv PROVE HazardsAreTold
  <2> SUFFICES ASSUME NEW r \in risks, NEW h \in r.state.hazards
               PROVE  \E a \in alerts : /\ a.location = r.location /\ a.at <= r.at
                                        /\ \A q \in Since(a.at, r) : h \in q.state.hazards
    BY DEF HazardsAreTold
  <2> DEFINE rows == Of(risks, r.location)
  <2>1. PICK a \in Of(alerts, r.location) :
           /\ a.at <= r.at
           /\ \A q \in rows : a.at <= q.at /\ q.at <= r.at => h \in q.state.hazards
    BY <1>1, ToldOf DEF Coherent
  <2>2. \A q \in Since(a.at, r) : q \in rows /\ a.at <= q.at /\ q.at <= r.at
    BY <1>1, ToldOf
  <2> QED
    BY <2>1, <2>2 DEF Of
<1> QED
  BY ToldInvariance, <1>1, PTL

\* With one cycle at a time, a location whose risk has fallen below the
\* threshold has been told that the storm has passed, after the risk and no
\* later than the row that ends it.
THEOREM PassingTold == ASSUME ~Overlap PROVE Spec => []PassingIsTold
<1>1. ASSUME IInv, ToldInv PROVE PassingIsTold
  <2> SUFFICES ASSUME NEW q \in risks, NEW r \in risks, q.location = r.location,
                      q.at < r.at, q.state.level > 0, r.state.level = 0
               PROVE  \E a \in alerts : /\ a.location = r.location /\ a.event = "passed"
                                        /\ q.at < a.at /\ a.at <= r.at
    BY DEF PassingIsTold
  <2>1. \E a \in Of(alerts, r.location) : a.event = "passed" /\ q.at < a.at /\ a.at <= r.at
    BY <1>1, ToldOf DEF Coherent
  <2> QED
    BY <2>1 DEF Of
<1> QED
  BY ToldInvariance, <1>1, PTL

-----------------------------------------------------------------------------
(* The storm engine: sets of numbers *)

\* A set of numbers has a least one.
LEMMA LeastNumber ==
    ASSUME NEW T \in SUBSET Nat, T # {}
    PROVE  \E n \in T : \A m \in T : n <= m
<1> DEFINE R == {p \in Nat \X Nat : p[1] < p[2]}
<1>1. IsWellFoundedOn(R, Nat)
  BY NatLessThanWellFounded, Zenon DEF OpToRel
<1>2. \A x, y \in Nat : <<x, y>> \in R <=> x < y
  OBVIOUS
<1> HIDE DEF R
<1>3. PICK n \in T : \A m \in T : ~(<<m, n>> \in R)
  BY <1>1, WFMin, Zenon
<1>4. ASSUME NEW m \in T PROVE n <= m
  <2>1. m \in Nat /\ n \in Nat
    OBVIOUS
  <2>2. ~(m < n)
    BY <1>2, <1>3, <2>1
  <2> QED
    BY <2>1, <2>2
<1> QED
  BY <1>4

-----------------------------------------------------------------------------
(* Tracks: the cells of a frame in their order *)

Sorts(s, S) == /\ s \in [1 .. Cardinality(S) -> S]
               /\ \A i, j \in DOMAIN s : i < j => s[i] < s[j]

LEMMA FiniteNumbers ==
    ASSUME NEW m \in Nat, NEW S \in SUBSET (1 .. m)
    PROVE  IsFiniteSet(S) /\ Cardinality(S) \in Nat /\ S \subseteq Nat
<1>1. IsFiniteSet(1 .. m)
  BY FS_Interval
<1>2. IsFiniteSet(S)
  BY <1>1, FS_Subset
<1>3. Cardinality(S) \in Nat
  BY <1>2, FS_CardinalityType
<1> QED
  BY <1>2, <1>3

\* A sorted sequence has every element.
LEMMA SortedHasAll ==
    ASSUME NEW m \in Nat, NEW S \in SUBSET (1 .. m), NEW s, Sorts(s, S), NEW a \in S
    PROVE  \E i \in 1 .. Cardinality(S) : s[i] = a
<1> DEFINE D == 1 .. Cardinality(S)
<1>1. /\ IsFiniteSet(S) /\ Cardinality(S) \in Nat /\ S \subseteq Nat
  BY FiniteNumbers
<1>2. IsFiniteSet(D) /\ Cardinality(D) = Cardinality(S)
  BY <1>1, FS_Interval
<1>3. s \in [D -> S] /\ \A i, j \in D : i < j => s[i] < s[j]
  BY DEF Sorts
<1>4. \A i, j \in D : s[i] = s[j] => i = j
  <2> TAKE i, j \in D
  <2>1. s[i] \in Nat /\ s[j] \in Nat /\ i \in Nat /\ j \in Nat
    <3>1. s[i] \in S /\ s[j] \in S
      BY <1>3
    <3>2. D \subseteq Nat
      BY <1>1
    <3> HIDE DEF D
    <3> QED
      BY <1>1, <3>1, <3>2
  <2>2. CASE i < j
    BY <1>3, <2>1, <2>2
  <2>3. CASE j < i
    BY <1>3, <2>1, <2>3
  <2> QED
    BY <2>1, <2>2, <2>3
<1> HIDE DEF D
<1>5. s \in Injection(D, S)
  BY <1>3, <1>4 DEF Injection, IsInjective
<1>6. s \in Surjection(D, S)
  BY <1>1, <1>2, <1>5, FS_Injection
<1> QED
  BY <1>6 DEF Surjection, D

LEMMA OneMore ==
    ASSUME NEW m \in Nat, NEW S \in SUBSET (1 .. m), NEW a \in 1 .. m, \A b \in S : b < a,
           NEW s, Sorts(s, S)
    PROVE  Sorts(s \o <<a>>, S \cup {a})
<1>1. /\ IsFiniteSet(S) /\ Cardinality(S) \in Nat /\ S \subseteq Nat /\ a \in Nat
  BY FiniteNumbers
<1>2. a \notin S
  BY <1>1
<1>3. Cardinality(S \cup {a}) = Cardinality(S) + 1
  BY <1>1, <1>2, FS_AddElement
<1> DEFINE n == Cardinality(S)
           more == s \o <<a>>
<1>4. /\ s \in [1 .. n -> S] /\ \A i, j \in 1 .. n : i < j => s[i] < s[j]
  BY DEF Sorts
<1>5. s \in Seq(S) /\ Len(s) = n
  BY <1>1, <1>4
<1>6. n \in Nat
  BY <1>1
<1> HIDE DEF n
<1>7. /\ more \in [1 .. n + 1 -> S \cup {a}]
      /\ \A i \in 1 .. n : more[i] = s[i]
      /\ more[n + 1] = a
  <2>1. <<a>> \in Seq(S \cup {a}) /\ Len(<<a>>) = 1 /\ s \in Seq(S \cup {a})
    BY <1>5
  <2>2. more \in Seq(S \cup {a}) /\ Len(more) = n + 1
    BY <1>5, <1>6, <2>1
  <2> QED
    <3>1. \A i \in 1 .. n : more[i] = s[i]
      BY <1>5, <1>6, <2>1
    <3>2. more[n + 1] = a
      BY <1>5, <1>6, <2>1
    <3> HIDE DEF more
    <3> QED
      BY <2>2, <3>1, <3>2
<1> HIDE DEF more
<1>8. \A i, j \in 1 .. n + 1 : i < j => more[i] < more[j]
  <2> SUFFICES ASSUME NEW i \in 1 .. n + 1, NEW j \in 1 .. n + 1, i < j
               PROVE  more[i] < more[j]
    OBVIOUS
  <2>1. i \in 1 .. n /\ (j \in 1 .. n \/ j = n + 1)
    BY <1>6
  <2>2. CASE j \in 1 .. n
    BY <1>4, <1>7, <2>1, <2>2
  <2>3. CASE j = n + 1
    <3>1. s[i] \in S
      BY <1>4, <2>1
    <3> QED
      BY <1>7, <2>1, <2>3, <3>1
  <2> QED
    BY <2>1, <2>2, <2>3
<1> QED
  BY <1>3, <1>6, <1>7, <1>8 DEF Sorts, more, n

LEMMA Sortable ==
    ASSUME NEW m \in Nat, NEW S \in SUBSET (1 .. m) PROVE \E s : Sorts(s, S)
<1> DEFINE bad == {n \in Nat : \E T \in SUBSET (1 .. m) : T \subseteq 1 .. n /\ ~\E s : Sorts(s, T)}
<1>1. CASE bad # {}
  <2>1. PICK n \in bad : \A k \in bad : n <= k
    BY <1>1, LeastNumber
  <2>2. PICK T \in SUBSET (1 .. m) : T \subseteq 1 .. n /\ ~\E s : Sorts(s, T)
    OBVIOUS
  <2>3. n \in Nat
    OBVIOUS
  <2>4. T # {}
    <3>1. ASSUME T = {} PROVE Sorts(<<>>, T)
      BY <3>1, FS_EmptySet DEF Sorts
    <3> QED
      BY <2>2, <3>1
  <2>5. n > 0
    <3>1. PICK b \in T : b \in 1 .. n
      BY <2>2, <2>4
    <3> QED
      BY <2>3, <3>1
  <2>6. n - 1 \in Nat /\ ~(n <= n - 1)
    BY <2>3, <2>5
  <2>7. n - 1 \notin bad
    BY <2>1, <2>6
  <2>8. \A U \in SUBSET (1 .. m) : U \subseteq 1 .. (n - 1) => \E s : Sorts(s, U)
    BY <2>6, <2>7
  <2> HIDE DEF bad
  <2>9. PICK s : Sorts(s, T \ {n})
    <3>1. T \ {n} \subseteq 1 .. (n - 1)
      BY <2>2, <2>3
    <3> QED
      BY <2>8, <3>1
  <2>10. n \in T
    <3>1. ASSUME n \notin T PROVE FALSE
      BY <2>2, <2>9, <3>1
    <3> QED
      BY <3>1
  <2>11. \A b \in T \ {n} : b < n
    BY <2>2, <2>3
  <2>12. Sorts(s \o <<n>>, (T \ {n}) \cup {n})
    BY <2>9, <2>10, <2>11, OneMore
  <2>13. (T \ {n}) \cup {n} = T
    BY <2>10
  <2> QED
    BY <2>2, <2>12, <2>13
<1>2. CASE bad = {}
  <2>1. m \notin bad
    BY <1>2
  <2> QED
    BY <2>1
<1> QED
  BY <1>1, <1>2

LEMMA AscendingSorts ==
    ASSUME NEW m \in Nat, NEW S \in SUBSET (1 .. m)
    PROVE  Sorts(Ascending(S), S)
<1>1. \E s \in [1 .. Cardinality(S) -> S] : \A i, j \in DOMAIN s : i < j => s[i] < s[j]
  BY Sortable DEF Sorts
<1> QED
  BY <1>1 DEF Ascending, Sorts

\* A set of numbers up to m has a greatest one.
LEMMA LargestOne ==
    ASSUME NEW m \in Nat, NEW S \in SUBSET (1 .. m), S # {}
    PROVE  Max(S) \in S
<1> DEFINE T == {k \in Nat : \A y \in S : y <= k}
<1>1. S \subseteq Nat /\ m \in T
  OBVIOUS
<1>2. PICK k \in T : \A j \in T : k <= j
  BY <1>1, LeastNumber
<1>3. k \in S
  <2> SUFFICES ASSUME k \notin S PROVE FALSE
    OBVIOUS
  <2>1. PICK y \in S : TRUE
    OBVIOUS
  <2>2. k \in Nat /\ k - 1 \in Nat
    <3>1. y \in Nat /\ y >= 1 /\ y <= k /\ k \in Nat
      BY <1>1, <1>2, <2>1
    <3> QED
      BY <3>1
  <2>3. \A x \in S : x <= k - 1
    BY <1>1, <2>2
  <2>4. k - 1 \in T
    BY <2>2, <2>3
  <2> QED
    BY <1>2, <2>2, <2>4
<1>4. \A y \in S : k >= y
  BY <1>1
<1> QED
  BY <1>3, <1>4 DEF Max

-----------------------------------------------------------------------------
(* Tracks: who takes which cell *)

\* A nearest cell that is near enough, or none is.
LEMMA NearestOrNone ==
    ASSUME NEW m \in Nat, NEW left \in SUBSET (1 .. m), NEW frame, NEW ref,
           ref.km \in Int, \A i \in left : frame[i].km \in Int,
           NEW x, x = NearestOf(ref, frame, left)
    PROVE  \/ x = 0 /\ \A i \in left : Apart(ref, frame[i]) > MaxAssociation
           \/ x \in left /\ Apart(ref, frame[x]) <= MaxAssociation
<1> DEFINE near == {i \in left : Apart(ref, frame[i]) <= MaxAssociation}
           best == {i \in near : \A j \in near : Apart(ref, frame[i]) <= Apart(ref, frame[j])}
           far == {Apart(ref, frame[i]) : i \in near}
<1>1. \A i \in left : Apart(ref, frame[i]) \in Nat
  BY DEF Apart, Length
<1>2. CASE near = {}
  <2>1. x = 0
    BY <1>2 DEF NearestOf
  <2>2. \A i \in left : ~(Apart(ref, frame[i]) <= MaxAssociation)
    BY <1>2
  <2> QED
    BY <1>1, <2>1, <2>2 DEF MaxAssociation
<1>3. CASE near # {}
  <2>1. far \in SUBSET Nat /\ far # {}
    BY <1>1, <1>3
  <2>2. PICK d \in far : \A e \in far : d <= e
    BY <2>1, LeastNumber
  <2>3. best # {}
    <3>1. PICK i \in near : d = Apart(ref, frame[i])
      BY <2>2
    <3>2. \A j \in near : d <= Apart(ref, frame[j])
      BY <2>2
    <3>3. i \in best
      BY <3>1, <3>2
    <3> QED
      BY <3>3
  <2>4. best \in SUBSET (1 .. m)
    OBVIOUS
  <2>5. x = Max(best)
    BY <1>3 DEF NearestOf
  <2> HIDE DEF best
  <2>6. x \in best
    BY <2>3, <2>4, <2>5, LargestOne
  <2> QED
    BY <2>6 DEF best
<1> QED
  BY <1>2, <1>3

LeftStep(old, frame, left, t) ==
    IF t = 0 THEN DOMAIN frame
    ELSE LET before == left[t - 1] IN before \ {NearestOf(Last(old[t]), frame, before)}

\* The recursion has a value up to every track.
LEMMA LeftIsDefined ==
    ASSUME NEW old, NEW frame, NEW n \in Nat
    PROVE  \E left : left = [t \in 0 .. n |-> LeftStep(old, frame, left, t)]
<1> DEFINE T == {k \in Nat : ~ \E left : left = [t \in 0 .. k |-> LeftStep(old, frame, left, t)]}
<1> SUFFICES ASSUME T # {} PROVE FALSE
  OBVIOUS
<1>1. PICK k \in T : \A j \in T : k <= j
  BY LeastNumber
<1>2. k \in Nat /\ ~ \E left : left = [t \in 0 .. k |-> LeftStep(old, frame, left, t)]
  OBVIOUS
<1>3. CASE k = 0
  <2> DEFINE f == [t \in 0 .. 0 |-> DOMAIN frame]
  <2>1. f = [t \in 0 .. 0 |-> LeftStep(old, frame, f, t)]
    BY DEF LeftStep
  <2> QED
    BY <1>2, <1>3, <2>1
<1>4. CASE k # 0
  <2>1. k - 1 \in Nat /\ k - 1 \notin T
    BY <1>1, <1>2, <1>4
  <2>2. PICK f : f = [t \in 0 .. k - 1 |-> LeftStep(old, frame, f, t)]
    BY <2>1
  <2> HIDE DEF T
  <2> DEFINE g == [t \in 0 .. k |-> IF t = k THEN LeftStep(old, frame, f, k) ELSE f[t]]
  <2>3. \A t \in 0 .. k : g[t] = LeftStep(old, frame, g, t)
    <3> TAKE t \in 0 .. k
    <3>1. t # 0 => t - 1 \in 0 .. k /\ t - 1 # k /\ g[t - 1] = f[t - 1]
      BY <1>2
    <3>2. t = k => g[t] = LeftStep(old, frame, f, t)
      BY <1>2
    <3>3. t # k => g[t] = f[t] /\ f[t] = LeftStep(old, frame, f, t)
      <4>1. t # k => t \in 0 .. k - 1
        BY <1>2
      <4>2. \A s \in 0 .. k - 1 : f[s] = LeftStep(old, frame, f, s)
        BY <2>2
      <4> QED
        BY <4>1, <4>2
    <3> HIDE DEF g
    <3>4. LeftStep(old, frame, f, t) = LeftStep(old, frame, g, t)
      BY <3>1 DEF LeftStep
    <3> QED
      BY <3>2, <3>3, <3>4
  <2>4. g = [t \in 0 .. k |-> g[t]]
    OBVIOUS
  <2> HIDE DEF g
  <2>5. g = [t \in 0 .. k |-> LeftStep(old, frame, g, t)]
    BY <2>3, <2>4
  <2> QED
    BY <1>2, <2>5
<1> QED
  BY <1>3, <1>4

LEMMA LeftSteps ==
    ASSUME NEW old, Len(old) \in Nat, NEW frame
    PROVE  /\ LeftBy(old, frame)[0] = DOMAIN frame
           /\ \A t \in 1 .. Len(old) : LeftBy(old, frame)[t] =
                 LeftBy(old, frame)[t - 1] \ {Taken(old, frame, t)}
<1> DEFINE n == Len(old)
           all == CHOOSE left : left = [t \in 0 .. n |-> LeftStep(old, frame, left, t)]
<1>1. all = [t \in 0 .. n |-> LeftStep(old, frame, all, t)]
  BY LeftIsDefined
<1>2. LeftBy(old, frame) = all
  BY DEF LeftBy, LeftStep
<1> HIDE DEF all
<1>3. all[0] = DOMAIN frame
  BY <1>1 DEF LeftStep
<1>4. \A t \in 1 .. n : all[t] = all[t - 1] \ {NearestOf(Last(old[t]), frame, all[t - 1])}
  <2> TAKE t \in 1 .. n
  <2>1. t \in 0 .. n /\ t # 0
    OBVIOUS
  <2>2. all[t] = LeftStep(old, frame, all, t)
    BY <1>1, <2>1
  <2> QED
    BY <2>1, <2>2 DEF LeftStep
<1>5. \A t \in 1 .. n :
        Taken(old, frame, t) = NearestOf(Last(old[t]), frame, all[t - 1])
  BY <1>2 DEF Taken
<1> QED
  BY <1>2, <1>3, <1>4, <1>5

\* The cells left only become fewer.
LEMMA LeftShrinks ==
    ASSUME NEW old, Len(old) \in Nat, NEW frame,
           NEW s \in 0 .. Len(old), NEW t \in 0 .. Len(old), s <= t
    PROVE  LeftBy(old, frame)[t] \subseteq LeftBy(old, frame)[s]
<1> DEFINE left == LeftBy(old, frame)
           T == {k \in Nat : s + k <= Len(old) /\ ~(left[s + k] \subseteq left[s])}
<1>1. \A k \in 1 .. Len(old) : left[k] \subseteq left[k - 1]
  BY LeftSteps
<1> HIDE DEF left
<1>2. CASE T = {}
  <2>1. t - s \in Nat /\ s + (t - s) = t /\ t - s \notin T
    BY <1>2
  <2> QED
    BY <2>1 DEF left
<1>3. CASE T # {}
  <2>1. PICK k \in T : \A j \in T : k <= j
    BY <1>3, LeastNumber
  <2>2. k \in Nat /\ s + k <= Len(old) /\ ~(left[s + k] \subseteq left[s])
    OBVIOUS
  <2>3. k # 0
    <3>1. k = 0 => s + k = s
      OBVIOUS
    <3> QED
      BY <2>2, <3>1
  <2>4. k - 1 \in Nat /\ s + (k - 1) <= Len(old) /\ ~(k <= k - 1)
    BY <2>2, <2>3
  <2>5. left[s + (k - 1)] \subseteq left[s]
    BY <2>1, <2>4
  <2>6. s + k \in 1 .. Len(old) /\ (s + k) - 1 = s + (k - 1)
    BY <2>2, <2>3
  <2>7. left[s + k] \subseteq left[s + (k - 1)]
    BY <1>1, <2>6
  <2> QED
    BY <2>2, <2>5, <2>7
<1> QED
  BY <1>2, <1>3

\* A frame: observations under numbers up to m; and tracks that end somewhere.
FrameOver(frame, old, m) ==
    /\ m \in Nat /\ DOMAIN frame \in SUBSET (1 .. m)
    /\ \A i \in DOMAIN frame : frame[i].km \in Int
    /\ Len(old) \in Nat
    /\ \A t \in 1 .. Len(old) : Last(old[t]).km \in Int

Far(a, b) == Apart(a, b) > MaxAssociation

\* What a track takes was left for it and is near; what it does not take is far.
LEMMA TakenIsLeft ==
    ASSUME NEW m, NEW old, NEW frame, FrameOver(frame, old, m), NEW t \in 1 .. Len(old)
    PROVE  LET c == Taken(old, frame, t)
               left == LeftBy(old, frame)[t - 1]
           IN  /\ left \in SUBSET (DOMAIN frame)
               /\ \/ c = 0 /\ \A i \in left : Far(Last(old[t]), frame[i])
                  \/ c \in left /\ Apart(Last(old[t]), frame[c]) <= MaxAssociation
<1> DEFINE left == LeftBy(old, frame)[t - 1]
           c == Taken(old, frame, t)
<1>1. /\ Len(old) \in Nat /\ m \in Nat /\ DOMAIN frame \in SUBSET (1 .. m)
      /\ \A i \in DOMAIN frame : frame[i].km \in Int
      /\ Last(old[t]).km \in Int
  BY DEF FrameOver
<1>2. left \subseteq DOMAIN frame
  <2>1. 0 \in 0 .. Len(old) /\ t - 1 \in 0 .. Len(old) /\ 0 <= t - 1
    BY <1>1
  <2>2. left \subseteq LeftBy(old, frame)[0]
    BY <1>1, <2>1, LeftShrinks
  <2> QED
    BY <1>1, <2>2, LeftSteps
<1>3. c = NearestOf(Last(old[t]), frame, left)
  BY DEF Taken
<1> HIDE DEF left, c
<1>4. left \in SUBSET (1 .. m) /\ \A i \in left : frame[i].km \in Int
  BY <1>1, <1>2
<1>5. \/ c = 0 /\ \A i \in left : Apart(Last(old[t]), frame[i]) > MaxAssociation
      \/ c \in left /\ Apart(Last(old[t]), frame[c]) <= MaxAssociation
  BY <1>1, <1>3, <1>4, NearestOrNone
<1> QED
  BY <1>2, <1>5 DEF left, c, Far

\* No cell is taken twice, none that was taken is left, and the rest are.
LEMMA TakenOnce ==
    ASSUME NEW m, NEW old, NEW frame, FrameOver(frame, old, m)
    PROVE  LET rest == LeftBy(old, frame)[Len(old)]
               c(t) == Taken(old, frame, t)
           IN  /\ rest \in SUBSET (DOMAIN frame)
               /\ \A t, u \in 1 .. Len(old) : c(t) # 0 /\ c(t) = c(u) => t = u
               /\ \A t \in 1 .. Len(old) : c(t) \notin rest
               /\ \A t \in 1 .. Len(old), i \in rest :
                    c(t) = 0 => Far(Last(old[t]), frame[i])
               /\ \A i \in (DOMAIN frame) \ rest : \E t \in 1 .. Len(old) : c(t) = i
<1> DEFINE left == LeftBy(old, frame)
           c(t) == Taken(old, frame, t)
           n == Len(old)
<1>1. n \in Nat /\ m \in Nat /\ DOMAIN frame \in SUBSET (1 .. m)
  BY DEF FrameOver
<1>2. /\ left[0] = DOMAIN frame
      /\ \A t \in 1 .. n : left[t] = left[t - 1] \ {c(t)}
  BY <1>1, LeftSteps
<1>3. \A s, t \in 0 .. n : s <= t => left[t] \subseteq left[s]
  BY <1>1, LeftShrinks
<1>4. \A t \in 1 .. n :
        /\ left[t - 1] \in SUBSET (DOMAIN frame)
        /\ \/ c(t) = 0 /\ \A i \in left[t - 1] : Far(Last(old[t]), frame[i])
           \/ c(t) \in left[t - 1]
  BY TakenIsLeft
<1> HIDE DEF left, c, n
<1>5. \A t, u \in 1 .. n : t < u => c(t) # c(u) \/ c(u) = 0
  <2> SUFFICES ASSUME NEW t \in 1 .. n, NEW u \in 1 .. n, t < u, c(u) # 0
               PROVE  c(t) # c(u)
    OBVIOUS
  <2>1. t \in 0 .. n /\ u - 1 \in 0 .. n /\ t <= u - 1
    BY <1>1
  <2>2. left[u - 1] \subseteq left[t]
    BY <1>3, <2>1
  <2>3. c(t) \notin left[t] /\ c(u) \in left[u - 1]
    BY <1>2, <1>4
  <2> QED
    BY <2>2, <2>3
<1>6. \A t, u \in 1 .. n : c(t) # 0 /\ c(t) = c(u) => t = u
  <2> SUFFICES ASSUME NEW t \in 1 .. n, NEW u \in 1 .. n, c(t) # 0, c(t) = c(u), t # u
               PROVE  FALSE
    OBVIOUS
  <2>1. t < u \/ u < t
    BY <1>1
  <2> QED
    BY <1>5, <2>1
<1>7. \A t \in 1 .. n : left[n] \subseteq left[t] /\ left[n] \subseteq left[t - 1]
  <2> TAKE t \in 1 .. n
  <2>1. t \in 0 .. n /\ t - 1 \in 0 .. n /\ n \in 0 .. n /\ t <= n /\ t - 1 <= n
    BY <1>1
  <2> QED
    BY <1>3, <2>1
<1>8. \A t \in 1 .. n : c(t) \notin left[n]
  BY <1>2, <1>7
<1>9. left[n] \subseteq DOMAIN frame
  <2>1. 0 \in 0 .. n /\ n \in 0 .. n /\ 0 <= n
    BY <1>1
  <2> QED
    BY <1>2, <1>3, <2>1
<1>10. \A t \in 1 .. n, i \in left[n] : c(t) = 0 => Far(Last(old[t]), frame[i])
  <2> SUFFICES ASSUME NEW t \in 1 .. n, NEW i \in left[n], c(t) = 0
               PROVE  Far(Last(old[t]), frame[i])
    OBVIOUS
  <2>1. i \in left[t - 1]
    BY <1>7
  <2>2. i \in 1 .. m
    BY <1>1, <1>9
  <2>3. left[t - 1] \in SUBSET (1 .. m)
    BY <1>1, <1>4
  <2>4. 0 \notin left[t - 1]
    BY <1>1, <2>3
  <2> QED
    BY <1>4, <2>1, <2>4
<1>11. \A i \in (DOMAIN frame) \ left[n] : \E t \in 1 .. n : c(t) = i
  <2> TAKE i \in (DOMAIN frame) \ left[n]
  <2> DEFINE T == {k \in Nat : k <= n /\ i \notin left[k]}
  <2>1. n \in T /\ T \in SUBSET Nat
    BY <1>1
  <2>2. PICK k \in T : \A j \in T : k <= j
    BY <2>1, LeastNumber
  <2>3. k \in Nat /\ k <= n /\ i \notin left[k]
    OBVIOUS
  <2>4. k # 0
    BY <1>2, <2>3
  <2>5. k - 1 \in Nat /\ k - 1 <= n /\ ~(k <= k - 1) /\ k \in 1 .. n
    BY <1>1, <2>3, <2>4
  <2>6. i \in left[k - 1]
    BY <2>2, <2>5
  <2>7. left[k] = left[k - 1] \ {c(k)}
    BY <1>2, <2>5
  <2>8. c(k) = i
    BY <2>3, <2>6, <2>7
  <2> QED
    BY <2>5, <2>8
<1> QED
  BY <1>6, <1>8, <1>9, <1>10, <1>11 DEF left, c, n

-----------------------------------------------------------------------------
(* Tracks: what a frame does to them *)

\* The tracks after a frame: took[t] is the cell track t takes, 0 for none.  A track
\* takes one that is near, or leaves only what is far; the rest begin tracks.
Extends(old, frame, new, took) ==
    /\ new \in Seq(Range(new)) /\ Len(old) <= Len(new)
    /\ \A t \in 1 .. Len(old) :
         \/ took[t] = 0 /\ new[t] = old[t]
         \/ /\ took[t] \in DOMAIN frame
            /\ new[t] = Append(old[t], frame[took[t]])
            /\ Apart(Last(old[t]), frame[took[t]]) <= MaxAssociation
    /\ \A t \in DOMAIN new : t > Len(old) =>
         took[t] \in DOMAIN frame /\ new[t] = <<frame[took[t]]>>
    /\ \A t, u \in DOMAIN new : took[t] # 0 /\ took[t] = took[u] => t = u
    /\ \A i \in DOMAIN frame : \E t \in DOMAIN new : took[t] = i
    /\ \A t, u \in DOMAIN new :
         t <= Len(old) /\ took[t] = 0 /\ u > Len(old) => Far(Last(old[t]), frame[took[u]])

LEMMA ConsumeExtends ==
    ASSUME NEW m, NEW old, NEW frame, FrameOver(frame, old, m)
    PROVE  \E took : Extends(old, frame, Consume(old, frame), took)
<1> DEFINE n == Len(old)
           rest == LeftBy(old, frame)[Len(old)]
           k == Cardinality(rest)
           born == Ascending(rest)
           c(t) == Taken(old, frame, t)
           new == Consume(old, frame)
           took == [t \in 1 .. n + k |-> IF t > n THEN born[t - n] ELSE c(t)]
<1>1. n \in Nat /\ m \in Nat /\ DOMAIN frame \in SUBSET (1 .. m)
  BY DEF FrameOver
<1>2. /\ rest \in SUBSET (DOMAIN frame)
      /\ \A t, u \in 1 .. n : c(t) # 0 /\ c(t) = c(u) => t = u
      /\ \A t \in 1 .. n : c(t) \notin rest
      /\ \A t \in 1 .. n, i \in rest : c(t) = 0 => Far(Last(old[t]), frame[i])
      /\ \A i \in (DOMAIN frame) \ rest : \E t \in 1 .. n : c(t) = i
  BY TakenOnce
<1>3. \A t \in 1 .. n : \/ c(t) = 0
                        \/ /\ c(t) \in DOMAIN frame
                           /\ Apart(Last(old[t]), frame[c(t)]) <= MaxAssociation
  BY TakenIsLeft
<1>4. new = [t \in 1 .. n + k |->
               IF t > n THEN <<frame[born[t - n]]>>
               ELSE IF c(t) = 0 THEN old[t] ELSE Append(old[t], frame[c(t)])]
  BY DEF Consume
<1> HIDE DEF n, rest, born, c, new
<1>5. rest \in SUBSET (1 .. m) /\ rest \subseteq Nat
  BY <1>1, <1>2
<1>6. k \in Nat /\ IsFiniteSet(rest)
  BY <1>1, <1>5, FiniteNumbers
<1>7. Sorts(born, rest)
  BY <1>1, <1>5, AscendingSorts DEF born
<1>8. \A i \in rest : \E j \in 1 .. k : born[j] = i
  <2>1. \A S \in SUBSET (1 .. m) : \A s : Sorts(s, S) =>
          \A a \in S : \E j \in 1 .. Cardinality(S) : s[j] = a
    BY <1>1, SortedHasAll, Zenon
  <2>2. \A s : Sorts(s, rest) => \A a \in rest : \E j \in 1 .. Cardinality(rest) : s[j] = a
    BY <1>5, <2>1, Zenon
  <2>3. \A a \in rest : \E j \in 1 .. Cardinality(rest) : born[j] = a
    BY <1>7, <2>2, Zenon
  <2> QED
    BY <2>3 DEF k
<1>9. born \in [1 .. k -> rest] /\ \A i, j \in 1 .. k : i < j => born[i] < born[j]
  <2>1. born \in [1 .. k -> rest]
    BY <1>7 DEF Sorts
  <2>2. \A i, j \in DOMAIN born : i < j => born[i] < born[j]
    BY <1>7 DEF Sorts
  <2> HIDE DEF k
  <2>3. DOMAIN born = 1 .. k
    BY <2>1
  <2> QED
    BY <2>1, <2>2, <2>3
<1> HIDE DEF k
<1>10. \A i, j \in 1 .. k : born[i] = born[j] => i = j
  <2> TAKE i, j \in 1 .. k
  <2>1. born[i] \in Nat /\ born[j] \in Nat
    BY <1>5, <1>9
  <2>2. i < j \/ j < i \/ i = j
    BY <1>6
  <2> QED
    BY <1>9, <2>1, <2>2
<1>11. /\ DOMAIN new = 1 .. n + k /\ n + k \in Nat /\ Len(new) = n + k /\ n <= n + k
       /\ new \in Seq(Range(new))
  <2>1. DOMAIN new = 1 .. n + k /\ n + k \in Nat /\ n <= n + k
    BY <1>1, <1>4, <1>6
  <2>2. new \in [1 .. n + k -> Range(new)]
    BY <1>4, <2>1 DEF Range
  <2> QED
    BY <2>1, <2>2
<1>12. \A t \in 1 .. n : t \in 1 .. n + k /\ ~(t > n) /\ took[t] = c(t)
  BY <1>1, <1>6
<1>13. \A t \in 1 .. n + k : t > n => t - n \in 1 .. k /\ took[t] = born[t - n]
  BY <1>1, <1>6
<1>14. \A t \in 1 .. n + k : t \in 1 .. n \/ t > n
  BY <1>1, <1>6
<1>15. \A j \in 1 .. k : n + j \in 1 .. n + k /\ took[n + j] = born[j]
  <2> TAKE j \in 1 .. k
  <2>1. n + j \in 1 .. n + k /\ n + j > n /\ (n + j) - n = j
    BY <1>1, <1>6
  <2> QED
    BY <1>13, <2>1
<1> HIDE DEF took
<1>16. \A t \in 1 .. n :
         \/ took[t] = 0 /\ new[t] = old[t]
         \/ /\ took[t] \in DOMAIN frame
            /\ new[t] = Append(old[t], frame[took[t]])
            /\ Apart(Last(old[t]), frame[took[t]]) <= MaxAssociation
  <2> TAKE t \in 1 .. n
  <2>1. new[t] = IF c(t) = 0 THEN old[t] ELSE Append(old[t], frame[c(t)])
    BY <1>4, <1>12
  <2> QED
    BY <1>3, <1>12, <2>1
<1>17. \A t \in 1 .. n + k : t > n =>
         took[t] \in rest /\ took[t] \in DOMAIN frame /\ new[t] = <<frame[took[t]]>>
  <2> SUFFICES ASSUME NEW t \in 1 .. n + k, t > n
               PROVE  /\ took[t] \in rest /\ took[t] \in DOMAIN frame
                      /\ new[t] = <<frame[took[t]]>>
    OBVIOUS
  <2>1. t - n \in 1 .. k /\ took[t] = born[t - n]
    BY <1>13
  <2>2. born[t - n] \in rest
    BY <1>9, <2>1
  <2>3. new[t] = <<frame[born[t - n]]>>
    BY <1>4
  <2> QED
    BY <1>2, <2>1, <2>2, <2>3
<1>18. \A t, u \in 1 .. n + k : took[t] # 0 /\ took[t] = took[u] => t = u
  <2> SUFFICES ASSUME NEW t \in 1 .. n + k, NEW u \in 1 .. n + k,
                      took[t] # 0, took[t] = took[u]
               PROVE  t = u
    OBVIOUS
  <2>1. CASE t \in 1 .. n /\ u \in 1 .. n
    BY <1>2, <1>12, <2>1
  <2>2. CASE t \in 1 .. n /\ u > n
    BY <1>2, <1>12, <1>17, <2>2
  <2>3. CASE t > n /\ u \in 1 .. n
    BY <1>2, <1>12, <1>17, <2>3
  <2>4. CASE t > n /\ u > n
    <3>1. t - n = u - n
      BY <1>10, <1>13, <2>4
    <3> QED
      BY <1>1, <1>6, <3>1
  <2> QED
    BY <1>14, <2>1, <2>2, <2>3, <2>4
<1>19. \A i \in DOMAIN frame : \E t \in 1 .. n + k : took[t] = i
  <2> TAKE i \in DOMAIN frame
  <2>1. CASE i \in rest
    <3>1. PICK j \in 1 .. k : born[j] = i
      BY <1>8, <2>1
    <3> QED
      BY <1>15, <3>1
  <2>2. CASE i \notin rest
    <3>1. PICK t \in 1 .. n : c(t) = i
      BY <1>2, <2>2
    <3> QED
      BY <1>12, <3>1
  <2> QED
    BY <2>1, <2>2
<1>20. \A t, u \in 1 .. n + k :
         t <= n /\ took[t] = 0 /\ u > n => Far(Last(old[t]), frame[took[u]])
  <2> SUFFICES ASSUME NEW t \in 1 .. n + k, NEW u \in 1 .. n + k,
                      t <= n, took[t] = 0, u > n
               PROVE  Far(Last(old[t]), frame[took[u]])
    OBVIOUS
  <2>1. t \in 1 .. n
    BY <1>1
  <2> QED
    BY <1>2, <1>12, <1>17, <2>1
<1>21. Extends(old, frame, new, took)
  BY <1>11, <1>16, <1>17, <1>18, <1>19, <1>20 DEF Extends, n
<1> QED
  BY <1>21 DEF new

Obs == [minute : Nat, scan : Nat, cell : Nat, km : Int, dbz : Nat]
Tracked == Seq(Seq(Obs) \ {<<>>})

\* A position of a track is one it had, or its last, the cell it took.
WasAt(old, new, t, i) ==
    t \in 1 .. Len(old) /\ i \in 1 .. Len(old[t]) /\ new[t][i] = old[t][i]
NowAt(old, new, frame, took, t, i) ==
    /\ took[t] \in DOMAIN frame /\ i = Len(new[t]) /\ new[t][i] = frame[took[t]]
    /\ IF t \in 1 .. Len(old) THEN i = Len(old[t]) + 1 ELSE i = 1

LEMMA Positions ==
    ASSUME NEW old \in Tracked, NEW frame, NEW new, NEW took, Extends(old, frame, new, took),
           0 \notin DOMAIN frame, \A i \in DOMAIN frame : frame[i] \in Obs
    PROVE  /\ new \in Tracked
           /\ \A t \in DOMAIN new : \A i \in DOMAIN new[t] :
                WasAt(old, new, t, i) \/ NowAt(old, new, frame, took, t, i)
           /\ \A t \in DOMAIN old : \A i \in DOMAIN old[t] :
                t \in DOMAIN new /\ i \in DOMAIN new[t] /\ WasAt(old, new, t, i)
           /\ \A t \in DOMAIN new : took[t] \in DOMAIN frame =>
                /\ Len(new[t]) \in DOMAIN new[t]
                /\ NowAt(old, new, frame, took, t, Len(new[t]))
<1>1. /\ Len(old) \in Nat /\ DOMAIN old = 1 .. Len(old)
      /\ \A t \in 1 .. Len(old) : old[t] \in Seq(Obs) /\ old[t] # <<>>
  BY DEF Tracked
<1>2. /\ new \in Seq(Range(new)) /\ Len(old) <= Len(new)
      /\ Len(new) \in Nat /\ DOMAIN new = 1 .. Len(new)
  BY DEF Extends
<1>3. ASSUME NEW t \in 1 .. Len(old)
      PROVE  /\ t \in DOMAIN new /\ new[t] \in Seq(Obs) \ {<<>>}
             /\ \A i \in DOMAIN new[t] :
                  WasAt(old, new, t, i) \/ NowAt(old, new, frame, took, t, i)
             /\ \A i \in DOMAIN old[t] : i \in DOMAIN new[t] /\ WasAt(old, new, t, i)
             /\ took[t] \in DOMAIN frame =>
                  /\ Len(new[t]) \in DOMAIN new[t]
                  /\ NowAt(old, new, frame, took, t, Len(new[t]))
  <2>1. t \in DOMAIN new
    BY <1>1, <1>2
  <2>2. old[t] \in Seq(Obs) /\ old[t] # <<>> /\ DOMAIN old[t] = 1 .. Len(old[t])
    BY <1>1
  <2>3. CASE took[t] = 0 /\ new[t] = old[t]
    <3>1. \A i \in DOMAIN old[t] : WasAt(old, new, t, i)
      BY <2>2, <2>3 DEF WasAt
    <3> QED
      BY <2>1, <2>2, <2>3, <3>1
  <2>4. CASE took[t] \in DOMAIN frame /\ new[t] = Append(old[t], frame[took[t]])
    <3> DEFINE o == frame[took[t]]
               s == old[t]
               r == new[t]
    <3>1. o \in Obs /\ s \in Seq(Obs) /\ r = Append(s, o) /\ s # <<>>
      BY <2>2, <2>4
    <3> HIDE DEF o, s, r
    <3>2. /\ r \in Seq(Obs) /\ Len(r) = Len(s) + 1 /\ Len(s) \in Nat
          /\ DOMAIN r = 1 .. Len(s) + 1 /\ DOMAIN s = 1 .. Len(s)
          /\ \A i \in 1 .. Len(s) : r[i] = s[i]
          /\ r[Len(s) + 1] = o
      BY <3>1
    <3>3. r # <<>> /\ Len(r) \in DOMAIN r
      BY <3>2
    <3>4. \A i \in 1 .. Len(s) : i \in DOMAIN r /\ WasAt(old, new, t, i)
      BY <3>2 DEF WasAt, s, r
    <3>5. NowAt(old, new, frame, took, t, Len(s) + 1)
      BY <2>4, <3>2 DEF NowAt, s, r, o
    <3>6. \A i \in 1 .. Len(s) + 1 : i \in 1 .. Len(s) \/ i = Len(s) + 1
      BY <3>2
    <3> QED
      BY <2>1, <3>2, <3>3, <3>4, <3>5, <3>6 DEF s, r
  <2> QED
    BY <2>3, <2>4 DEF Extends
<1>4. ASSUME NEW t \in DOMAIN new, t \notin 1 .. Len(old)
      PROVE  /\ new[t] \in Seq(Obs) \ {<<>>} /\ DOMAIN new[t] = {1} /\ Len(new[t]) = 1
             /\ NowAt(old, new, frame, took, t, 1)
  <2>1. t > Len(old)
    BY <1>1, <1>2, <1>4
  <2>2. took[t] \in DOMAIN frame /\ new[t] = <<frame[took[t]]>>
    BY <2>1 DEF Extends
  <2>3. frame[took[t]] \in Obs
    BY <2>2
  <2>4. new[t] \in Seq(Obs) /\ new[t] # <<>> /\ Len(new[t]) = 1 /\ new[t][1] = frame[took[t]]
    BY <2>2, <2>3
  <2>5. DOMAIN new[t] = {1}
    BY <2>4
  <2> QED
    BY <1>4, <2>2, <2>4, <2>5 DEF NowAt
<1>5. new \in Tracked
  <2>1. \A t \in 1 .. Len(new) : new[t] \in Seq(Obs) \ {<<>>}
    BY <1>2, <1>3, <1>4
  <2> QED
    BY <1>2, <2>1 DEF Tracked
<1>6. \A t \in DOMAIN new : \A i \in DOMAIN new[t] :
        WasAt(old, new, t, i) \/ NowAt(old, new, frame, took, t, i)
  <2> TAKE t \in DOMAIN new
  <2>1. CASE t \in 1 .. Len(old)
    BY <1>3, <2>1
  <2>2. CASE t \notin 1 .. Len(old)
    BY <1>4, <2>2
  <2> QED
    BY <2>1, <2>2
<1>7. \A t \in DOMAIN new : took[t] \in DOMAIN frame =>
        /\ Len(new[t]) \in DOMAIN new[t]
        /\ NowAt(old, new, frame, took, t, Len(new[t]))
  <2> SUFFICES ASSUME NEW t \in DOMAIN new, took[t] \in DOMAIN frame
               PROVE  /\ Len(new[t]) \in DOMAIN new[t]
                      /\ NowAt(old, new, frame, took, t, Len(new[t]))
    OBVIOUS
  <2>1. CASE t \in 1 .. Len(old)
    BY <1>3, <2>1
  <2>2. CASE t \notin 1 .. Len(old)
    BY <1>4, <2>2
  <2> QED
    BY <2>1, <2>2
<1>8. \A t \in DOMAIN old : \A i \in DOMAIN old[t] :
        t \in DOMAIN new /\ i \in DOMAIN new[t] /\ WasAt(old, new, t, i)
  BY <1>1, <1>3
<1> QED
  BY <1>5, <1>6, <1>7, <1>8

Histories == Seq([minute : Nat, cells : Scans])

\* Every observation is of a cell that was seen, every such cell is in a track; the
\* cells of a track; the cells that began one.
AllSeen(history, ts) ==
    \A t \in DOMAIN ts : \A i \in DOMAIN ts[t] :
        /\ ts[t][i].scan \in DOMAIN history
        /\ ts[t][i].cell \in Strong(history[ts[t][i].scan].cells)
        /\ ts[t][i].dbz >= MinDbz
AllTracked(history, ts) ==
    \A n \in DOMAIN history : \A c \in Strong(history[n].cells) :
        \E t \in DOMAIN ts : \E i \in DOMAIN ts[t] : ts[t][i].scan = n /\ ts[t][i].cell = c
Orderly(ts) ==
    \A t, u \in DOMAIN ts : \A i \in DOMAIN ts[t], j \in DOMAIN ts[u] :
         /\ <<ts[t][i].scan, ts[t][i].cell>> = <<ts[u][j].scan, ts[u][j].cell>> => t = u /\ i = j
         /\ t = u /\ i < j => ts[t][i].scan < ts[u][j].scan
         /\ t = u /\ j = i + 1 => Apart(ts[t][i], ts[t][j]) <= MaxAssociation
BornApart(ts) ==
    \A t, u \in DOMAIN ts : \A i \in DOMAIN ts[t] :
        LET born == Head(ts[u]) IN
        /\ ts[t][i].scan < born.scan
        /\ i = Len(ts[t]) \/ ts[t][i + 1].scan > born.scan
        => Apart(ts[t][i], born) > MaxAssociation

LEMMA DetectedFrame ==
    ASSUME NEW cells \in Scans, NEW minute \in Nat, NEW n \in Nat,
           NEW frame, frame = Detected(cells, minute, n)
    PROVE  /\ Len(cells) \in Nat /\ DOMAIN frame = Strong(cells)
           /\ DOMAIN frame \in SUBSET (1 .. Len(cells))
           /\ \A i \in DOMAIN frame :
                /\ frame[i] \in Obs
                /\ frame[i].scan = n /\ frame[i].cell = i /\ frame[i].dbz >= MinDbz
<1>1. cells \in Seq([km : Int, dbz : Nat])
  BY TracksAssumption
<1>2. Len(cells) \in Nat /\ DOMAIN cells = 1 .. Len(cells)
  BY <1>1
<1>3. DOMAIN frame = Strong(cells)
  BY DEF Detected
<1>4. Strong(cells) \in SUBSET (1 .. Len(cells))
  BY <1>2 DEF Strong
<1>5. ASSUME NEW i \in Strong(cells)
      PROVE  /\ frame[i] \in Obs
             /\ frame[i].scan = n /\ frame[i].cell = i /\ frame[i].dbz >= MinDbz
  <2>1. i \in 1 .. Len(cells) /\ cells[i] \in [km : Int, dbz : Nat] /\ cells[i].dbz >= MinDbz
    <3>1. i \in DOMAIN cells /\ cells[i].dbz >= MinDbz
      BY Zenon DEF Strong
    <3>2. i \in 1 .. Len(cells)
      BY <1>2, <3>1
    <3>3. \A C : cells \in Seq(C) => cells[i] \in C
      BY <1>2, <3>2
    <3>4. cells[i] \in [km : Int, dbz : Nat]
      BY <1>1, <3>3
    <3> QED
      BY <3>1, <3>2, <3>4
  <2>2. frame[i] = [minute |-> minute, scan |-> n, cell |-> i,
                    km |-> cells[i].km, dbz |-> cells[i].dbz]
    BY DEF Detected
  <2>3. i \in Nat /\ cells[i].km \in Int /\ cells[i].dbz \in Nat
    BY <1>2, <2>1
  <2> QED
    BY <2>1, <2>2, <2>3 DEF Obs
<1> QED
  BY <1>2, <1>3, <1>4, <1>5

\* The last observation of a track.
LEMMA LastOfTrack ==
    ASSUME NEW ts \in Tracked, NEW t \in DOMAIN ts
    PROVE  /\ Len(ts[t]) \in DOMAIN ts[t] /\ Last(ts[t]) = ts[t][Len(ts[t])]
           /\ Head(ts[t]) = ts[t][1] /\ 1 \in DOMAIN ts[t] /\ Last(ts[t]) \in Obs
           /\ Len(ts[t]) \in Nat /\ DOMAIN ts[t] = 1 .. Len(ts[t])
           /\ \A i \in DOMAIN ts[t] : ts[t][i] \in Obs
<1> DEFINE s == ts[t]
<1>1. s \in Seq(Obs) /\ s # <<>>
  BY DEF Tracked
<1> HIDE DEF s
<1>2. /\ Len(s) \in DOMAIN s /\ Last(s) = s[Len(s)] /\ Head(s) = s[1] /\ 1 \in DOMAIN s
      /\ Len(s) \in Nat /\ DOMAIN s = 1 .. Len(s) /\ \A i \in DOMAIN s : s[i] \in Obs
  BY <1>1 DEF Last
<1> QED
  BY <1>2 DEF s

\* A frame and the tracks it extends.
FrameStep(history, old, cells, minute, frame, new, took) ==
    /\ history \in Histories /\ old \in Tracked /\ cells \in Scans /\ minute \in Nat
    /\ frame = Detected(cells, minute, Len(history) + 1)
    /\ Extends(old, frame, new, took)
    /\ AllSeen(history, old)

LEMMA FrameFacts ==
    ASSUME NEW history, NEW old, NEW cells, NEW minute, NEW frame, NEW new, NEW took,
           FrameStep(history, old, cells, minute, frame, new, took)
    PROVE  LET n == Len(history) + 1 IN
           /\ n \in Nat /\ DOMAIN history = 1 .. n - 1
           /\ 0 \notin DOMAIN frame /\ DOMAIN frame = Strong(cells)
           /\ \A c \in DOMAIN frame :
                /\ frame[c] \in Obs
                /\ frame[c].scan = n /\ frame[c].cell = c /\ frame[c].dbz >= MinDbz
<1> DEFINE n == Len(history) + 1
<1>1. /\ history \in Histories /\ cells \in Scans /\ minute \in Nat
      /\ frame = Detected(cells, minute, n)
  BY DEF FrameStep
<1>2. n \in Nat /\ DOMAIN history = 1 .. n - 1
  BY <1>1 DEF Histories
<1> HIDE DEF n
<1>3. /\ Len(cells) \in Nat /\ DOMAIN frame \in SUBSET (1 .. Len(cells))
      /\ DOMAIN frame = Strong(cells)
      /\ \A c \in DOMAIN frame :
           /\ frame[c] \in Obs
           /\ frame[c].scan = n /\ frame[c].cell = c /\ frame[c].dbz >= MinDbz
  BY <1>1, <1>2, DetectedFrame
<1>4. 0 \notin DOMAIN frame
  BY <1>3
<1> QED
  BY <1>2, <1>3, <1>4 DEF n

\* The old positions are of older frames, and the others of this one.
LEMMA Whens ==
    ASSUME NEW history, NEW old, NEW cells, NEW minute, NEW frame, NEW new, NEW took,
           FrameStep(history, old, cells, minute, frame, new, took),
           NEW t \in DOMAIN new, NEW i \in DOMAIN new[t]
    PROVE  LET n == Len(history) + 1
               o == new[t][i] IN
           /\ n \in Nat /\ new \in Tracked /\ t \in Nat /\ i \in Nat /\ o \in Obs
           /\ \/ /\ WasAt(old, new, t, i) /\ t \in DOMAIN old /\ i \in DOMAIN old[t]
                 /\ o.scan \in DOMAIN history /\ o.scan < n
              \/ NowAt(old, new, frame, took, t, i) /\ o.scan = n /\ o.cell = took[t]
<1> DEFINE n == Len(history) + 1
           o == new[t][i]
<1>1. old \in Tracked /\ Extends(old, frame, new, took) /\ AllSeen(history, old)
  BY DEF FrameStep
<1>2. /\ n \in Nat /\ DOMAIN history = 1 .. n - 1 /\ 0 \notin DOMAIN frame
      /\ \A c \in DOMAIN frame : frame[c] \in Obs /\ frame[c].scan = n /\ frame[c].cell = c
  BY FrameFacts
<1> HIDE DEF n
<1>5. /\ new \in Tracked
      /\ WasAt(old, new, t, i) \/ NowAt(old, new, frame, took, t, i)
  BY <1>1, <1>2, Positions
<1>6. DOMAIN new = 1 .. Len(new) /\ Len(new) \in Nat
  BY <1>5 DEF Tracked
<1>7. i \in Nat /\ t \in Nat /\ o \in Obs
  BY <1>5, <1>6, LastOfTrack
<1>8. DOMAIN old = 1 .. Len(old)
  BY <1>1 DEF Tracked
<1>9. CASE WasAt(old, new, t, i)
  <2>1. t \in DOMAIN old /\ i \in 1 .. Len(old[t]) /\ o = old[t][i]
    BY <1>8, <1>9 DEF WasAt
  <2>2. i \in DOMAIN old[t]
    BY <1>1, <2>1, LastOfTrack
  <2>3. o.scan \in DOMAIN history
    BY <1>1, <2>1, <2>2 DEF AllSeen
  <2>4. o.scan < n
    BY <1>2, <2>3
  <2> QED
    BY <1>2, <1>5, <1>7, <1>9, <2>1, <2>2, <2>3, <2>4 DEF n
<1>10. CASE NowAt(old, new, frame, took, t, i)
  <2>1. took[t] \in DOMAIN frame /\ o = frame[took[t]]
    BY <1>10 DEF NowAt
  <2>2. o.scan = n /\ o.cell = took[t]
    BY <1>2, <2>1
  <2> QED
    BY <1>2, <1>5, <1>7, <1>10, <2>2 DEF n
<1> QED
  BY <1>5, <1>9, <1>10

LEMMA KeepsOrderly ==
    ASSUME NEW history, NEW old, NEW cells, NEW minute, NEW frame, NEW new, NEW took,
           FrameStep(history, old, cells, minute, frame, new, took), Orderly(old)
    PROVE  Orderly(new)
<1> DEFINE n == Len(history) + 1
<1> SUFFICES ASSUME NEW t \in DOMAIN new, NEW u \in DOMAIN new,
                    NEW i \in DOMAIN new[t], NEW j \in DOMAIN new[u]
             PROVE  /\ new[t][i].scan = new[u][j].scan /\ new[t][i].cell = new[u][j].cell
                         => t = u /\ i = j
                    /\ t = u /\ i < j => new[t][i].scan < new[u][j].scan
                    /\ t = u /\ j = i + 1 => Apart(new[t][i], new[t][j]) <= MaxAssociation
  BY DEF Orderly
<1> DEFINE a == new[t][i]
           b == new[u][j]
<1>1. /\ n \in Nat /\ i \in Nat /\ j \in Nat /\ a \in Obs /\ b \in Obs
      /\ \/ /\ WasAt(old, new, t, i) /\ t \in DOMAIN old /\ i \in DOMAIN old[t]
            /\ a.scan < n
         \/ NowAt(old, new, frame, took, t, i) /\ a.scan = n /\ a.cell = took[t]
      /\ \/ /\ WasAt(old, new, u, j) /\ u \in DOMAIN old /\ j \in DOMAIN old[u]
            /\ b.scan < n
         \/ NowAt(old, new, frame, took, u, j) /\ b.scan = n /\ b.cell = took[u]
  BY Whens
<1>2. old \in Tracked /\ Extends(old, frame, new, took)
  BY DEF FrameStep
<1>3. DOMAIN old = 1 .. Len(old) /\ \A x \in DOMAIN old : Len(old[x]) \in Nat
                                     /\ DOMAIN old[x] = 1 .. Len(old[x])
  BY <1>2, LastOfTrack DEF Tracked
<1> HIDE DEF n, a, b
<1>4. a.scan \in Nat /\ b.scan \in Nat /\ a.cell \in Nat /\ b.cell \in Nat
  BY <1>1 DEF Obs
<1>5. CASE WasAt(old, new, t, i) /\ a.scan < n /\ t \in DOMAIN old /\ i \in DOMAIN old[t]
           /\ WasAt(old, new, u, j) /\ b.scan < n /\ u \in DOMAIN old /\ j \in DOMAIN old[u]
  <2>1. a = old[t][i] /\ b = old[u][j] /\ new[t][j] = IF t = u THEN old[t][j] ELSE new[t][j]
    BY <1>5 DEF WasAt, a, b
  <2> QED
    BY <1>5, <2>1 DEF Orderly, a, b
<1>6. CASE WasAt(old, new, t, i) /\ a.scan < n /\ t \in DOMAIN old /\ i \in DOMAIN old[t]
           /\ NowAt(old, new, frame, took, u, j) /\ b.scan = n
  <2>1. a.scan # b.scan /\ a.scan < b.scan
    BY <1>1, <1>4, <1>6
  <2>2. ASSUME t = u, j = i + 1 PROVE Apart(new[t][i], new[t][j]) <= MaxAssociation
    <3>1. /\ took[t] \in DOMAIN frame /\ new[t][j] = frame[took[t]] /\ t \in 1 .. Len(old)
          /\ j = Len(old[t]) + 1
      BY <1>3, <1>6, <2>2 DEF NowAt
    <3>2. i = Len(old[t])
      BY <1>1, <1>3, <1>6, <2>2, <3>1
    <3>3. new[t][i] = Last(old[t])
      BY <1>2, <1>3, <1>6, <3>1, <3>2, LastOfTrack DEF WasAt
    <3>4. new[t] # old[t]
      <4>1. j \in DOMAIN new[t] /\ j \notin DOMAIN old[t]
        BY <1>1, <1>3, <2>2, <3>1
      <4> QED
        BY <4>1
    <3>5. Apart(Last(old[t]), frame[took[t]]) <= MaxAssociation
      BY <1>2, <3>1, <3>4 DEF Extends
    <3> QED
      BY <3>1, <3>3, <3>5
  <2> QED
    BY <2>1, <2>2 DEF a, b
<1>7. CASE NowAt(old, new, frame, took, t, i) /\ a.scan = n
           /\ WasAt(old, new, u, j) /\ b.scan < n /\ u \in DOMAIN old /\ j \in DOMAIN old[u]
  <2>1. a.scan # b.scan
    BY <1>1, <1>4, <1>7
  <2>2. ASSUME t = u PROVE j < i
    <3>1. t \in 1 .. Len(old) /\ i = Len(old[t]) + 1 /\ j \in 1 .. Len(old[t])
      BY <1>3, <1>7, <2>2 DEF NowAt
    <3> QED
      BY <1>1, <1>3, <3>1
  <2>3. ~(t = u /\ i < j) /\ ~(t = u /\ j = i + 1)
    BY <1>1, <2>2
  <2> QED
    BY <2>1, <2>3 DEF a, b
<1>8. CASE NowAt(old, new, frame, took, t, i) /\ a.cell = took[t]
           /\ NowAt(old, new, frame, took, u, j) /\ b.cell = took[u]
  <2>1. took[t] \in DOMAIN frame /\ took[u] \in DOMAIN frame
        /\ i = Len(new[t]) /\ j = Len(new[u])
    BY <1>8 DEF NowAt
  <2>2. 0 \notin DOMAIN frame
    BY FrameFacts
  <2>3. took[t] = took[u] => t = u
    BY <1>2, <2>1, <2>2 DEF Extends
  <2>4. t = u => i = j
    BY <2>1
  <2>5. ~(t = u /\ i < j) /\ ~(t = u /\ j = i + 1)
    BY <1>1, <2>4
  <2> QED
    BY <1>8, <2>3, <2>4, <2>5 DEF a, b
<1> QED
  BY <1>1, <1>5, <1>6, <1>7, <1>8

LEMMA NextPosition ==
    ASSUME NEW n \in Nat, NEW D, D = 1 .. n, NEW i \in D
    PROVE  i # n <=> i + 1 \in D
OBVIOUS

LEMMA KeepsBornApart ==
    ASSUME NEW history, NEW old, NEW cells, NEW minute, NEW frame, NEW new, NEW took,
           FrameStep(history, old, cells, minute, frame, new, took), BornApart(old)
    PROVE  BornApart(new)
<1> DEFINE n == Len(history) + 1
<1> SUFFICES ASSUME NEW t \in DOMAIN new, NEW u \in DOMAIN new, NEW i \in DOMAIN new[t],
                    new[t][i].scan < Head(new[u]).scan,
                    i = Len(new[t]) \/ new[t][i + 1].scan > Head(new[u]).scan
             PROVE  Apart(new[t][i], Head(new[u])) > MaxAssociation
  BY DEF BornApart
<1>1. old \in Tracked /\ Extends(old, frame, new, took)
  BY DEF FrameStep
<1>2. DOMAIN old = 1 .. Len(old) /\ \A x \in DOMAIN old : Len(old[x]) \in Nat
                                     /\ DOMAIN old[x] = 1 .. Len(old[x])
  BY <1>1, LastOfTrack DEF Tracked
<1>3. n \in Nat /\ new \in Tracked
  BY Whens
<1>3a. \A x \in DOMAIN new : \A k \in DOMAIN new[x] :
        /\ k \in Nat /\ new[x][k].scan \in Nat
        /\ \/ /\ WasAt(old, new, x, k) /\ x \in DOMAIN old /\ k \in DOMAIN old[x]
              /\ new[x][k].scan < n
           \/ NowAt(old, new, frame, took, x, k) /\ new[x][k].scan = n
  <2> TAKE x \in DOMAIN new
  <2> TAKE k \in DOMAIN new[x]
  <2>1. /\ k \in Nat /\ new[x][k] \in Obs
        /\ \/ /\ WasAt(old, new, x, k) /\ x \in DOMAIN old /\ k \in DOMAIN old[x]
              /\ new[x][k].scan < n
           \/ NowAt(old, new, frame, took, x, k) /\ new[x][k].scan = n
    BY Whens
  <2>2. new[x][k].scan \in Nat
    BY <2>1 DEF Obs
  <2> QED
    BY <2>1, <2>2
<1>4. /\ Len(new[t]) \in Nat /\ DOMAIN new[t] = 1 .. Len(new[t])
      /\ 1 \in DOMAIN new[u] /\ Head(new[u]) = new[u][1]
  BY <1>3, LastOfTrack
<1> HIDE DEF n
<1> DEFINE born == new[u][1]
<1>5. born.scan \in Nat /\ born.scan <= n
  BY <1>3, <1>4, <1>3a
<1>6. new[t][i].scan < n
  BY <1>3, <1>4, <1>5, <1>3a
<1>7. /\ t \in DOMAIN old /\ i \in DOMAIN old[t] /\ new[t][i] = old[t][i] /\ i \in Nat
  BY <1>3, <1>6, <1>3a DEF WasAt
<1>8. \A k \in DOMAIN old[t] : k \in DOMAIN new[t] /\ new[t][k] = old[t][k]
  <2>1. 0 \notin DOMAIN frame /\ \A c \in DOMAIN frame : frame[c] \in Obs
    BY FrameFacts
  <2> QED
    BY <1>1, <1>7, <2>1, Positions DEF WasAt
<1>9. CASE WasAt(old, new, u, 1) /\ u \in DOMAIN old
  <2>1. born = old[u][1] /\ Head(old[u]) = old[u][1]
    BY <1>1, <1>9, LastOfTrack DEF WasAt
  <2>2. old[t][i].scan < Head(old[u]).scan
    BY <1>4, <1>7, <2>1
  <2>3. i = Len(old[t]) \/ old[t][i + 1].scan > Head(old[u]).scan
    <3>1. CASE i = Len(old[t])
      BY <3>1
    <3>2. CASE i # Len(old[t])
      <4>1. i + 1 \in DOMAIN old[t] /\ i + 1 \in DOMAIN new[t]
        BY <1>2, <1>7, <1>8, <3>2
      <4>2. i # Len(new[t])
        BY <1>4, <4>1, NextPosition
      <4> QED
        BY <1>4, <1>8, <2>1, <4>1, <4>2
    <3> QED
      BY <3>1, <3>2
  <2>4. Apart(old[t][i], Head(old[u])) > MaxAssociation
    BY <1>7, <1>9, <2>2, <2>3 DEF BornApart
  <2> QED
    BY <1>4, <1>7, <2>1, <2>4
<1>10. CASE NowAt(old, new, frame, took, u, 1) /\ born.scan = n
  <2>1. took[u] \in DOMAIN frame /\ born = frame[took[u]] /\ u \notin 1 .. Len(old)
    <3>1. ASSUME u \in 1 .. Len(old) PROVE FALSE
      <4>1. 1 = Len(old[u]) + 1 /\ Len(old[u]) \in Nat /\ Len(old[u]) \in DOMAIN old[u]
            /\ DOMAIN old[u] = 1 .. Len(old[u])
        BY <1>1, <1>2, <1>10, <3>1, LastOfTrack DEF NowAt
      <4> QED
        BY <4>1
    <3> QED
      BY <1>10, <3>1 DEF NowAt
  <2>2. u > Len(old) /\ t \in DOMAIN new /\ t <= Len(old)
    <3>1. DOMAIN new = 1 .. Len(new) /\ Len(new) \in Nat /\ Len(old) \in Nat
      BY <1>1, <1>3 DEF Tracked
    <3>2. u \in Nat /\ u >= 1 /\ Len(old) \in Nat
      BY <3>1
    <3> QED
      BY <1>2, <1>7, <2>1, <3>2
  <2>3. i = Len(new[t])
    <3>1. ASSUME i # Len(new[t]) PROVE FALSE
      <4>1. i + 1 \in DOMAIN new[t]
        BY <1>4, <3>1, NextPosition
      <4>2. new[t][i + 1].scan > born.scan
        BY <1>4, <3>1
      <4>3. new[t][i + 1].scan \in Nat /\ new[t][i + 1].scan <= n
        BY <1>3, <1>3a, <4>1
      <4> QED
        BY <1>3, <1>10, <4>2, <4>3
    <3> QED
      BY <3>1
  <2>4. took[t] = 0 /\ new[t] = old[t]
    <3>1. ASSUME new[t] = Append(old[t], frame[took[t]]) PROVE FALSE
      <4>1. old[t] \in Seq(Obs)
        BY <1>1, <1>7 DEF Tracked
      <4>2. Len(new[t]) = Len(old[t]) + 1
        BY <3>1, <4>1
      <4> QED
        BY <1>2, <1>7, <2>3, <4>2
    <3> QED
      BY <1>1, <1>2, <1>7, <3>1 DEF Extends
  <2>5. Far(Last(old[t]), frame[took[u]])
    BY <1>1, <2>2, <2>4 DEF Extends
  <2>6. Last(old[t]) = old[t][i]
    BY <1>1, <1>7, <2>3, <2>4, LastOfTrack
  <2> QED
    BY <1>4, <1>7, <2>1, <2>5, <2>6 DEF Far
<1> QED
  BY <1>4, <1>9, <1>10, <1>3a

LEMMA KeepsAllSeen ==
    ASSUME NEW history, NEW old, NEW cells, NEW minute, NEW frame, NEW new, NEW took,
           FrameStep(history, old, cells, minute, frame, new, took),
           AllTracked(history, old),
           NEW later, later = Append(history, [minute |-> minute, cells |-> cells])
    PROVE  later \in Histories /\ AllSeen(later, new) /\ AllTracked(later, new)
<1> DEFINE n == Len(history) + 1
           it == [minute |-> minute, cells |-> cells]
<1>1. /\ history \in Histories /\ old \in Tracked /\ it \in [minute : Nat, cells : Scans]
      /\ Extends(old, frame, new, took) /\ AllSeen(history, old) /\ it.cells = cells
      /\ later = Append(history, it)
  BY DEF FrameStep
<1>2. /\ n \in Nat /\ DOMAIN history = 1 .. n - 1 /\ DOMAIN frame = Strong(cells)
      /\ 0 \notin DOMAIN frame
      /\ \A c \in DOMAIN frame :
           frame[c] \in Obs /\ frame[c].scan = n /\ frame[c].cell = c /\ frame[c].dbz >= MinDbz
  BY FrameFacts
<1> HIDE DEF it
<1>3. /\ later \in Histories /\ DOMAIN later = 1 .. n /\ later[n] = it
      /\ \A k \in DOMAIN history : later[k] = history[k]
  BY <1>1 DEF Histories
<1> HIDE DEF n
<1>4. n \in DOMAIN later /\ DOMAIN history \subseteq DOMAIN later
      /\ \A k \in DOMAIN later : k = n \/ k \in DOMAIN history
  BY <1>2, <1>3
<1>5. ASSUME NEW t \in DOMAIN new, NEW i \in DOMAIN new[t]
      PROVE  /\ new[t][i].scan \in DOMAIN later
             /\ new[t][i].cell \in Strong(later[new[t][i].scan].cells)
             /\ new[t][i].dbz >= MinDbz
  <2>1. CASE WasAt(old, new, t, i) /\ t \in DOMAIN old /\ i \in DOMAIN old[t]
    BY <1>1, <1>3, <1>4, <2>1 DEF AllSeen, WasAt
  <2>2. CASE NowAt(old, new, frame, took, t, i)
    <3>1. took[t] \in DOMAIN frame /\ new[t][i] = frame[took[t]]
      BY <2>2 DEF NowAt
    <3>2. /\ new[t][i].scan = n /\ new[t][i].cell \in Strong(cells)
          /\ new[t][i].dbz >= MinDbz
      BY <1>2, <3>1
    <3> QED
      BY <1>1, <1>3, <1>4, <3>2
  <2> QED
    BY <2>1, <2>2, Whens
<1>6. AllSeen(later, new)
  BY <1>5 DEF AllSeen
<1>7. ASSUME NEW k \in DOMAIN later, NEW c \in Strong(later[k].cells)
      PROVE  \E t \in DOMAIN new : \E i \in DOMAIN new[t] :
               new[t][i].scan = k /\ new[t][i].cell = c
  <2>1. CASE k = n
    <3>1. c \in DOMAIN frame
      BY <1>1, <1>2, <1>3, <2>1
    <3>2. PICK t \in DOMAIN new : took[t] = c
      BY <1>1, <3>1 DEF Extends
    <3>3. /\ Len(new[t]) \in DOMAIN new[t]
          /\ NowAt(old, new, frame, took, t, Len(new[t]))
      BY <1>1, <1>2, <3>1, <3>2, Positions
    <3>4. new[t][Len(new[t])] = frame[c]
      BY <3>2, <3>3 DEF NowAt
    <3> QED
      BY <1>2, <2>1, <3>1, <3>3, <3>4
  <2>2. CASE k \in DOMAIN history
    <3>1. c \in Strong(history[k].cells)
      BY <1>3, <2>2
    <3>2. PICK t \in DOMAIN old :
            \E i \in DOMAIN old[t] : old[t][i].scan = k /\ old[t][i].cell = c
      BY <2>2, <3>1 DEF AllTracked
    <3>3. PICK i \in DOMAIN old[t] : old[t][i].scan = k /\ old[t][i].cell = c
      BY <3>2
    <3>4. t \in DOMAIN new /\ i \in DOMAIN new[t] /\ new[t][i] = old[t][i]
      BY <1>1, <1>2, Positions DEF WasAt
    <3> QED
      BY <3>3, <3>4
  <2> QED
    BY <1>4, <2>1, <2>2
<1> QED
  BY <1>3, <1>6, <1>7 DEF AllTracked

-----------------------------------------------------------------------------
(* Tracks: the specification *)

TracksInv ==
    /\ scans \in Histories /\ tracks \in Tracked /\ Len(scans) <= MaxScans
    /\ AllSeen(scans, tracks) /\ AllTracked(scans, tracks)
    /\ Orderly(tracks) /\ BornApart(tracks)

LEMMA TracksInitially == TracksInit => TracksInv
<1> SUFFICES ASSUME TracksInit PROVE TracksInv
  OBVIOUS
<1>1. scans = <<>> /\ tracks = <<>> /\ DOMAIN <<>> = {} /\ Len(<<>>) = 0 /\ MaxScans \in Nat
  BY TracksAssumption DEF TracksInit
<1>2. scans \in Histories /\ tracks \in Tracked /\ Len(scans) <= MaxScans
  BY <1>1 DEF Histories, Tracked
<1>3. AllSeen(scans, tracks) /\ AllTracked(scans, tracks)
  BY <1>1 DEF AllSeen, AllTracked
<1>4. Orderly(tracks) /\ BornApart(tracks)
  BY <1>1 DEF Orderly, BornApart
<1> QED
  BY <1>2, <1>3, <1>4 DEF TracksInv

LEMMA TracksKept == TracksInv /\ [TracksNext]_trackVars => TracksInv'
<1> SUFFICES ASSUME TracksInv, [TracksNext]_trackVars PROVE TracksInv'
  OBVIOUS
<1>1. CASE TracksNext
  <2>1. PICK cells \in Scans, after \in Intervals : Scan(cells, after)
    BY <1>1 DEF TracksNext
  <2> DEFINE minute == Minute + after
             n == Len(scans) + 1
             frame == Detected(cells, minute, n)
  <2>2. /\ Len(scans) < MaxScans
        /\ scans' = Append(scans, [minute |-> minute, cells |-> cells])
        /\ tracks' = Consume(tracks, frame)
    BY <2>1 DEF Scan
  <2>3. /\ scans \in Histories /\ tracks \in Tracked /\ Len(scans) <= MaxScans
        /\ AllSeen(scans, tracks) /\ AllTracked(scans, tracks)
        /\ Orderly(tracks) /\ BornApart(tracks)
    BY DEF TracksInv
  <2>4. Len(scans) \in Nat /\ n \in Nat /\ MaxScans \in Nat
    BY <2>3, TracksAssumption DEF Histories
  <2>5. minute \in Nat
    <3>1. after \in Nat
      BY TracksAssumption
    <3>2. Minute \in Nat
      <4>1. CASE scans = <<>>
        BY <4>1 DEF Minute
      <4>2. CASE scans # <<>>
        <5>1. Len(scans) \in 1 .. Len(scans) /\ Last(scans) = scans[Len(scans)]
          BY <2>3, <2>4, <4>2 DEF Last, Histories
        <5>2. \A R : scans \in Seq(R) => scans[Len(scans)] \in R
          BY <5>1
        <5>3. scans[Len(scans)] \in [minute : Nat, cells : Scans]
          BY <2>3, <5>2 DEF Histories
        <5> QED
          BY <4>2, <5>1, <5>3 DEF Minute
      <4> QED
        BY <4>1, <4>2
    <3> QED
      BY <3>1, <3>2
  <2> HIDE DEF minute, n
  <2>6. /\ Len(cells) \in Nat /\ DOMAIN frame \in SUBSET (1 .. Len(cells))
        /\ \A i \in DOMAIN frame : frame[i] \in Obs
    BY <2>4, <2>5, DetectedFrame
  <2> HIDE DEF frame
  <2>7. FrameOver(frame, tracks, Len(cells))
    <3>1. \A i \in DOMAIN frame : frame[i].km \in Int
      BY <2>6 DEF Obs
    <3>2. Len(tracks) \in Nat /\ DOMAIN tracks = 1 .. Len(tracks)
      BY <2>3 DEF Tracked
    <3>3. \A t \in 1 .. Len(tracks) : Last(tracks[t]).km \in Int
      BY <2>3, <3>2, LastOfTrack DEF Obs
    <3> QED
      BY <2>6, <3>1, <3>2, <3>3 DEF FrameOver
  <2>8. PICK took : Extends(tracks, frame, tracks', took)
    BY <2>2, <2>7, ConsumeExtends
  <2>9. FrameStep(scans, tracks, cells, minute, frame, tracks', took)
    BY <2>3, <2>5, <2>8 DEF FrameStep, frame, n
  <2>10. scans' \in Histories /\ AllSeen(scans', tracks') /\ AllTracked(scans', tracks')
    <3>1. AllTracked(scans, tracks)
      BY <2>3
    <3>2. scans' = Append(scans, [minute |-> minute, cells |-> cells])
      BY <2>2
    <3>3. \A later : later = Append(scans, [minute |-> minute, cells |-> cells]) =>
            later \in Histories /\ AllSeen(later, tracks') /\ AllTracked(later, tracks')
      BY <2>9, <3>1, KeepsAllSeen
    <3> QED
      BY <3>2, <3>3, Zenon
  <2>11. Orderly(tracks')
    BY <2>3, <2>9, KeepsOrderly
  <2>12. BornApart(tracks')
    BY <2>3, <2>9, KeepsBornApart
  <2>13. tracks' \in Tracked
    BY <2>3, <2>6, <2>8, <2>9, FrameFacts, Positions
  <2>14. Len(scans') <= MaxScans
    <3>1. Len(scans') = Len(scans) + 1
      BY <2>2, <2>3, <2>5 DEF Histories
    <3> QED
      BY <2>2, <2>4, <3>1
  <2> QED
    BY <2>10, <2>11, <2>12, <2>13, <2>14 DEF TracksInv
<1>2. CASE UNCHANGED trackVars
  BY <1>2 DEF TracksInv, trackVars
<1> QED
  BY <1>1, <1>2

LEMMA TracksTypes == TracksInv => TracksTypeOK
<1> SUFFICES ASSUME TracksInv, NEW t \in Range(tracks)
             PROVE  t # <<>> /\ \A o \in Range(t) : o.dbz >= MinDbz
  BY DEF TracksInv, TracksTypeOK
<1>1. PICK k \in DOMAIN tracks : t = tracks[k]
  BY DEF Range
<1>2. tracks \in Tracked /\ AllSeen(scans, tracks)
  BY DEF TracksInv
<1>3. t # <<>>
  BY <1>1, <1>2 DEF Tracked
<1>4. \A o \in Range(t) : o.dbz >= MinDbz
  BY <1>1, <1>2 DEF AllSeen, Range
<1> QED
  BY <1>3, <1>4

LEMMA Partitioned == TracksInv => CellsArePartitioned
<1> SUFFICES ASSUME TracksInv PROVE CellsArePartitioned
  OBVIOUS
<1>1. AllSeen(scans, tracks) /\ AllTracked(scans, tracks) /\ Orderly(tracks)
  BY DEF TracksInv
<1>2. \A o \in Observations : \E t \in DOMAIN tracks : \E i \in DOMAIN tracks[t] :
        o = tracks[t][i]
  BY DEF Observations, Range
<1>3. \A t \in DOMAIN tracks : \A i \in DOMAIN tracks[t] : tracks[t][i] \in Observations
  BY DEF Observations, Range
<1>4. \A o \in Observations :
        o.scan \in DOMAIN scans /\ o.cell \in Strong(scans[o.scan].cells)
  BY <1>1, <1>2 DEF AllSeen
<1>5. ASSUME NEW n \in DOMAIN scans
      PROVE  {o.cell : o \in {x \in Observations : x.scan = n}} = Strong(scans[n].cells)
  <2>1. ASSUME NEW c \in Strong(scans[n].cells)
        PROVE  \E o \in Observations : o.scan = n /\ o.cell = c
    <3>1. PICK t \in DOMAIN tracks :
            \E i \in DOMAIN tracks[t] : tracks[t][i].scan = n /\ tracks[t][i].cell = c
      BY <1>1 DEF AllTracked
    <3>2. PICK i \in DOMAIN tracks[t] : tracks[t][i].scan = n /\ tracks[t][i].cell = c
      BY <3>1
    <3> QED
      BY <1>3, <3>2
  <2> QED
    BY <1>4, <2>1
<1> QED
  BY <1>1, <1>4, <1>5 DEF CellsArePartitioned, Orderly

LEMMA AheadOfIt ==
    ASSUME TracksInv, NEW t \in Range(tracks), NEW target \in Destinations,
           Eta(t, target) # NoAnswer
    PROVE  /\ Len(t) >= 2
           /\ Apart(Last(t), [km |-> target]) <= Apart(t[Len(t) - 1], [km |-> target])
<1> DEFINE n == Len(t)
           here == t[n].km
           before == t[n - 1].km
           to == Trajectory(t)
<1>1. PICK k \in DOMAIN tracks : t = tracks[k]
  BY DEF Range
<1>2. tracks \in Tracked
  BY DEF TracksInv
<1>3. /\ n \in Nat /\ Last(t) = t[n] /\ DOMAIN t = 1 .. n /\ n \in DOMAIN t
      /\ \A i \in DOMAIN t : t[i] \in Obs
  BY <1>1, <1>2, LastOfTrack
<1> HIDE DEF n
<1>4. to # NoAnswer /\ ((target - here >= 0) = to.ahead)
  BY <1>3 DEF Eta
<1>5. n >= 2 /\ to.ahead = (here - before > 0)
  BY <1>4 DEF Trajectory, n
<1>6. here \in Int /\ before \in Int /\ target \in Int
  <2>1. n - 1 \in DOMAIN t
    BY <1>3, <1>5
  <2> QED
    BY <1>3, <2>1, TracksAssumption DEF Obs
<1> DEFINE it == [km |-> target]
<1>7. Apart(Last(t), it) = Length(here - target) /\ Apart(t[n - 1], it) = Length(before - target)
  BY <1>3 DEF Apart
<1>8. Length(here - target) <= Length(before - target)
  <2>1. (target - here >= 0) = (here - before > 0)
    BY <1>4, <1>5
  <2> HIDE DEF here, before
  <2>2. CASE target - here >= 0 /\ here - before > 0
    BY <1>6, <2>2 DEF Length
  <2>3. CASE ~(target - here >= 0) /\ ~(here - before > 0)
    BY <1>6, <2>3 DEF Length
  <2> QED
    BY <2>1, <2>2, <2>3
<1> QED
  BY <1>5, <1>7, <1>8 DEF n

LEMMA TracksHold == TracksSpec => []TracksInv
<1> QED
  BY TracksInitially, TracksKept, PTL DEF TracksSpec

\* The tracks stay well formed: none is empty and every observation is of a cell above
\* the threshold (CellDetector.detect, TrackBuilder._consume_frame).
THEOREM TracksTypeCorrect == TracksSpec => []TracksTypeOK
<1> QED
  BY TracksHold, TracksTypes, PTL

\* The cells of the frames are partitioned into tracks, a track only begins with a cell
\* that no older one that the frame left alone could have taken, and an arrival is told
\* only of a storm that comes nearer (TrackBuilder, estimate_trajectory, eta_minutes_to).
THEOREM StormsTracked == TracksSpec => []TracksAreStorms
<1>1. TracksInv => NewTracksAreNew
  BY DEF TracksInv, BornApart, NewTracksAreNew
<1>2. TracksInv => ArrivalsAreAhead
  BY AheadOfIt DEF ArrivalsAreAhead
<1>3. TracksInv => TracksAreStorms
  BY <1>1, <1>2, Partitioned DEF TracksAreStorms
<1> QED
  BY TracksHold, <1>3, PTL
=============================================================================
