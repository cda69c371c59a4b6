----------------------------- MODULE MCServices -----------------------------
(***************************************************************************)
(* The parts of the program that share no table and no step with the alert *)
(* pipelines or with one another, in one run.  A behaviour is one part's:  *)
(* `part' says whose, and the others stay as they began.                   *)
(***************************************************************************)
EXTENDS FieldNotes, FieldEdits, NotificationDelivery, Membership, SatelliteWatches, Migrations,
        Vegetation, DataCycles, Advisories, StormTracks, ForecastScores

CONSTANTS o1, i1, t1,                \* notes
          e1, e2,                    \* clients that edit them
          n1, n2, u1, u2, browser, phone,
          p1, p2, p3, farm, plot, invite1, invite2,
          l1, l2,                    \* locations under the satellite
          f1, s1                     \* a plot, a farm

VARIABLE part

MCRefersTo == [n \in Notes |-> IF n = i1 THEN o1 ELSE Nothing]
MCKindOf == [n \in Records |-> CASE n = o1 -> "occurrence" [] n = i1 -> "inspection"
                                 [] n = t1 -> "task"]

MCOneTenant == [u \in Users |-> "family"]

MCParent == [f \in Farms |-> IF f = plot THEN farm ELSE NoOne]
Change(role, wide, fs, until) == [role |-> role, wide |-> wide, farms |-> fs, until |-> until]
MCChanges == {Change("manager", NoOne, NoOne, NoOne), Change(NoOne, TRUE, NoOne, Never),
              Change(NoOne, NoOne, {farm}, 1)}

MCSkies == {<<>>, <<1>>, <<0, 1>>, <<1, 0>>, <<3>>}
MCSiteAt == [l \in Sites |-> IF l = l1 THEN 0 ELSE 2]
MCSiteRadius == [l \in Sites |-> 1]

MCIndexAt == <<80, 70, 60>>

\* A station that fails but for today and yesterday; one whose answer for yesterday has
\* no rain in it; one that never has.
Gauge(now, before, other) ==
    [d \in 0 .. RainWindow |-> IF d = 0 THEN now ELSE IF d = 1 THEN before ELSE other]
MCGauges == {Gauge(5, 0, Unreachable), Gauge(0, Unread, 20), Gauge(5, Unread, Unread)}
Bulletin(text, severity, dated) == [text |-> text, severity |-> severity, dated |-> dated]
MCBulletins == {Bulletin("heat", "perigo", TRUE), Bulletin("hail", "grande perigo", FALSE)}

MCDownloads == {<<>>, <<1, Unzoned>>, <<2, 1>>}

Cell(km, dbz) == [km |-> km, dbz |-> dbz]
MCScans == {<<>>, <<Cell(0, 45)>>, <<Cell(30, 56)>>, <<Cell(30, 42), Cell(60, 30)>>,
            <<Cell(60, 50), Cell(0, 36)>>, <<Cell(90, 60), Cell(30, 40), Cell(60, 50)>>}

\* The scores of forecasts, over all short samples.
MCOutcomes == [event : {"hail", "rain"}, predicted : BOOLEAN, observed : BOOLEAN]
MCAmounts == {Unsaid, 0, 4}
MCSamples == [model : {"gfs"}, temp : {<<20, 22>>, <<20, Unsaid>>}, wind : {<<30, 25>>},
              rain : MCAmounts \X MCAmounts, chance : {Unsaid, 0, 60, 100}]
ASSUME PrecisionHolds == \A n \in 0 .. 3 : \A f \in [1 .. n -> MCOutcomes] :
    GroupsAddUp(f) /\ MeansAgree(f)
ASSUME ScoresHold == \A n \in 0 .. 2 : \A f \in [1 .. n -> MCSamples] : ScoresAgree(f)

-----------------------------------------------------------------------------
serverVars == <<fieldVars, editVars, notifVars, membershipVars, satVars, migrationVars>>
workerVars == <<vegetationVars, dataVars, advisoryVars, trackVars>>
servicesVars == <<part, serverVars, workerVars>>

ServicesInit ==
    /\ part \in {"notes", "edits", "notifications", "members", "satellite", "migrations",
                 "vegetation", "deforestation", "planting", "lightning", "forecasts",
                 "advisories", "tracks"}
    /\ FieldInit /\ EditInit /\ NotifInit /\ MembershipInit /\ SatInit /\ MigrationInit
    /\ VegetationInit /\ DataInit /\ AdvisoriesInit /\ TracksInit

ServicesNext ==
    /\ UNCHANGED part
    /\ \/ /\ part = "notes" /\ FieldNext
          /\ UNCHANGED <<editVars, notifVars, membershipVars, satVars, migrationVars, workerVars>>
       \/ /\ part = "edits" /\ EditNext
          /\ UNCHANGED <<fieldVars, notifVars, membershipVars, satVars, migrationVars, workerVars>>
       \/ /\ part = "notifications" /\ NotifNext
          /\ UNCHANGED <<fieldVars, editVars, membershipVars, satVars, migrationVars, workerVars>>
       \/ /\ part = "members" /\ MembershipNext
          /\ UNCHANGED <<fieldVars, editVars, notifVars, satVars, migrationVars, workerVars>>
       \/ /\ part = "satellite" /\ SatNext
          /\ UNCHANGED <<fieldVars, editVars, notifVars, membershipVars, migrationVars, workerVars>>
       \/ /\ part = "migrations" /\ MigrationNext
          /\ UNCHANGED <<fieldVars, editVars, notifVars, membershipVars, satVars, workerVars>>
       \/ /\ part = "vegetation" /\ VegetationNext
          /\ UNCHANGED <<serverVars, dataVars, advisoryVars, trackVars>>
       \/ /\ part = "deforestation" /\ DeforestationNext
          /\ UNCHANGED <<serverVars, vegetationVars, advisoryVars, trackVars>>
       \/ /\ part = "planting" /\ PlantingNext
          /\ UNCHANGED <<serverVars, vegetationVars, advisoryVars, trackVars>>
       \/ /\ part = "lightning" /\ LightningNext
          /\ UNCHANGED <<serverVars, vegetationVars, advisoryVars, trackVars>>
       \/ /\ part = "forecasts" /\ ForecastNext
          /\ UNCHANGED <<serverVars, vegetationVars, advisoryVars, trackVars>>
       \/ /\ part = "advisories" /\ AdvisoriesNext
          /\ UNCHANGED <<serverVars, vegetationVars, dataVars, trackVars>>
       \/ /\ part = "tracks" /\ TracksNext
          /\ UNCHANGED <<serverVars, vegetationVars, dataVars, advisoryVars>>

\* FieldFairness and NotifFairness, while the part is the one that runs.
ServicesFairness ==
    /\ WF_fieldVars(part = "notes" /\ FlushStep)
    /\ \A n \in Notes : WF_fieldVars(part = "notes" /\ ServeRequest([note |-> n, via |-> "flush"]))
    /\ WF_notifVars(part = "notifications" /\ NotifCycle)
    /\ WF_notifVars(part = "notifications" /\ MinutePasses)

ServicesSpec == ServicesInit /\ [][ServicesNext]_servicesVars /\ ServicesFairness

-----------------------------------------------------------------------------
\* Every part's types: its tables hold what their columns allow, and no row
\* refers to one that has gone.
ServicesTypeOK ==
    /\ FieldTypeOK /\ EditTypeOK /\ NotifTypeOK /\ MembershipTypeOK /\ SatTypeOK
    /\ MigrationTypeOK /\ VegetationTypeOK /\ DataTypeOK /\ AdvisoriesTypeOK /\ TracksTypeOK
=============================================================================
