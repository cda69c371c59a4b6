----------------------------- MODULE Migrations -----------------------------
(***************************************************************************)
(* The database's history: the migrations of backend/alembic/versions,     *)
(* applied and taken back in any order their parents allow, and the schema *)
(* that results.                                                           *)
(*                                                                         *)
(* alembic runs all the migrations of one command in one transaction       *)
(* (env.py): a command that fails leaves the schema as it was.             *)
(***************************************************************************)
EXTENDS Schema, Naturals, Sequences

VARIABLES
    applied,     \* the revisions applied, as positions in Revisions
    schema,
    phones       \* does push_subscriptions hold a phone, which has no endpoint?

migrationVars == <<applied, schema, phones>>

\* A migration creates tables and types (each only if it is not there, unless
\* `strict'), adds items to tables that are there, adds enumeration values, which
\* stay for ever, and drops items.  Its downgrade does the opposite.
NoChange == [create |-> {}, add |-> {}, labels |-> {}, drop |-> {}, mode |-> "guarded"]

-----------------------------------------------------------------------------
(* The migrations, oldest first *)

\* The frozen DDL (sql/0001_baseline_schema.sql), a dump of the schema as of AddLocationsColor.
BaselineTables ==
    PlainTable("alert_preferences", {"location_id", "alert_type", "enabled"}, {}, {ToLocation},
        {}, {{"location_id", "alert_type"}})
    \cup TenantTable("alerts",
             {"user_id", "location_id", "event_type", "level", "title", "message", "dedup_key"},
             {"storm_cell_id", "storm_risk_id", "convective_watch_id"}, {ToLocation, ToUser},
             {<<"convective_watch_id", "convective_watches">>, <<"storm_cell_id", "storm_cells">>,
              <<"storm_risk_id", "storm_risks">>}, {{"tenant_id", "dedup_key"}})
    \cup PlainTable("convective_watches",
             {"first_detected_at", "detected_at", "latitude", "longitude",
              "min_brightness_temp_k", "is_active", "is_mock", "experimental"},
             {"centroid", "geometry", "area_km2", "speed_kmh", "direction_deg"}, {}, {}, {})
    \cup PlainTable("lightning_strikes", {"detected_at", "latitude", "longitude", "is_mock"}, {},
             {}, {}, {})
    \cup TenantTable("locations",
             {"user_id", "name", "kind", "latitude", "longitude", "radius_km", "is_active"},
             {"parent_location_id", "crop", "boundary_geojson", "color", "geom"},
             {<<"parent_location_id", "locations">>, ToUser}, {}, {})
    \cup TenantTable("notifications", {"alert_id", "user_id", "channel", "status"},
             {"sent_at", "error"}, {ToAlert, ToUser}, {}, {})
    \cup TenantTable("push_subscriptions", {"user_id", "platform"},
             {"endpoint", "p256dh", "auth", "expo_push_token"}, {ToUser}, {},
             {{"endpoint"}, {"expo_push_token"}})
    \cup PlainTable("radar_frames", {"weather_source_id", "captured_at", "is_mock", "meta"}, {},
             {<<"weather_source_id", "weather_sources">>}, {}, {})
    \cup PlainTable("satellite_images",
             {"captured_at", "bbox_lon_min", "bbox_lat_min", "bbox_lon_max", "bbox_lat_max",
              "band", "width", "height", "png_data", "is_mock", "experimental"}, {}, {}, {}, {})
    \cup PlainTable("storm_cells",
             {"detected_at", "latitude", "longitude", "severity", "is_mock"},
             {"weather_source_id", "geometry", "centroid", "max_reflectivity",
              "average_reflectivity", "area_km2"}, {},
             {<<"weather_source_id", "weather_sources">>}, {})
    \cup PlainTable("storm_observations",
             {"storm_track_id", "observed_at", "latitude", "longitude"},
             {"geom", "speed_kmh", "direction_deg", "intensity", "trend"},
             {<<"storm_track_id", "storm_tracks">>}, {}, {})
    \cup TenantTable("storm_risks",
             {"location_id", "severity", "rain_risk", "wind_risk", "hail_risk", "lightning_risk",
              "computed_at", "is_mock", "experimental", "detail"},
             {"storm_cell_id", "storm_distance_km", "storm_speed_kmh", "eta_minutes"},
             {ToLocation}, {<<"storm_cell_id", "storm_cells">>}, {})
    \cup PlainTable("storm_tracks",
             {"storm_cell_id", "started_at", "last_observed_at", "is_active"}, {},
             {<<"storm_cell_id", "storm_cells">>}, {}, {})
    \cup PlainTable("tenants", {"name", "slug", "is_active"}, {}, {}, {}, {{"slug"}})
    \cup TenantTable("user_reports",
             {"user_id", "type", "latitude", "longitude", "confidence", "status", "reported_at"},
             {"geom", "description", "photo_url"}, {ToUser}, {}, {})
    \cup TenantTable("users", {"email", "hashed_password", "role", "is_active"},
             {"full_name", "google_sub"}, {}, {}, {{"email"}, {"google_sub"}})
    \cup PlainTable("weather_sources", {"name", "kind", "is_active", "config"}, {}, {}, {},
             {{"name"}})

BaselineTypes ==
    Labels("alert_event_type", {"STORM_DETECTED", "STORM_APPROACHING", "STORM_INTENSIFIED",
            "STORM_ENTERED_MONITORING_AREA", "STORM_RISK_CHANGED", "STORM_PASSED",
            "SATELLITE_WATCH_DETECTED", "SATELLITE_WATCH_DISSIPATED", "FROST_WARNING",
            "DRY_SPELL_WARNING"})
    \cup Labels("alert_type", {"RAIN_INTENSE", "SEVERE_STORM", "STRONG_WIND", "HAIL", "LIGHTNING",
            "SEVERE_CELL"})
    \cup Labels("notification_channel", {"PUSH", "EMAIL"})
    \cup Labels("notification_status", {"PENDING", "SENT", "FAILED", "SUPPRESSED"})
    \cup Labels("report_status", {"PENDING", "CONFIRMED", "REJECTED"})
    \cup Labels("report_type", {"HAIL", "STRONG_WIND", "FLOODING", "RAIN_INTENSE", "FALLEN_TREE",
            "LIGHTNING"})
    \cup Labels("risk_level", {"GREEN", "YELLOW", "ORANGE", "RED"})
    \cup Labels("storm_severity", {"WEAK", "MODERATE", "STRONG", "SEVERE"})
    \cup Labels("track_trend", {"INTENSIFYING", "STEADY", "WEAKENING"})
    \cup Labels("user_role", {"ADMIN", "USER", "METEOROLOGIST", "COMPANY_ADMIN", "OPERATOR"})
    \cup Labels("weather_source_kind", {"MOCK", "RADAR", "SATELLITE", "STATION",
            "OFFICIAL_WARNING", "FORECAST_MODEL"})

BootstrapSchema ==
    [NoChange EXCEPT !.create = BaselineTables \cup BaselineTypes,
        !.mode = "forced"]

AddUsersGoogleSub ==
    [NoChange EXCEPT !.add = Optional("users", {"google_sub"}) \cup Unique("users", {"google_sub"})]

AddConvectiveWatches ==
    [NoChange EXCEPT !.create =
            PlainTable("convective_watches",
                {"first_detected_at", "detected_at", "latitude", "longitude",
                 "min_brightness_temp_k", "is_active", "is_mock", "experimental"},
                {"centroid", "geometry", "area_km2", "speed_kmh", "direction_deg"}, {}, {}, {}),
        !.add = Optional("alerts", {"convective_watch_id"})
               \cup Clears("alerts", {<<"convective_watch_id", "convective_watches">>})]

AddSatelliteAlertEventTypes ==
    [NoChange EXCEPT !.labels = LabelsOf("alert_event_type",
            {"SATELLITE_WATCH_DETECTED", "SATELLITE_WATCH_DISSIPATED"})]

AddSatelliteImages ==
    [NoChange EXCEPT !.create =
            PlainTable("satellite_images",
                {"captured_at", "bbox_lon_min", "bbox_lat_min", "bbox_lon_max", "bbox_lat_max",
                 "band", "width", "height", "png_data", "is_mock", "experimental"}, {}, {}, {},
                {})]

AddAgroAlertEventTypes ==
    [NoChange EXCEPT !.labels = LabelsOf("alert_event_type",
            {"FROST_WARNING", "DRY_SPELL_WARNING"})]

AddPushSubscriptions ==
    [NoChange EXCEPT !.create =
            TenantTable("push_subscriptions", {"user_id", "endpoint", "p256dh", "auth"}, {},
                {ToUser}, {}, {{"endpoint"}})]

AddLightningStrikes ==
    [NoChange EXCEPT !.create =
            PlainTable("lightning_strikes", {"detected_at", "latitude", "longitude", "is_mock"},
                {}, {}, {}, {})]

AddLocationsParentAndCrop ==
    [NoChange EXCEPT !.add = Optional("locations", {"parent_location_id", "crop"})
               \cup Cascades("locations", {<<"parent_location_id", "locations">>})]

AddExpoPushSupport ==
    [NoChange EXCEPT !.add = Columns("push_subscriptions", {"platform"})
               \cup Optional("push_subscriptions", {"expo_push_token"})
               \cup Unique("push_subscriptions", {"expo_push_token"})
               \cup Nullable("push_subscriptions", {"endpoint", "p256dh", "auth"})]

AddLocationsBoundaryGeojson ==
    [NoChange EXCEPT !.add = Optional("locations", {"boundary_geojson"})]

AddLocationsColor ==
    [NoChange EXCEPT !.add = Optional("locations", {"color"})]

AddAlertVerifications ==
    [NoChange EXCEPT !.create =
            TenantTable("alert_verifications", {"alert_id"},
                {"confirmed", "actual_arrival_at", "verified_by", "verified_at", "notes",
                 "confidence"}, {ToAlert}, {<<"verified_by", "users">>}, {{"alert_id"}}),
        !.mode = "strict"]

AddUsersIsPlatformAdmin ==
    [NoChange EXCEPT !.add = Columns("users", {"is_platform_admin"})]

AddAdminAuditLog ==
    [NoChange EXCEPT !.create =
            PlainTable("admin_audit_log", {"actor_email", "action", "detail"},
                {"actor_user_id", "target_user_id", "target_email"}, {},
                {<<"actor_user_id", "users">>, <<"target_user_id", "users">>}, {})]

AddUsersLastLoginAt ==
    [NoChange EXCEPT !.add = Optional("users", {"last_login_at"})]

AddNdviReadings ==
    [NoChange EXCEPT !.create =
            TenantTable("ndvi_readings",
                {"location_id", "observed_at", "ndvi_mean", "valid_pixel_percent", "is_mock"}, {},
                {ToLocation}, {}, {})]

AddTenantsModuleFlags ==
    [NoChange EXCEPT !.add = Columns("tenants", {"storm_enabled", "agro_enabled"})]

\* The tables with a tenant_id there were, and the role the program runs as.
AddRowLevelSecurity ==
    [NoChange EXCEPT !.add = Isolated({"users", "locations", "alerts", "alert_verifications",
                         "ndvi_readings", "notifications", "push_subscriptions",
                         "user_reports", "storm_risks"})]

\* Unique is the blind index; the cipher text of an address is another each time.
EncryptUserPiiAtRest ==
    [NoChange EXCEPT !.add = Columns("users", {"email_index"})
               \cup Optional("users", {"google_sub_index"})
               \cup Unique("users", {"email_index"}) \cup Unique("users", {"google_sub_index"}),
        !.drop = Unique("users", {"email"}) \cup Unique("users", {"google_sub"})]

AddUsersAccountCycleFields ==
    [NoChange EXCEPT !.add = Columns("users", {"email_verified"})
               \cup Optional("users", {"email_verified_at", "terms_accepted_at"})]

AddStormRisksAiSummary ==
    [NoChange EXCEPT !.add = Optional("storm_risks", {"ai_summary"})]

AddApiKeys ==
    [NoChange EXCEPT !.create =
            TenantTable("api_keys", {"user_id", "name", "key_prefix", "key_hash"},
                {"last_used_at", "revoked_at"}, {ToUser}, {}, {{"key_hash"}}),
        !.add = Isolated({"api_keys"})]

AddOfficialWarningEventType ==
    [NoChange EXCEPT !.labels = LabelsOf("alert_event_type", {"OFFICIAL_WARNING"})]

AddLocationsSoilType ==
    [NoChange EXCEPT !.add = Optional("locations", {"soil_type"})]

AddZarcRiskWindows ==
    [NoChange EXCEPT !.create =
            PlainTable("zarc_risk_windows",
                {"geocodigo", "uf", "municipio", "cultura", "cod_ciclo", "cod_solo", "safra_ini",
                 "safra_fin", "decendios"}, {"portaria"}, {}, {}, {})]

\* Rows only.
CleanupNanNdviReadings ==
    NoChange

AddNdviImages ==
    [NoChange EXCEPT !.create =
            TenantTable("ndvi_images", {"location_id", "observed_at", "png_data", "is_mock"}, {},
                {ToLocation}, {}, {{"location_id"}}),
        !.add = Isolated({"ndvi_images"})]

AddDeforestationChecks ==
    [NoChange EXCEPT !.create =
            TenantTable("deforestation_checks",
                {"location_id", "source", "checked_at", "alert_count", "alerts_json"}, {},
                {ToLocation}, {}, {{"location_id", "source"}}),
        !.add = Isolated({"deforestation_checks"})]

AddNotificationRetryFields ==
    [NoChange EXCEPT !.add = Columns("notifications", {"attempts"})
               \cup Optional("notifications", {"next_retry_at"})]

AddForecastSnapshots ==
    [NoChange EXCEPT !.create =
            TenantTable("forecast_snapshots",
                {"location_id", "provider", "model", "target_date", "horizon_hours",
                 "snapshot_taken_at"},
                {"temperature_max_predicted_c", "precipitation_predicted_mm",
                 "precipitation_probability_percent", "wind_gusts_predicted_kmh", "observed_at",
                 "temperature_max_observed_c", "precipitation_observed_mm",
                 "wind_gusts_observed_kmh"}, {ToLocation}, {},
                {{"location_id", "provider", "model", "target_date", "horizon_hours"}}),
        !.add = Isolated({"forecast_snapshots"})]

AddAlertRulesEnumValues ==
    [NoChange EXCEPT !.labels = LabelsOf("notification_channel", {"WEBHOOK", "WHATSAPP", "SMS"})
                  \cup LabelsOf("alert_event_type", {"CUSTOM_RULE"})]

AlertRulesTables ==
    TenantTable("alert_rules",
        {"location_id", "user_id", "name", "enabled", "lead_time_minutes", "cooldown_minutes"},
        {"quiet_hours_start", "quiet_hours_end", "last_fired_at"}, {ToLocation, ToUser}, {}, {})
    \cup TenantTable("alert_conditions",
             {"rule_id", "metric", "operator", "threshold", "group_index"}, {}, {ToRule}, {}, {})
    \cup TenantTable("alert_channels", {"kind", "name", "enabled"},
             {"webhook_url", "webhook_secret_encrypted", "phone_number"}, {}, {}, {})
    \cup TenantTable("alert_recipients", {"rule_id", "channel_id", "enabled"}, {"user_id"},
             {ToRule, <<"channel_id", "alert_channels">>, ToUser}, {}, {})

AlertEventsTables ==
    TenantTable("alert_events",
        {"rule_id", "location_id", "status", "opened_at", "last_updated_at", "snapshot_json"},
        {"alert_id", "closed_at"}, {ToRule, ToLocation}, {ToAlert}, {})
    \cup TenantTable("alert_deliveries",
             {"event_id", "recipient_id", "notice_kind", "channel_kind", "status", "attempts"},
             {"next_retry_at", "sent_at", "error"},
             {<<"event_id", "alert_events">>, <<"recipient_id", "alert_recipients">>}, {}, {})
    \cup TenantTable("alert_acknowledgements", {"event_id", "acknowledged_by", "acknowledged_at"},
             {"notes"}, {<<"event_id", "alert_events">>, <<"acknowledged_by", "users">>}, {},
             {{"event_id"}})
    \cup TenantTable("alert_escalations",
             {"rule_id", "step_order", "delay_minutes", "recipient_id", "enabled"}, {},
             {ToRule, <<"recipient_id", "alert_recipients">>}, {}, {})

AddAlertRulesTables ==
    [NoChange EXCEPT !.create = AlertRulesTables \cup AlertEventsTables
                  \cup Labels("alert_event_status", {"OPEN", "UPDATED", "CLOSED"}),
        !.add = Isolated({"alert_rules", "alert_conditions", "alert_channels", "alert_recipients",
                         "alert_events", "alert_deliveries", "alert_acknowledgements",
                         "alert_escalations"})]

\* Both histories get the same columns.
VegetationColumns(t) ==
    Columns(t, {"index_name", "source_name", "cloud_cover_percent", "quality", "reliable"})

\* Mutant: an image per location remains unique.
AddVegetationIndexHistory_KeepsKey ==
    [NoChange EXCEPT !.add = VegetationColumns("ndvi_readings")
               \cup VegetationColumns("ndvi_images")
               \cup Columns("ndvi_readings", {"vigor_zones_json"})
               \cup Unique("ndvi_images", {"location_id", "index_name", "observed_at"}),
        !.labels = LabelsOf("alert_event_type", {"VEGETATION_INDEX_DROP"})]

AddVegetationIndexHistory ==
    [NoChange EXCEPT !.add = VegetationColumns("ndvi_readings")
               \cup VegetationColumns("ndvi_images")
               \cup Columns("ndvi_readings", {"vigor_zones_json"})
               \cup Unique("ndvi_images", {"location_id", "index_name", "observed_at"}),
        !.drop = Unique("ndvi_images", {"location_id"}),
        !.labels = LabelsOf("alert_event_type", {"VEGETATION_INDEX_DROP"})]

AddOrganizationsAndTeamAccess ==
    [NoChange EXCEPT !.create =
            TenantTable("organization_invitations",
                {"email", "email_index", "role", "token_hash", "expires_at",
                 "invited_by_user_id"},
                {"location_id", "access_expires_at", "accepted_at", "revoked_at",
                 "accepted_by_user_id"}, {ToLocation, <<"invited_by_user_id", "users">>},
                {<<"accepted_by_user_id", "users">>}, {{"token_hash"}})
            \cup TenantTable("location_access_grants",
                     {"user_id", "location_id", "granted_by_user_id"},
                     {"expires_at", "revoked_at"},
                     {ToUser, ToLocation, <<"granted_by_user_id", "users">>}, {},
                     {{"user_id", "location_id"}})
            \cup TenantTable("access_audit_logs", {"action", "detail_json"},
                     {"actor_user_id", "target_user_id", "location_id"}, {},
                     {<<"actor_user_id", "users">>, <<"target_user_id", "users">>, ToLocation},
                     {}),
        !.add = Isolated({"organization_invitations", "location_access_grants",
                          "access_audit_logs"})
               \cup Columns("users", {"organization_wide_access"})
               \cup Optional("users", {"access_expires_at"}),
        !.labels = LabelsOf("user_role", {"OWNER", "AGRONOMIST", "VIEWER"})]

MergeAlertRulesAndOrganizations ==
    NoChange

\* Mutant: the new table gets no policy.
AddRecommendedActions_NoPolicy ==
    [NoChange EXCEPT !.create =
            TenantTable("recommended_actions",
                {"location_id", "rule_key", "title", "message", "level", "snapshot_json"},
                {"alert_id"}, {ToLocation}, {ToAlert}, {})]

AddRecommendedActions ==
    [NoChange EXCEPT !.create =
            TenantTable("recommended_actions",
                {"location_id", "rule_key", "title", "message", "level", "snapshot_json"},
                {"alert_id"}, {ToLocation}, {ToAlert}, {}),
        !.add = Isolated({"recommended_actions"})]

FieldNotebookTables ==
    TenantTable("field_occurrences",
        {"location_id", "category", "description", "latitude", "longitude", "status",
         "reported_by", "reported_at", "version"}, {"alert_id", "recommended_action_id"},
        {ToLocation, <<"reported_by", "users">>},
        {ToAlert, <<"recommended_action_id", "recommended_actions">>}, {})
    \cup TenantTable("field_inspections",
             {"location_id", "notes", "inspected_by", "inspected_at", "version"},
             {"occurrence_id", "latitude", "longitude"},
             {ToLocation, <<"inspected_by", "users">>},
             {<<"occurrence_id", "field_occurrences">>}, {})
    \cup TenantTable("field_tasks", {"location_id", "title", "status", "version"},
             {"occurrence_id", "alert_id", "recommended_action_id", "description", "assigned_to",
              "due_at", "completed_by", "completed_at"}, {ToLocation},
             {<<"occurrence_id", "field_occurrences">>, ToAlert,
              <<"recommended_action_id", "recommended_actions">>, <<"assigned_to", "users">>,
              <<"completed_by", "users">>}, {})
    \cup TenantTable("field_photos",
             {"inspection_id", "object_key", "content_type", "size_bytes", "checksum_sha256",
              "uploaded_by", "uploaded_at"}, {},
             {<<"inspection_id", "field_inspections">>, <<"uploaded_by", "users">>}, {}, {})

AddFieldNotebookTables ==
    [NoChange EXCEPT !.create = FieldNotebookTables
                  \cup Labels("field_occurrence_status", {"OPEN", "RESOLVED"})
                  \cup Labels("field_task_status", {"PENDING", "IN_PROGRESS", "DONE", "CANCELLED"}),
        !.add = Isolated({"field_occurrences", "field_inspections", "field_tasks", "field_photos"})]

-----------------------------------------------------------------------------
(* alembic *)

Revisions == <<
    BootstrapSchema, AddUsersGoogleSub, AddConvectiveWatches, AddSatelliteAlertEventTypes,
    AddSatelliteImages, AddAgroAlertEventTypes, AddPushSubscriptions, AddLightningStrikes,
    AddLocationsParentAndCrop, AddExpoPushSupport, AddLocationsBoundaryGeojson,
    AddLocationsColor, AddAlertVerifications, AddUsersIsPlatformAdmin, AddAdminAuditLog,
    AddUsersLastLoginAt, AddNdviReadings, AddTenantsModuleFlags, AddRowLevelSecurity,
    EncryptUserPiiAtRest, AddUsersAccountCycleFields, AddStormRisksAiSummary, AddApiKeys,
    AddOfficialWarningEventType, AddLocationsSoilType, AddZarcRiskWindows,
    CleanupNanNdviReadings, AddNdviImages, AddDeforestationChecks, AddNotificationRetryFields,
    AddForecastSnapshots, AddAlertRulesEnumValues, AddAlertRulesTables,
    AddVegetationIndexHistory, AddOrganizationsAndTeamAccess, MergeAlertRulesAndOrganizations,
    AddRecommendedActions, AddFieldNotebookTables>>

Applicable == 1 .. Len(Revisions)
Branch == 31   \* AddForecastSnapshots: alert rules and organizations both follow it
Merge == 36

\* Mutant: the second branch leaves from the baseline, before the tables it alters.
Parents_EarlyBranch(r) == CASE r = 1 -> {}
                            [] r = Branch + 3 -> {1}
                            [] r = Merge -> {Branch + 2, Branch + 4}
                            [] OTHER -> {r - 1}

\* down_revision.
Parents(r) == CASE r = 1 -> {}
                [] r = Branch + 3 -> {Branch}
                [] r = Merge -> {Branch + 2, Branch + 4}
                [] OTHER -> {r - 1}

Created(m) == {ItemOf(i) : i \in {j \in m.create : j[1] \in {"table", "type"}}}
HasTable(s, t) == <<"table", t>> \in s

\* Unguarded tables are new, and what is altered or referred to is there.
UpgradeWorks(s, m) ==
    LET known == s \cup m.create IN
    /\ m.mode = "strict" => \A i \in s : ItemOf(i) \notin Created(m)
    /\ \A i \in m.add : HasTable(known, ItemOf(i))
    /\ \A i \in m.create \cup m.add : i[1] = "ref" => HasTable(known, i[4])
    /\ \A i \in m.labels : <<"type", ItemOf(i)>> \in s

Upgraded(s, m) ==
    (s \cup {i \in m.create : \A j \in s : ItemOf(i) # ItemOf(j)} \cup m.add \cup m.labels) \ m.drop

\* What is dropped is there, and nobody else refers to it.
DowngradeWorks(s, m) ==
    m.mode = "forced" \/
    /\ \A i \in m.create : i[1] = "table" => i \in s
    /\ \A i \in m.add : i[1] \in {"column", "unique"} => i \in s
    /\ \A i \in s \ m.add : i[1] = "ref" /\ i[4] \in Created(m) => ItemOf(i) \in Created(m)

Downgraded(s, m) == ({i \in s : ItemOf(i) \notin Created(m)} \ m.add) \cup m.drop

MayUpgrade(r) == r \notin applied /\ Parents(r) \subseteq applied
MayDowngrade(r) == r \in applied /\ \A q \in applied : r \notin Parents(q)

\* SET NOT NULL on a column that holds a NULL.
Refused(r) == phones /\ Nullable("push_subscriptions", {"endpoint"}) \subseteq Revisions[r].add

Upgrade(r) ==
    /\ MayUpgrade(r) /\ UpgradeWorks(schema, Revisions[r])
    /\ applied' = applied \cup {r}
    /\ schema' = Upgraded(schema, Revisions[r])
    /\ UNCHANGED phones

Downgrade(r) ==
    /\ MayDowngrade(r) /\ DowngradeWorks(schema, Revisions[r]) /\ ~Refused(r)
    /\ applied' = applied \ {r}
    /\ schema' = Downgraded(schema, Revisions[r])
    /\ UNCHANGED phones

\* The program, which runs on the newest schema: a phone registers with its Expo
\* token, or the last one goes.
RegisterPhone == /\ applied = Applicable /\ ~phones /\ phones' = TRUE
                 /\ UNCHANGED <<applied, schema>>
ForgetPhones == /\ applied = Applicable /\ phones /\ phones' = FALSE
                /\ UNCHANGED <<applied, schema>>

-----------------------------------------------------------------------------
MigrationInit == applied = {} /\ schema = {} /\ phones = FALSE

MigrationNext == \/ \E r \in Applicable : Upgrade(r) \/ Downgrade(r)
                 \/ RegisterPhone \/ ForgetPhones

MigrationSpec == MigrationInit /\ [][MigrationNext]_migrationVars

-----------------------------------------------------------------------------
(* Properties *)

\* The applied revisions are closed under parents; an item belongs to a table or
\* type of the schema, and a reference to a table of it.
MigrationTypeOK ==
    /\ applied \subseteq Applicable /\ \A r \in applied : Parents(r) \subseteq applied
    /\ phones \in BOOLEAN
    /\ \A i \in schema : /\ {<<"table", ItemOf(i)>>, <<"type", ItemOf(i)>>} \cap schema # {}
                         /\ i[1] = "ref" => HasTable(schema, i[4])

\* Whatever was applied and taken back before, the next upgrade of every branch
\* works, and so does the downgrade of every head, except that the database cannot
\* go back to before AddExpoPushSupport while a phone is registered.
EveryStepApplies ==
    \A r \in Applicable :
        /\ MayUpgrade(r) => UpgradeWorks(schema, Revisions[r])
        /\ MayDowngrade(r) => DowngradeWorks(schema, Revisions[r])

\* However it got there, the newest schema is what the models describe: tables,
\* columns and which of them may be NULL, references, unique keys, and every value
\* of every enumeration.  And from AddRowLevelSecurity on, every table with a
\* tenant_id is isolated, whichever branch added it.
HeadMatchesModels ==
    /\ applied = Applicable => {i \in schema : i[1] # "policy"} = Models
    /\ \A i \in schema : /\ i[1] = "column" /\ i[3] = "tenant_id"
                         /\ Isolated({"users"}) \subseteq schema
                         => Isolated({ItemOf(i)}) \subseteq schema
=============================================================================
