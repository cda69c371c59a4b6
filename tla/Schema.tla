------------------------------- MODULE Schema -------------------------------
(***************************************************************************)
(* What a database schema is made of, and the schema the ORM models        *)
(* (app/*/models.py) describe.  A schema is a set of items, the first      *)
(* element of an item its kind, the second the table or type it is of.     *)
(* Columns' types and indexes that are not unique are left out.            *)
(***************************************************************************)

ItemOf(i) == i[2]
Columns(t, names) == {<<"column", t, c>> : c \in names}
\* Columns that may be NULL.
Nullable(t, names) == {<<"null", t, c>> : c \in names}
Optional(t, names) == Columns(t, names) \cup Nullable(t, names)
\* References: <<column, table>> pairs, and what deleting the other row does.
Cascades(t, refs) == {<<"ref", t, r[1], r[2], "CASCADE">> : r \in refs}
Clears(t, refs) == {<<"ref", t, r[1], r[2], "SET NULL">> : r \in refs}
Unique(t, columns) == {<<"unique", t, columns>>}
\* Row-level security, forced, with the policy `tenant_isolation'.
Isolated(tables) == {<<"policy", t>> : t \in tables}

LabelsOf(type, values) == {<<"label", type, v>> : v \in values}
Labels(type, values) == {<<"type", type>>} \cup LabelsOf(type, values)

PlainTable(t, required, optional, cascades, clears, keys) ==
    {<<"table", t>>}
    \cup Columns(t, required \cup {"id", "created_at", "updated_at"}) \cup Optional(t, optional)
    \cup Cascades(t, cascades) \cup Clears(t, clears) \cup {<<"unique", t, k>> : k \in keys}

TenantTable(t, required, optional, cascades, clears, keys) ==
    PlainTable(t, required \cup {"tenant_id"}, optional,
               cascades \cup {<<"tenant_id", "tenants">>}, clears, keys)

ToAlert == <<"alert_id", "alerts">>
ToLocation == <<"location_id", "locations">>
ToRule == <<"rule_id", "alert_rules">>
ToUser == <<"user_id", "users">>

-----------------------------------------------------------------------------
(* The models *)

\* app/admin/models.py
AdminModels ==
    PlainTable("admin_audit_log", {"actor_email", "action", "detail"},
        {"actor_user_id", "target_user_id", "target_email"}, {},
        {<<"actor_user_id", "users">>, <<"target_user_id", "users">>}, {})

\* app/alert_rules/models.py
AlertRulesModels ==
    TenantTable("alert_rules",
        {"location_id", "user_id", "name", "enabled", "lead_time_minutes", "cooldown_minutes"},
        {"quiet_hours_start", "quiet_hours_end", "last_fired_at"}, {ToLocation, ToUser}, {}, {})
    \cup TenantTable("alert_conditions",
             {"rule_id", "metric", "operator", "threshold", "group_index"}, {}, {ToRule}, {}, {})
    \cup TenantTable("alert_channels", {"kind", "name", "enabled"},
             {"webhook_url", "webhook_secret_encrypted", "phone_number"}, {}, {}, {})
    \cup TenantTable("alert_recipients", {"rule_id", "channel_id", "enabled"}, {"user_id"},
             {ToRule, <<"channel_id", "alert_channels">>, ToUser}, {}, {})
    \cup TenantTable("alert_events",
             {"rule_id", "location_id", "status", "opened_at", "last_updated_at",
              "snapshot_json"}, {"alert_id", "closed_at"}, {ToRule, ToLocation}, {ToAlert}, {})
    \cup TenantTable("alert_deliveries",
             {"event_id", "recipient_id", "notice_kind", "channel_kind", "status", "attempts"},
             {"next_retry_at", "sent_at", "error"},
             {<<"event_id", "alert_events">>, <<"recipient_id", "alert_recipients">>}, {}, {})
    \cup TenantTable("alert_acknowledgements", {"event_id", "acknowledged_by", "acknowledged_at"},
             {"notes"}, {<<"event_id", "alert_events">>, <<"acknowledged_by", "users">>}, {},
             {{"event_id"}})
    \cup TenantTable("alert_escalations",
             {"rule_id", "step_order", "delay_minutes", "recipient_id", "enabled"}, {},
             {ToRule, <<"recipient_id", "alert_recipients">>}, {}, {})

\* app/alerts/models.py
AlertsModels ==
    TenantTable("alerts",
        {"user_id", "location_id", "event_type", "level", "title", "message", "dedup_key"},
        {"storm_cell_id", "storm_risk_id", "convective_watch_id"}, {ToUser, ToLocation},
        {<<"storm_cell_id", "storm_cells">>, <<"storm_risk_id", "storm_risks">>,
         <<"convective_watch_id", "convective_watches">>}, {{"tenant_id", "dedup_key"}})

\* app/alerts/verification_models.py
VerificationModels ==
    TenantTable("alert_verifications", {"alert_id"},
        {"confirmed", "actual_arrival_at", "verified_by", "verified_at", "notes", "confidence"},
        {ToAlert}, {<<"verified_by", "users">>}, {{"alert_id"}})

\* app/apikeys/models.py
ApikeysModels ==
    TenantTable("api_keys", {"user_id", "name", "key_prefix", "key_hash"},
        {"last_used_at", "revoked_at"}, {ToUser}, {}, {{"key_hash"}})

\* app/deforestation/models.py
DeforestationModels ==
    TenantTable("deforestation_checks",
        {"location_id", "source", "checked_at", "alert_count", "alerts_json"}, {}, {ToLocation},
        {}, {{"location_id", "source"}})

\* app/fieldnotes/models.py
FieldnotesModels ==
    TenantTable("field_occurrences",
        {"location_id", "category", "description", "latitude", "longitude", "status",
         "reported_by", "reported_at", "version"}, {"alert_id", "recommended_action_id"},
        {ToLocation, <<"reported_by", "users">>},
        {ToAlert, <<"recommended_action_id", "recommended_actions">>}, {})
    \cup TenantTable("field_inspections",
             {"location_id", "notes", "inspected_by", "inspected_at", "version"},
             {"occurrence_id", "latitude", "longitude"},
             {ToLocation, <<"inspected_by", "users">>},
             {<<"occurrence_id", "field_occurrences">>}, {})
    \cup TenantTable("field_tasks", {"location_id", "title", "status", "version"},
             {"occurrence_id", "alert_id", "recommended_action_id", "description", "assigned_to",
              "due_at", "completed_by", "completed_at"}, {ToLocation},
             {<<"occurrence_id", "field_occurrences">>, ToAlert,
              <<"recommended_action_id", "recommended_actions">>, <<"assigned_to", "users">>,
              <<"completed_by", "users">>}, {})
    \cup TenantTable("field_photos",
             {"inspection_id", "object_key", "content_type", "size_bytes", "checksum_sha256",
              "uploaded_by", "uploaded_at"}, {},
             {<<"inspection_id", "field_inspections">>, <<"uploaded_by", "users">>}, {}, {})

\* app/forecast_comparison/models.py
ForecastComparisonModels ==
    TenantTable("forecast_snapshots",
        {"location_id", "provider", "model", "target_date", "horizon_hours", "snapshot_taken_at"},
        {"temperature_max_predicted_c", "precipitation_predicted_mm",
         "precipitation_probability_percent", "wind_gusts_predicted_kmh", "observed_at",
         "temperature_max_observed_c", "precipitation_observed_mm", "wind_gusts_observed_kmh"},
        {ToLocation}, {}, {{"location_id", "provider", "model", "target_date", "horizon_hours"}})

\* app/lightning/models.py
LightningModels ==
    PlainTable("lightning_strikes", {"detected_at", "latitude", "longitude", "is_mock"}, {}, {},
        {}, {})

\* app/locations/models.py
LocationsModels ==
    TenantTable("locations",
        {"user_id", "name", "kind", "latitude", "longitude", "radius_km", "is_active"},
        {"parent_location_id", "crop", "soil_type", "boundary_geojson", "color", "geom"},
        {ToUser, <<"parent_location_id", "locations">>}, {}, {})
    \cup PlainTable("alert_preferences", {"location_id", "alert_type", "enabled"}, {},
             {ToLocation}, {}, {{"location_id", "alert_type"}})

\* app/ndvi/models.py
NdviModels ==
    TenantTable("ndvi_readings",
        {"location_id", "observed_at", "ndvi_mean", "valid_pixel_percent", "index_name",
         "source_name", "cloud_cover_percent", "quality", "reliable", "vigor_zones_json",
         "is_mock"}, {}, {ToLocation}, {}, {})
    \cup TenantTable("ndvi_images",
             {"location_id", "observed_at", "index_name", "source_name", "cloud_cover_percent",
              "quality", "reliable", "png_data", "is_mock"}, {}, {ToLocation}, {},
             {{"location_id", "index_name", "observed_at"}})

\* app/notifications/models.py
NotificationsModels ==
    TenantTable("notifications", {"alert_id", "user_id", "channel", "status", "attempts"},
        {"sent_at", "error", "next_retry_at"}, {ToAlert, ToUser}, {}, {})
    \cup TenantTable("push_subscriptions", {"user_id", "platform"},
             {"endpoint", "p256dh", "auth", "expo_push_token"}, {ToUser}, {},
             {{"endpoint"}, {"expo_push_token"}})

\* app/organizations/models.py
OrganizationsModels ==
    TenantTable("organization_invitations",
        {"email", "email_index", "role", "token_hash", "expires_at", "invited_by_user_id"},
        {"location_id", "access_expires_at", "accepted_at", "revoked_at", "accepted_by_user_id"},
        {ToLocation, <<"invited_by_user_id", "users">>}, {<<"accepted_by_user_id", "users">>},
        {{"token_hash"}})
    \cup TenantTable("location_access_grants", {"user_id", "location_id", "granted_by_user_id"},
             {"expires_at", "revoked_at"},
             {ToUser, ToLocation, <<"granted_by_user_id", "users">>}, {},
             {{"user_id", "location_id"}})
    \cup TenantTable("access_audit_logs", {"action", "detail_json"},
             {"actor_user_id", "target_user_id", "location_id"}, {},
             {<<"actor_user_id", "users">>, <<"target_user_id", "users">>, ToLocation}, {})

\* app/recommendations/models.py
RecommendationsModels ==
    TenantTable("recommended_actions",
        {"location_id", "rule_key", "title", "message", "level", "snapshot_json"}, {"alert_id"},
        {ToLocation}, {ToAlert}, {})

\* app/reports/models.py
ReportsModels ==
    TenantTable("user_reports",
        {"user_id", "type", "latitude", "longitude", "confidence", "status", "reported_at"},
        {"geom", "description", "photo_url"}, {ToUser}, {}, {})

\* app/satellite/models.py
SatelliteModels ==
    PlainTable("convective_watches",
        {"first_detected_at", "detected_at", "latitude", "longitude", "min_brightness_temp_k",
         "is_active", "is_mock", "experimental"},
        {"centroid", "geometry", "area_km2", "speed_kmh", "direction_deg"}, {}, {}, {})
    \cup PlainTable("satellite_images",
             {"captured_at", "bbox_lon_min", "bbox_lat_min", "bbox_lon_max", "bbox_lat_max",
              "band", "width", "height", "png_data", "is_mock", "experimental"}, {}, {}, {}, {})

\* app/storms/models.py
StormsModels ==
    PlainTable("storm_cells", {"detected_at", "latitude", "longitude", "severity", "is_mock"},
        {"weather_source_id", "geometry", "centroid", "max_reflectivity", "average_reflectivity",
         "area_km2"}, {}, {<<"weather_source_id", "weather_sources">>}, {})
    \cup PlainTable("storm_tracks",
             {"storm_cell_id", "started_at", "last_observed_at", "is_active"}, {},
             {<<"storm_cell_id", "storm_cells">>}, {}, {})
    \cup PlainTable("storm_observations",
             {"storm_track_id", "observed_at", "latitude", "longitude"},
             {"geom", "speed_kmh", "direction_deg", "intensity", "trend"},
             {<<"storm_track_id", "storm_tracks">>}, {}, {})
    \cup TenantTable("storm_risks",
             {"location_id", "severity", "rain_risk", "wind_risk", "hail_risk", "lightning_risk",
              "computed_at", "is_mock", "experimental", "detail"},
             {"storm_cell_id", "storm_distance_km", "storm_speed_kmh", "eta_minutes",
              "ai_summary"}, {ToLocation}, {<<"storm_cell_id", "storm_cells">>}, {})

\* app/tenants/models.py
TenantsModels ==
    PlainTable("tenants", {"name", "slug", "is_active", "storm_enabled", "agro_enabled"}, {}, {},
        {}, {{"slug"}})

\* app/users/models.py
UsersModels ==
    TenantTable("users",
        {"email", "email_index", "hashed_password", "role", "is_active", "is_platform_admin",
         "organization_wide_access", "email_verified"},
        {"full_name", "google_sub", "google_sub_index", "last_login_at", "access_expires_at",
         "email_verified_at", "terms_accepted_at"}, {}, {},
        {{"email_index"}, {"google_sub_index"}})

\* app/weather/models.py
WeatherModels ==
    PlainTable("weather_sources", {"name", "kind", "is_active", "config"}, {}, {}, {}, {{"name"}})
    \cup PlainTable("radar_frames", {"weather_source_id", "captured_at", "is_mock", "meta"}, {},
             {<<"weather_source_id", "weather_sources">>}, {}, {})

\* app/zarc/models.py
ZarcModels ==
    PlainTable("zarc_risk_windows",
        {"geocodigo", "uf", "municipio", "cultura", "cod_ciclo", "cod_solo", "safra_ini",
         "safra_fin", "decendios"}, {"portaria"}, {}, {}, {})

\* The enumerations the columns use (app/core/enums.py).
EnumModels ==
    Labels("alert_event_status", {"OPEN", "UPDATED", "CLOSED"})
    \cup Labels("alert_event_type", {"STORM_DETECTED", "STORM_APPROACHING", "STORM_INTENSIFIED",
            "STORM_ENTERED_MONITORING_AREA", "STORM_RISK_CHANGED", "STORM_PASSED",
            "SATELLITE_WATCH_DETECTED", "SATELLITE_WATCH_DISSIPATED", "FROST_WARNING",
            "DRY_SPELL_WARNING", "OFFICIAL_WARNING", "VEGETATION_INDEX_DROP", "CUSTOM_RULE"})
    \cup Labels("alert_type", {"RAIN_INTENSE", "SEVERE_STORM", "STRONG_WIND", "HAIL", "LIGHTNING",
            "SEVERE_CELL"})
    \cup Labels("field_occurrence_status", {"OPEN", "RESOLVED"})
    \cup Labels("field_task_status", {"PENDING", "IN_PROGRESS", "DONE", "CANCELLED"})
    \cup Labels("notification_channel", {"PUSH", "EMAIL", "WEBHOOK", "WHATSAPP", "SMS"})
    \cup Labels("notification_status", {"PENDING", "SENT", "FAILED", "SUPPRESSED"})
    \cup Labels("report_status", {"PENDING", "CONFIRMED", "REJECTED"})
    \cup Labels("report_type", {"HAIL", "STRONG_WIND", "FLOODING", "RAIN_INTENSE", "FALLEN_TREE",
            "LIGHTNING"})
    \cup Labels("risk_level", {"GREEN", "YELLOW", "ORANGE", "RED"})
    \cup Labels("storm_severity", {"WEAK", "MODERATE", "STRONG", "SEVERE"})
    \cup Labels("track_trend", {"INTENSIFYING", "STEADY", "WEAKENING"})
    \cup Labels("user_role", {"OWNER", "ADMIN", "AGRONOMIST", "OPERATOR", "VIEWER", "USER",
            "METEOROLOGIST", "COMPANY_ADMIN"})
    \cup Labels("weather_source_kind", {"MOCK", "RADAR", "SATELLITE", "STATION",
            "OFFICIAL_WARNING", "FORECAST_MODEL"})

Models ==
    AdminModels \cup AlertRulesModels \cup AlertsModels \cup VerificationModels \cup ApikeysModels
    \cup DeforestationModels \cup FieldnotesModels \cup ForecastComparisonModels \cup
    LightningModels \cup LocationsModels \cup NdviModels \cup NotificationsModels \cup
    OrganizationsModels \cup RecommendationsModels \cup ReportsModels \cup SatelliteModels \cup
    StormsModels \cup TenantsModels \cup UsersModels \cup WeatherModels \cup ZarcModels \cup
    EnumModels
=============================================================================
