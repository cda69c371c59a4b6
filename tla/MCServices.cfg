SPECIFICATION ServicesSpec
CONSTANTS
  o1 = o1
  i1 = i1
  t1 = t1
  e1 = e1
  e2 = e2
  n1 = n1
  n2 = n2
  u1 = u1
  u2 = u2
  browser = browser
  phone = phone
  p1 = p1
  p2 = p2
  p3 = p3
  farm = farm
  plot = plot
  invite1 = invite1
  invite2 = invite2
  l1 = l1
  l2 = l2
  Nothing = Nothing
  Nobody = Nobody
  Mail = Mail
  Gone = Gone
  Unborn = Unborn
  NoOne = NoOne
  Never = Never
  Notes = {o1, i1, t1}
  Occurrences = {o1}
  Inspections = {i1}
  FieldTasks = {t1}
  RefersTo <- MCRefersTo
  MaxFaults = 2
  MaxRevocations = 2
  Records = {t1}
  Editors = {e1, e2}
  KindOf <- MCKindOf
  MaxEdits = 5
  Notifs = {n1, n2}
  Users = {u1, u2}
  TenantOf <- MCOneTenant
  Devices = {browser}
  WebDevices = {browser}
  WebConfigured = TRUE
  MaxTries = 2
  RetryUnit = 1
  MaxMinute = 1
  MaxAborts = 1
  MaxMoves = 2
  Persons = {p1, p2, p3}
  Founder = p1
  Invitations = {invite1, invite2}
  Farms = {farm, plot}
  Parent <- MCParent
  Changes <- MCChanges
  MaxDay = 1
  MaxRequested = 4
  Places = {0, 1, 3}
  Skies <- MCSkies
  Sites = {l1, l2}
  SiteAt <- MCSiteAt
  SiteRadius <- MCSiteRadius
  MaxHour = 3
  Playback = 2
  Retention = 1
  MaxAge = 1
  MaxPauses = 1
  f1 = f1
  s1 = s1
  Plots = {f1}
  LastPass = 3
  IndexAt <- MCIndexAt
  Cloudless = {1, 2, 3}
  Executions = {1, 2}
  OverlappingRuns = TRUE
  Fields = {f1}
  Layers = {"deter", "prodes"}
  Clearings = {"c1"}
  Downloads <- MCDownloads
  Unzoned = 0
  Bolts = {1, 2}
  StrikeAge = 1
  ForecastModels = {"gfs"}
  Horizons = {1, 2}
  LastDate = 2
  LastFlash = 3
  Silence = Silence
  Spots = {s1}
  Runs = {1, 2}
  Forecasts = {{}, {2, 9}, {5}}
  Gauges <- MCGauges
  RainWindow = 3
  DryMinimum = 2
  Bulletins <- MCBulletins
  LastDay = 1
  MaxRetold = 1
  MaxRuns = 2
  NoAlert = NoAlert
  Scans <- MCScans
  Intervals = {0, 10}
  Destinations = {0, 50, 120}
  MaxScans = 4
  NoAnswer = NoAnswer
  Unscored = Unscored
  Unsaid = Unsaid
INVARIANT ServicesTypeOK
INVARIANT NoNoteLost
INVARIANT NothingDangles
INVARIANT LostOnlyToOverlap
 
 
INVARIANT OneUsableInvitation
 
INVARIANT DissipationIsTold
INVARIANT EveryStepApplies
INVARIANT HeadMatchesModels
INVARIANT DropAlertsMatchHistory
 
INVARIANT FarmersAreTold
INVARIANT TracksAreStorms
 
PROPERTY NoticesSettle
PROPERTY RevocationIsFinal
PROPERTY NobodyElseLeaves
CHECK_DEADLOCK FALSE
