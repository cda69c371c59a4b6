SPECIFICATION NotifSpec
CONSTANTS
  n1 = n1
  u1 = u1
  u2 = u2
  phone = phone
  Notifs = {n1}
  Users = {u1, u2}
  TenantOf <- MCTenantOf
  Devices = {phone}
  WebDevices = {}
  WebConfigured = FALSE
  MaxTries = 2
  RetryUnit = 1
  Mail = Mail
  Gone = Gone
  Unborn = Unborn
  MaxMinute = 1
  MaxAborts = 1
  MaxMoves = 2
INVARIANT DeviceFollowsItsHolder
CHECK_DEADLOCK FALSE
