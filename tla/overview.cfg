SPECIFICATION Spec
CONSTANTS
  EventKinds <- KindsOfEvents
  AlertKinds <- KindsOfAlerts
  Day = 2
  VolumeDays = 7
  PageCap = 1
  FirstNow = 17
  MaxNow = 18
  MaxEvents = 2
  MaxAlerts = 2
INVARIANTS CountsWithin WindowsMeet ChartsAgree NewestFirst
