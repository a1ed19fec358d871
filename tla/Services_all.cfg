SPECIFICATION ServicesSpec
CONSTANTS
  a1 = a1
  a2 = a2
  a3 = a3
  c1 = c1
  c2 = c2
  boss = boss
  Device = {"phone"}
  Chat = {1, 2}
  DeviceOf <- MCDeviceOf
  RequestsPerHour = 1
  MinInterval = 2
  Hour = 3
  Second = 3
  MaxDelay = 1
  MaxTime = 22
  MaxClears = 1
  Generation = {a1, a2, a3}
  Capability = "imagegen"
  PerDay = 1
  MaxDay = 1
  MaxDeletes = 1
  File = {a1, a2, a3}
  Handler = {c1, c2}
  MaxFiles = 1
  MaxBytes = 1
  MaxSize = 1
  Retention = 1
  MaxAge = 2
  MaxUnsure = 1
  Nothing = none
  Call = {c1, c2}
  Limit = 1
  Window = 2
  MaxClock = 4
  MaxWipes = 1
  Token = {a1, a2, a3}
  Confirm = {c1, c2}
  MaxLookup = 1
  Nobody = none
  Admin = {c1, c2}
  State = {s1, s2}
  Callback = {c1, c2}
  Parting = {c1, c2}
  Grant = {a1, a2, a3}
  Nil = none
  User = {boss, root, eve}
  ConfiguredAdmin = boss
  First = root
  Key = {k1}
  Owner <- MCOwner
  Scoped = {k1}
  Caller = {c1, c2}
  Change = {c1, c2}
  Row = {r1, r2}
  Upstream = {u1, u2}
  Deployment = {a1, a2, a3}
  MaxVersion = 1
  MaxAtOnce = 2
  Absent = none
  Lookup = {c1, c2}
  Fresh = 1
  Bypass = 1
  LastGood = 1
  Week = 1
  MaxHold = 1
  MaxInstant = 3
  MaxLinks = 2
  NoRows = none
  MaxLocal = 4
  MaxSocial = 1
  MaxGlobal = 1
  Limits = {5}
  Page = {a1, a2, a3}
  MaxQueries = 2
  FetchPages = 2
  MaxFaults = 2
  Request = {a1, a2, a3}
  Cost = {2, 3}
  Refill = 2
  Minute = 2
  LongestWait = 1
  MaxSkew = 1
  MaxTick = 4
SYMMETRY Interchangeable
INVARIANTS
  ServicesTypeOK CapabilityIsMetered AttachmentsHold ResetIsOneTime ConnectionIsGood
  AccessIsGranted ChoicesFit EvidenceComesFirst RequestIsSettled
PROPERTIES
  RateIsKept StoresAgree OldRowsAreHonest 
CHECK_DEADLOCK FALSE
