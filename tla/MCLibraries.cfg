SPECIFICATION LibrariesSpec
CONSTANTS
  Handles = {1, 2, 65535}
  Uuids <- MCUuids
  Told = {2, 65535}
  Mtu = 23
  Attrs = {1, 2}
  Lengths = {4, 8}
  Mtus = {7, 9}
  DefaultMtu = 7
  MaxProcs = 2
  Devices <- MCDevices
  Thingies <- MCThingies
  Tags <- MCTags
  Database <- MCDatabase
  MaxServices = 3
  Ends = {4}
  Settings <- MCSettings
  MaxAsked = 2
  MaxCuts = 1
  Uses <- MCUses
INVARIANTS
  FindsEverything CallsBackOnce ValuesWhole
  RemembersTheDevice ThingyNotifiesAsAsked ThingyConfigured TagAsAsked
PROPERTIES ProceduresEnd
