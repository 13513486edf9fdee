SPECIFICATION Spec
CONSTANTS
  Backends = {"linux", "windows", "libusb", "mac"}
  Places = {1, 2, 3}
  Wallets = {"w"}
  Addresses = {1, 2, 3, 4}
  Descriptions = {"whole", "bare", "odd"}
  MaxChanges = 1
  MaxContexts = 2
  MaxRecords = 4
INVARIANTS
  TypeOK
  ListIsSound
  ListIsComplete
  OpensAsked
  RecordsFreed
  HandleHasContext
CHECK_DEADLOCK FALSE
