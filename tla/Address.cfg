SPECIFICATION Spec
CHECK_DEADLOCK FALSE
CONSTANTS
  Bytes <- MCBytes
  AddressLen = 1
  CheckLen = 1
  Prefix = 65
  Checksum <- MCChecksum
  Error = Error
  Unread = Unread
INVARIANTS
  RoundTrip
  OneSpelling
