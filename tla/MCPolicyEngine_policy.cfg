SPECIFICATION Spec
CONSTANTS
  Requests <- Asked
  Limit = 2
  Refused = {rejected, aborted}
  Revocable = {"read"}
INVARIANTS
  TypeOK
  AllowedIsApproved
PROPERTIES
  EvictionOrder
  RefusalStands
SYMMETRY Symmetry
