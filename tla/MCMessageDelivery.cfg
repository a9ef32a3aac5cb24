\* One subscription more than there are handlers.
SPECIFICATION Spec
CONSTANTS
  MAX_MESSAGE_HANDLERS = 2
  MaxSubscriptions = 3
  Filters <- MCFilters
  Names <- MCNames
INVARIANTS
  OnlyMatching
  AllMatching
