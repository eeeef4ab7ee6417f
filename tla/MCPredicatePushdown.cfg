SPECIFICATION PushdownSpec
CONSTANTS
  Values = {0, 1, 2}
  MaxHeight = 4
  Filters <- MCFilters
  FewFilters <- MCFewFilters
  Fragments <- MCFragments
INVARIANTS
  PushdownExact
  FragmentFaithful
CHECK_DEADLOCK FALSE
