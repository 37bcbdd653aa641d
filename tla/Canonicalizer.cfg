CONSTANTS
  Candidates <- MCCandidates
  WorkspaceOf <- MCWorkspaceOf
  ListingOf <- MCListingOf
  Values <- MCValues
  None = None
  Normal <- MCNormal
  NameSimilarity <- MCNameSimilarity
  AddressSimilarity <- MCAddressSimilarity
  Pages = {p1}
  Backfills = {b1}
  Old <- MCOld
  OldIdentities <- MCOldIdentities
  Found <- MCFound
  PageSize = 2
  BatchSize = 1
SPECIFICATION Spec
INVARIANTS TypeOK SameListingSameBusiness TwinsAreAmbiguous WeakLinksAgree BackfillLeavesNone
PROPERTIES MatchesAreFinal
CHECK_DEADLOCK FALSE
