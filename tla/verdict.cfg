SPECIFICATION Spec
CONSTANTS
  p1 = p1
  p2 = p2
  p3 = p3
  None = None
  Page = {p1, p2, p3}
  Contents <- Corpus
  MaxUpsets = 1
SYMMETRY Symmetric
INVARIANT TypeOK
INVARIANT CurrentIsEarned
INVARIANT SilentReviewsAreOnlyOld
INVARIANT DisownedPagesAreAudited
INVARIANT CurrentRestsOnLiveReferrers
INVARIANT SomePageSurvives
INVARIANT OrderOnlyBreaksTies
INVARIANT VerdictsJudgeTheStoredText
PROPERTY OnlyTheUnknownIsPromoted
