SPECIFICATION FairSpec
CONSTANTS
  m1 = m1
  m2 = m2
  text = text
  picture = picture
  NoOne = NoOne
  Threads = {t1, t2}
  Primary = m1
  Fallbacks <- MCFallbacks
  Eyes = m2
  Likely <- MCLikely
  Questions <- MCQuestions
  Pictures <- MCPictures
  Pairings <- MCBoth
  Mixes <- MCOneQuestion
  MaxAttempts = 2
INVARIANTS TypeOK CachedAnswersAreWhole OneVoice
PROPERTIES TextWaitersFindTheAnswer EveryCallEnds
