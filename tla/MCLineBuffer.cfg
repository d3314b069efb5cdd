CONSTANTS
  Size = 14
  MaxLine = 9
  Sections = 8
  Texts <- MCTexts
  MaxTexts = 3
  FlushAnywhere = FALSE
SPECIFICATION FairSpec
PROPERTY IsTwoLanes AllIsRead
