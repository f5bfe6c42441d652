CONSTANTS
  NameSize <- MCNameSize
  Stray <- MCStray
  Views <- MCViews
SPECIFICATION ConvertersSpec
CHECK_DEADLOCK FALSE
INVARIANTS
  ReferencesSurvive
  SectionsSurvive
  WhatIsWrittenFits
  ConvertibleFilesConvert
