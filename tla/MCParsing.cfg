CONSTANT
  Lines <- MCLines
SPECIFICATION Spec
INVARIANTS ParsesTheLanguage TokensAreKept OneAssignmentBindsAsDocumented ErrorsAreReported ErrorsHideNoErrors
PROPERTIES LinesAreRead
