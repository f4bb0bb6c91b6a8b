CONSTANT
  Lines <- FailedArgument
SPECIFICATION Spec
INVARIANT FailedCallsReturnNULL
