SPECIFICATION FairRpcSpec
CONSTANTS MaxSeq = 3 MaxStale = 1
PROPERTIES SuccessIsReal AnswersAreCurrent MethodReturns
