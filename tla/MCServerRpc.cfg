SPECIFICATION FairSpec
CONSTANTS
  Methods = {m1, m2}
  Immediate = {m1}
  Throwing = {m2}
  MaxCalls <- TwoImmediate
  Workers = {w1, w2}
  Orders = {TRUE, FALSE}
INVARIANTS
  TypeOK
  NothingStartsAfterShutdown
  OneHandlerListens
  HandlerHasOneHome
  AnsweredOnce
  StoppedFreesHandlers
PROPERTIES
  EveryCallAnswered
  StopsReturn
