SPECIFICATION RulesSpec
CHECK_DEADLOCK FALSE
INVARIANTS
  FundsAccounted
  MoneyReadOneWay
  RunViewsAgree
  EachPaidOnce
  AcceptedGoesThrough
  SetupHolds
  ReadyProofsHold
  EvidenceHolds
  ErrorsKeepMeaning
  NoticesTakenRight
  PlansHold
