SPECIFICATION OperationsSpec
CONSTANTS
  AuthRequests = {r1}
  AuthPolicies <- SomePolicies
  AuthAddresses = {"GA", "GB"}
  AuthNonces = {n1, n2}
  MaxExpiry = 2
  ClockSkew = 0
  AuthLastTime = 3
  Undefined = Undefined
  NonceScopes = {"pay:a.b", "pay:a-b"}
  SafeScope <- ScopeOf
  NonceValidators = {v1, v2, v3}
  NonceSkew = 1
  NonceValidity = 0
  NonceLastTime = 2
  OtherRandomBytes = {16, 32}
  Holders = {"GA", "GB", "G0"}
  AddressClass <- AddressKind
  TransferRoles = {"signer", "nobody"}
  SIGNER_ROLE_GROUPS = {"signer"}
  Windows = {0, 2, 3}
  MIN_ACCEPTANCE_WINDOW_MS = 1
  MAX_ACCEPTANCE_WINDOW_MS = 2
  Delegations <- SomeDelegations
  DELEGATION_AUTHORIZED_ROLES = {"treasury"}
  MAX_EFFECTIVE_FROM_PAST_MS = 1
  MAX_EFFECTIVE_UNTIL_FUTURE_MS = 5
  DEFAULT_MAX_DELEGATION_DURATION_MS = 2
  DelegationSoon = 1
  TransferLastTime = 3
  MaxTransfers = 1
  MaxCopies = 4
  Never = Never
  Callers = {c1, c2}
  ReservedAmounts = {0, 2}
  Ttl = 1
  ReserveLastTime = 3
  MaxReserveEvents = 4
  PageCursors = {p1, p2, p3, p4}
  NoCursor = NoCursor
  PageItems = {0, 1, 2}
  MaxPages = 4
  MaxRecords = 3
  StreamEvents <- SomeEvents
  MaxDeliveries = 5
  MaxResets = 2
  PollTimeouts = {0, 3, 4}
  PollInterval = 2
  MaxAnswerTime = 2
  CompanyList <- ThreeCompanies
  PageEnds <- TwoPages
  CollectionPages <- SomeCollections
  PageBudgets = {1, 2, 3, Unlimited}
  Unlimited = Unlimited
  MaxPasses = 5
  WorkerWitnesses = {w1, w2}
  MaxDispatches = 3
INVARIANTS ApprovalsSound ReservationsSound ReadingSound DeliveriesSound WaitingSound
PROPERTIES StepsSound OperationsEnd
CHECK_DEADLOCK FALSE
