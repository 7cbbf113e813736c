SPECIFICATION FairSpec
CONSTANTS
  u1 = u1
  p1 = p1
  r1 = r1
  k1 = k1
  NoKey = NoKey
  NoProvider = NoProvider
  Users <- OneUser
  Providers <- OneProvider
  Requests <- OneRequest
  Keys <- OneKey
  Owner <- OwnerU1
  IdemKey <- NoKeys
  Items <- TwoImages
  Rank <- RankOf
  Concurrency <- OneSlot
  DiscountBps <- HalfPrice
  HoldBps <- HoldThirty
  Prices <- PriceThree
  Opening <- OpeningSix
  Deltas <- BothThrees
  Suspects <- OneUser
  Edited <- OneProvider
  MaxBalance = 6
  MaxRetry = 2
  PassLimit = 10
  MaxCrashes = 1
INVARIANT TypeOK
INVARIANT SettlementAffordable
INVARIANT LedgerExplainsBalance
INVARIANT ChargedForItems
INVARIANT FrozenMatchesHolds
INVARIANT MoneyConserved
INVARIANT DeletedOutputsAreGone
PROPERTY FinalIsFinal
PROPERTY StatusFlow
PROPERTY ImplementsHoldLedger
PROPERTY HoldsResolve
