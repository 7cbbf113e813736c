SPECIFICATION Spec
CONSTANTS
  u1 = u1
  p1 = p1
  r1 = r1
  k1 = k1
  NoKey = NoKey
  NoProvider = NoProvider
  Users <- OneUser
  Providers <- OneProvider
  Requests <- OneRequest
  Keys <- OneKey
  Owner <- OwnerU1
  IdemKey <- NoKeys
  Items <- TwoImages
  Rank <- RankOf
  Concurrency <- OneSlot
  DiscountBps <- HalfPrice
  HoldBps <- HoldSixty
  Prices <- PriceThree
  Opening <- OpeningSix
  Deltas <- NoDeltas
  Suspects <- OneUser
  Edited <- OneProvider
  MaxBalance = 6
  MaxRetry = 2
  PassLimit = 10
  MaxCrashes = 0
PROPERTY RecoveryOnlyAfterRestart
