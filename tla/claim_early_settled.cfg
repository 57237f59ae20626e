SPECIFICATION Spec
CONSTANTS
  r1 = r1 r2 = r2 r3 = r3 zero = zero euro = euro usd = usd big = big
  alice = alice bob = bob carol = carol
  s1 = s1 s2 = s2 f1 = f1 f2 = f2 other = other unsigned = unsigned
  NULL = NULL
  Refund = {r1}
  Worker = {w1, w2}
  Event = {s1}
  Charge <- MCCharge
  Actor <- MCActor
  ChargeOf <- MCChargeOf
  Amount <- MCAmount
  CurrencyOf <- MCCurrencyOf
  Requester <- MCRequester
  Captured <- MCCaptured
  ChargeCurrency <- MCChargeCurrency
  ReviewThreshold <- MCReviewThreshold
  EventKind <- MCEventKind
  EventRef <- MCEventRef
  Signed <- MCSigned
  MaxCalls <- PlainCalls
INVARIANT EarlySettledIsSafe
