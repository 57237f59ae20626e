SPECIFICATION ReconciledSpec
CONSTANTS
  r2 = r2 r3 = r3 alice = alice
  s1 = s1 s2 = s2 f1 = f1
  NULL = NULL
  Refund = {r2, r3}
  Worker = {w1, w2}
  Event = {s1, s2, f1}
  Charge <- MCCharge
  Actor = {alice}
  ChargeOf <- MCChargeOf
  Amount <- MCAmount
  CurrencyOf <- MCCurrencyOf
  Requester <- MCRequester
  Captured <- MCCaptured
  ChargeCurrency <- MCChargeCurrency
  ReviewThreshold = 8
  EventKind <- MCEventKind
  EventRef <- MCEventRef
  Signed <- MCSigned
  MaxCalls <- MCMaxCalls
  Files <- MCFiles
SYMMETRY Workers
INVARIANTS AlarmsAreExplained FlagsOutliveTheRead CleanMeansAgreed
