\* Three miners, one of them the donation account, one the pool's own address.
CONSTANTS
  m1 = m1
  m2 = m2
  m3 = m3
  Logins = {m1, m2, m3}
  DonationAccount = m2
  PoolFeeAddress = m3
  Shannon = 5
  Whole = 100
  PoolFee = 10
  DonationFee = 10
  Reward = {2, 20, 49, 50}
  MaxShares = 3
SPECIFICATION Spec
CHECK_DEADLOCK FALSE
INVARIANTS NearOwed AddUp
