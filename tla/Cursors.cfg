SPECIFICATION FairSpec
CONSTANTS
  Workers = {w1, w2}
  MaxMessages = 3
  Page = 2
  SecondOf <- Seconds
INVARIANTS TypeOK NothingPassedUnseen KeptWithoutFaults
PROPERTIES Delivered
