\* One client, its payment and the facilitator's check of it.
SPECIFICATION Spec
CONSTANTS
  Chains = {"here", "there"}
  Chain = "here"
  Assets <- MCAssets
  Amounts <- MCAmounts
  Denominations = {"ugnot"}
  Value <- MCValue
  ParsedCoins <- MCParsedCoins
  Payees = {"payee"}
  OddPayees = {"PAYEE", "nobody"}
  NoPayee = NoPayee
  Decoded <- MCDecoded
  Memos = {"invoice"}
  Keys = {"key", "session key"}
  NoKey = NoKey
  Masters = {"buyer"}
  Sessions = {"session"}
  NoAddress = NoAddress
  AddressOf <- MCAddressOf
  MasterOf <- MCMasterOf
  Presented = {}
  MaxSequence = 3
  Asked <- MCAsked
  Caps = {4, 5, NoCap}
  NoCap = NoCap
  GasPrices <- MCGasPrices
  GasWanted = 10
  MaxGasFee = 20
INVARIANTS
  TypeOK
  PaysWhatWasShown
  FeeCoversTheNextBlock
  AbandonedNotSigned
  SignedOverItsChain
  OwnPaymentIsUnderstood
CHECK_DEADLOCK FALSE
