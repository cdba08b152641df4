\* Two payers and a session on the facilitator's chain, which another chain's
\* payments reach too.
SPECIFICATION VerificationSpec
CONSTANTS
  Chains = {"here", "there"}
  Chain = "here"
  Assets <- MCAssets
  Amounts <- MCAmounts
  Denominations <- MCDenominations
  Value <- MCValue
  ParsedCoins <- MCParsedCoins
  Payees = {"payee", "other payee"}
  OddPayees = {"PAYEE"}
  NoPayee = NoPayee
  Decoded <- MCDecoded
  Memos = {"invoice"}
  Keys = {"key1", "key2", "keyS"}
  NoKey = NoKey
  Masters = {"buyer1", "buyer2"}
  Sessions = {"session"}
  NoAddress = NoAddress
  AddressOf <- MCAddressOf
  MasterOf <- MCMasterOf
  Presented <- MCPresented
  MaxSequence = 2
INVARIANTS
  AcceptedPaysTheOffer
  PayerNamedOnlyIfProven
  MismatchMeansSpent
  ListedTermsAccepted
CHECK_DEADLOCK FALSE
