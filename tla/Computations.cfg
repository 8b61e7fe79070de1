\* The sizes of the code, but for HashBuffer (blocks of eight bytes, a counter
\* that wraps after two of them) and AmountSums (three bytes of three values).
SPECIFICATION Spec
CONSTANTS
  BlockBytes = 8
  LengthBytes = 2
  Wrap = 16
  MaxPiece = 17
  MaxMessage = 22
  AmountBytes = 8
  ByteBits = 8
  BytesSeen = {0, 1, 255}
  CoinDigits = 13
  DecimalDigits = 8
  FieldChars = 20
  CoinIdChars = 3
  Width = 3
  ByteValues = 3
  MaxInputs = 2
  MaxOutputs = 2
  ByteBase = 256
  DigitBase = 58
  Per = 138
  Of = 100
  Inputs <- CodeInputs
  Moduli <- Primes
  Paths <- HostPaths
  MAX_BIP32_PATH = 10
  MaxOut = 122
INVARIANTS HashesMessage DisplayExact SumsExact FeesExact PrefixEncoded RoundTrip PathShown UsualIsBip44
