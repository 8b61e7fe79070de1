\* AmountDisplay: the field of the screen, with the sizes of the code
SPECIFICATION DisplaySpec
CONSTANTS
  AmountBytes = 8
  ByteBits = 8
  BytesSeen = {0, 1, 255}
  CoinDigits = 13
  DecimalDigits = 8
  FieldChars = 20
  CoinIdChars = 3
INVARIANTS AmountFits
