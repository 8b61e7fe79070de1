\* MessageSigning and PubkeyExport, in the life of the application
SPECIFICATION MCSpec
CONSTANTS
  None = None
  t1 = t1
  t2 = t2
  Tokens = {t1, t2}
  Paths = {"usual", "unusual"}
  UnusualPaths = {"unusual"}
  k1 = k1
  k2 = k2
  k3 = k3
  Keys = {k1, k2, k3}
  Erased = Erased
  Torn = Torn
  Bytes <- AllBytes
  Printable <- Letters
  Lengths <- SmallLengths
  Chunks <- SmallChunks
  MaxDisplayable = 2
INVARIANTS ServingIsConfigured OwnerSettingsKept TrustedInputsStayGood RestrictedKeysApproved DisplayedKeysSeen ScreenIsWhole SignedAsAnnounced BufferBound HashScreenWanted
