SPECIFICATION Spec

CONSTANTS
  Letters = {"a", "b"}
  Space = " "
  MaxText = 6
  Room = 2
  Byte = 2
  MaxLen = 10

INVARIANT PrintsTheLines
INVARIANT InternetChecksum
