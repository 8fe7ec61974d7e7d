CONSTANTS
  Cell = {1, 2, 3, 6, 20}
  Header = 2
  Maximum = 6
  MaxRead = 3
  TlsCode = 3
  MaxWire = 7
SPECIFICATION Spec
INVARIANTS BytesExact FailureIsLast RoomToRead
