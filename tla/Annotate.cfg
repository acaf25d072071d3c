\* Every message, as encoded and with one slip.
SPECIFICATION Spec
CONSTANTS
  Frames <- MCFrames
  Encoded <- MCEncoded
INVARIANTS
  TypeOK
  RangesTile
  ChildrenTile
  EncodedIsExplained
  FieldsAreFew
  RecordedIsAccepted
