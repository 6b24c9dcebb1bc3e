SPECIFICATION Spec
CONSTANTS
  FileLength = 5
  BufferSize = 2
  PageLengths = {3, 7}
  HeadAnswers = {"length", "no_length", "error_page"}
  GetAnswers = {"range", "whole_file", "nothing", "error"}
  Offsets <- AllOffsets
  MaxPosition = 9
INVARIANTS
  PositionsAgree
  BytesAreThoseAtPos
  EndIsWhereItIs
CHECK_DEADLOCK FALSE
