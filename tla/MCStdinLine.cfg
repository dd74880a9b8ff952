\* Every input of up to MaxConsumed bytes in reads of up to MaxRead.
SPECIFICATION LineSpec
CONSTANTS
  QuitWord <- MCQuitWord
  NL = "nl"
  CR = "cr"
  Other = {}
  LineCap = 3
  MaxRead = 2
  MaxConsumed = 8
INVARIANT LineTypeOK
INVARIANT QuitExact
\* stream_receive returns after quit.
CHECK_DEADLOCK FALSE
