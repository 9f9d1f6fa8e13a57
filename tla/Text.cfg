\* Texts that are read: free ones of five kinds, integers at the limits of their
\* types, and what was written of strings of four bytes, through a buffer of
\* sixteen, and of numbers around the powers of ten and of two.
CONSTANTS
  Sources <- MCSources
  IntBits = 26
  TextBytes = {10, 31, 34, 92, 110, 127, 128, 143, 144, 159, 160, 191, 194, 224, 237,
               239, 240, 241, 244, 245}
  MaxText = 4
  BufferSize = 16
  IntegerValues <- MCIntegers
  UnsignedValues <- MCUnsigneds
  DigitTexts <- MCDigitTexts
  Exponents10 <- MCExponents
  NumberBuffer = 64
SPECIFICATION TextSpec
INVARIANT LexerCorrect
INVARIANT PositionExact
INVARIANT DumpsUtf8
INVARIANT ReadsBack
INVARIANT BufferFits
INVARIANT DecodesScalars
INVARIANT IntegerReadsBack
INVARIANT FloatReadsBack
INVARIANT NumberPlaced
CHECK_DEADLOCK FALSE
