\* Decimals over an 8-bit int (places 0..3, so that 10^3 overflows), and
\* slices of up to two strings, up to three slices.
CONSTANTS
    Bits = 8
    MaxPlaces = 3
SPECIFICATION Spec
INVARIANT FormatParseRoundTrip ParseValueTruncates IntersectionIsCommon RemoveUndoesAppend KeyWordsRoundTrip BindIsRequestContent NormalizeFoldsAccents UniqueIsFirstOccurrences LineShowsLastSetFields ConsoleOutIsSubsequence
