CONSTANTS
    Texts <- MCTextsWithEmpty
    Letters <- MCLetters
    Digits <- MCDigits
    MaxLen = 4

SPECIFICATION Spec
PROPERTY LexerTotal
