CONSTANTS
    Texts <- MCTextsCommentsClosed
    Letters <- MCLetters
    Digits <- MCDigits
    MaxLen = 4

SPECIFICATION Spec
INVARIANT TypeOK
PROPERTY TokenService
