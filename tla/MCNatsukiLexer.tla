--------------------------- MODULE MCNatsukiLexer ---------------------------
(* Every input file of up to MaxLen characters over an alphabet with a     *)
(* letter, a digit, whitespace, the comment and block characters, the      *)
(* verbatim terminators and the characters of '->'.  The digit is also    *)
(* the invalid character: no token starts with it.                         *)
EXTENDS NatsukiLexer

CONSTANTS MaxLen

MCLetters == {"a"}
MCDigits == {"1"}
MCAlphabet == {"a", "1", " ", "\n", "/", "{", "}", "=", ",", "-", ">", "]"}

MCTexts == SeqOf(MCAlphabet, MaxLen) \ {<<>>}

(* Files in which every // comment is ended by a newline.                  *)
CommentsClosed(s) ==
    \A i \in 1..Len(s) - 1 :
        s[i] = "/" /\ s[i+1] = "/" => \E j \in i+2..Len(s) : s[j] = "\n"
MCTextsCommentsClosed == {s \in MCTexts : CommentsClosed(s)}

(* All files, the empty one included.                                      *)
MCTextsWithEmpty == SeqOf(MCAlphabet, MaxLen)
=============================================================================
