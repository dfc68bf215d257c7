---------------------------- MODULE NatsukiLexer ----------------------------
(***************************************************************************)
(* class Lexer of natsuki.py (lines 153-299), one character per step.     *)
(*                                                                         *)
(* The parser is the lexer's only client: it calls next_token() in normal *)
(* mode, or in verbatim mode with the (nestin, nestout, until) lists of    *)
(* one of its consume calls.  The client here asks, after each token, for *)
(* any mode the parser asks for after a token of that kind.                *)
(*                                                                         *)
(* Characters are single-character strings from a small alphabet; letters *)
(* stand for any letter, so reserved words are not distinguished from     *)
(* identifiers.  Past the end of the text, advance() keeps current_char   *)
(* = "" and only increments pos, which nothing reads there: pos stops at  *)
(* Len(text) + 1.                                                          *)
(***************************************************************************)
EXTENDS Naturals, Sequences, FiniteSets, SequencesExt

CONSTANTS
    Texts,       \* the input files: sequences of characters
    Letters,     \* characters for which isalpha() holds
    Digits       \* characters for which isdigit() holds

VARIABLES
    text,    \* Lexer.text
    pos,     \* Lexer.pos, 1-based
    cur,     \* Lexer.current_char, "" at end of input
    pc,      \* where next_token is: "idle", "scan", "verbatim", "comment",
             \* "ws", "id", or the end: "eof", "error", "crash"
    mode,    \* the mode of the current call: "normal" or a verbatim mode
    nest,    \* the nesting counter of verbatim mode
    lexeme,  \* the text accumulated by _id or by verbatim mode
    last,    \* the kind of the last token returned (the parser's current_token)
    start    \* pos when the current call began (history, for the contract)

vars == <<text, pos, cur, pc, mode, nest, lexeme, last, start>>

-----------------------------------------------------------------------------
(* The single-character token types of TokenType (lines 70-87) and the    *)
(* two-character ones (lines 88-90).                                       *)
Punct == {"<", ">", "(", ")", "{", "}", "[", "]", "#", ":", "&", "*", ",",
          ";", "?", "'", "\"", "="}
TwoChar == {<<"-", ">">>, <<"[", "[">>, <<"]", "]">>}
Space == {" ", "\n", "\r", "\t"}
IdChar == Letters \cup Digits \cup {"_"}
(* The first character of an identifier: isalpha() or '_' (line 266).     *)
IdStart == Letters \cup {"_"}

(* The verbatim modes of the parser's consume calls: custom code blocks   *)
(* (line 789), field defaults (752), #define names (514), #define values  *)
(* and #include arguments (527, 534), and attribute values (845).         *)
VerbatimModes ==
    [block  |-> [nestin |-> {"{"}, nestout |-> {"}"}, until |-> {"}"}],
     default |-> [nestin |-> {}, nestout |-> {}, until |-> {",", "\n", ")"}],
     define |-> [nestin |-> {}, nestout |-> {}, until |-> {"\n", "="}],
     line   |-> [nestin |-> {}, nestout |-> {}, until |-> {"\n"}],
     attr   |-> [nestin |-> {}, nestout |-> {}, until |-> {",", "]"}]]

(* The modes the parser may ask for after a token of kind k: a block after *)
(* '{', a default, a #define value or an attribute value after '=', a     *)
(* #define name or an #include argument after an identifier or keyword.   *)
AllowedModes(k) ==
    {"normal"} \cup CASE k = "{"  -> {"block"}
                      [] k = "="  -> {"default", "line", "attr"}
                      [] k = "ID" -> {"define", "line"}
                      [] OTHER    -> {}

Tok(k, s) == [kind |-> k, lexeme |-> s]

CharAt(p) == IF p > Len(text) THEN "" ELSE text[p]

(* advance() with the end test one character early.                       *)
AdvanceOffByOne(k) ==
    /\ pos' = IF pos + k > Len(text) + 1 THEN Len(text) + 1 ELSE pos + k
    /\ cur' = IF pos' >= Len(text) THEN "" ELSE text[pos']

(* advance(), k times.                                                     *)
Advance(k) ==
    /\ pos' = IF pos + k > Len(text) + 1 THEN Len(text) + 1 ELSE pos + k
    /\ cur' = CharAt(pos')

(* peek().                                                                 *)
Peek == CharAt(pos + 1)

(* next_token returns tok: the parser's current_token becomes it.          *)
Return(tok) ==
    /\ pc' = IF tok.kind = "EOF" THEN "eof" ELSE "idle"
    /\ last' = tok.kind
    /\ lexeme' = tok.lexeme

-----------------------------------------------------------------------------
(* Lexer.__init__ (lines 160-162): text[0] of an empty file raises         *)
(* IndexError.                                                              *)
Init ==
    /\ text \in Texts
    /\ pos = 1
    /\ cur = CharAt(1)
    /\ pc = IF text = <<>> THEN "crash" ELSE "idle"
    /\ mode = "normal"
    /\ nest = 0
    /\ lexeme = <<>>
    /\ last = "none"
    /\ start = 1

(* Parser.consume: the parser asks for the next token.                     *)
Call ==
    /\ pc = "idle"
    /\ \E m \in AllowedModes(last) : mode' = m
    /\ pc' = "scan"
    /\ start' = pos
    /\ UNCHANGED <<text, pos, cur, nest, lexeme, last>>

(* One iteration of next_token's outer loop (lines 234-296), or the EOF   *)
(* token after it (line 299).                                              *)
Scan ==
    /\ pc = "scan"
    /\ CASE cur = "" ->
              Return(Tok("EOF", <<>>)) /\ UNCHANGED <<pos, cur, nest>>
         [] mode # "normal" ->
              pc' = "verbatim" /\ nest' = 0 /\ lexeme' = <<>>
              /\ UNCHANGED <<pos, cur, last>>
         [] cur = "/" /\ Peek = "/" ->
              pc' = "comment" /\ UNCHANGED <<pos, cur, nest, lexeme, last>>
         [] cur \in Space ->
              pc' = "ws" /\ UNCHANGED <<pos, cur, nest, lexeme, last>>
         [] cur \in IdStart ->
              pc' = "id" /\ lexeme' = <<>> /\ UNCHANGED <<pos, cur, nest, last>>
         [] <<cur, Peek>> \in TwoChar ->
              Return(Tok(cur \o Peek, <<>>)) /\ Advance(2) /\ UNCHANGED nest
         [] cur \in Punct ->
              Return(Tok(cur, <<>>)) /\ Advance(1) /\ UNCHANGED nest
         [] OTHER ->
              pc' = "error" /\ UNCHANGED <<pos, cur, nest, lexeme, last>>
    /\ UNCHANGED <<text, mode, start>>

(* The test of the verbatim loop (line 243): current_char is in `until`  *)
(* at depth zero.                                                          *)
AtEndNoNest(md) == cur \in md.until
AtEnd(md) == cur \in md.until /\ nest = 0

(* The depth after current_char (lines 244-247).                           *)
NestAfter(md) == CASE cur \in md.nestin  -> nest + 1
                   [] cur \in md.nestout -> nest - 1
                   [] OTHER              -> nest

(* Verbatim mode (lines 236-252): one character accumulated, or the token *)
(* returned when current_char is in `until` at depth zero.  At the end of *)
(* input current_char is "", which is in no list: the loop goes on, and   *)
(* `text += ""` changes nothing.                                           *)
VerbatimStep ==
    /\ pc = "verbatim"
    /\ LET md == VerbatimModes[mode] IN
       IF ~AtEnd(md)
       THEN /\ nest' = NestAfter(md)
            /\ lexeme' = lexeme \o (IF cur = "" THEN <<>> ELSE <<cur>>)
            /\ Advance(1)
            /\ UNCHANGED <<pc, last>>
       ELSE Return(Tok("VERBATIM", lexeme)) /\ UNCHANGED <<pos, cur, nest>>
    /\ UNCHANGED <<text, mode, start>>

(* A // comment (lines 254-256): skipped up to '\r' or '\n'.               *)
CommentStep ==
    /\ pc = "comment"
    /\ IF cur \notin {"\r", "\n"}
       THEN Advance(1) /\ UNCHANGED pc
       ELSE pc' = "scan" /\ UNCHANGED <<pos, cur>>
    /\ UNCHANGED <<text, mode, nest, lexeme, last, start>>

(* skip_whitespace (lines 192-194), then `continue`.                      *)
WsStep ==
    /\ pc = "ws"
    /\ IF cur # "" /\ cur \in Space
       THEN Advance(1) /\ UNCHANGED pc
       ELSE pc' = "scan" /\ UNCHANGED <<pos, cur>>
    /\ UNCHANGED <<text, mode, nest, lexeme, last, start>>

(* _id (lines 196-218): letters, digits and '_' accumulated.  A keyword   *)
(* cannot be spelled with the alphabet, so the token is an ID.            *)
IdStep ==
    /\ pc = "id"
    /\ IF cur # "" /\ cur \in IdChar
       THEN lexeme' = Append(lexeme, cur) /\ Advance(1) /\ UNCHANGED <<pc, last>>
       ELSE Return(Tok("ID", lexeme)) /\ UNCHANGED <<pos, cur>>
    /\ UNCHANGED <<text, mode, nest, start>>

(* The parser stops calling after EOF; a LexerError or the IndexError     *)
(* ends the run.                                                           *)
Terminated ==
    /\ pc \in {"eof", "error", "crash"}
    /\ UNCHANGED vars

LexStep == Scan \/ VerbatimStep \/ CommentStep \/ WsStep \/ IdStep

Next == Call \/ LexStep \/ Terminated

(* The lexer runs whenever next_token has been called: nothing else runs  *)
(* in the process, so its steps are weakly fair.                          *)
Spec == Init /\ [][Next]_vars /\ WF_vars(LexStep)

-----------------------------------------------------------------------------
(***************************************************************************)
(* The contract of next_token, from section 4.1 of the spec: what one call *)
(* in mode m returns for the rest s of the input, and how many characters *)
(* it consumes.  Hang marks an input for which the spec gives no result   *)
(* (verbatim mode with no terminator at depth zero).                       *)
(***************************************************************************)
Outcome(t, n) == [tok |-> t, used |-> n]
Hang == Outcome(Tok("HANG", <<>>), 0)
Failure == Outcome(Tok("ERROR", <<>>), 0)

(* The depth before position i: nest-in characters minus nest-out ones.   *)
Depth(s, i, md) ==
    Cardinality({j \in 1..i-1 : s[j] \in md.nestin})
    - Cardinality({j \in 1..i-1 : s[j] \in md.nestout})

SpecVerbatim(s, md) ==
    LET ends == {i \in 1..Len(s) : s[i] \in md.until /\ Depth(s, i, md) = 0}
    IN  IF s = <<>> THEN Outcome(Tok("EOF", <<>>), 0)
        ELSE IF ends = {} THEN Hang
        ELSE Outcome(Tok("VERBATIM", SubSeq(s, 1, Min(ends) - 1)), Min(ends) - 1)

(* Normal mode: whitespace and // comments (to the end of the line, or of *)
(* the input) are skipped, k counting the characters skipped so far.      *)
RECURSIVE SpecNormal(_, _)
SpecNormal(s, k) ==
    IF s = <<>> THEN Outcome(Tok("EOF", <<>>), k)
    ELSE LET eol  == {i \in 1..Len(s) : s[i] \in {"\r", "\n"}}
             idn  == {n \in 1..Len(s) : \A i \in 1..n : s[i] \in IdChar}
             pair == IF Len(s) >= 2 THEN <<s[1], s[2]>> ELSE <<s[1]>>
         IN  CASE s[1] \in Space -> SpecNormal(Tail(s), k + 1)
               [] pair = <<"/", "/">> /\ eol = {} -> Outcome(Tok("EOF", <<>>), k + Len(s))
               [] pair = <<"/", "/">> ->
                    SpecNormal(SubSeq(s, Min(eol), Len(s)), k + Min(eol) - 1)
               [] s[1] \in Letters \cup {"_"} ->
                    Outcome(Tok("ID", SubSeq(s, 1, Max(idn))), k + Max(idn))
               [] pair \in TwoChar -> Outcome(Tok(s[1] \o s[2], <<>>), k + 2)
               [] s[1] \in Punct -> Outcome(Tok(s[1], <<>>), k + 1)
               [] OTHER -> Failure

SpecNext(s, m) ==
    IF m = "normal" THEN SpecNormal(s, 0) ELSE SpecVerbatim(s, VerbatimModes[m])

Busy == pc \in {"scan", "verbatim", "comment", "ws", "id"}

-----------------------------------------------------------------------------
TypeOK ==
    /\ text \in Texts
    /\ pos \in 1..Len(text) + 1
    /\ cur = CharAt(pos)
    /\ pc \in {"idle", "scan", "verbatim", "comment", "ws", "id", "eof", "error", "crash"}
    /\ mode \in {"normal"} \cup DOMAIN VerbatimModes
    /\ nest \in 0..Len(text)
    /\ lexeme \in Seq(ToSet(text))
    /\ start \in 1..pos

(* The refinement mapping: between calls the client sees pos and the     *)
(* token returned; during a call it sees only where the call started.     *)
Settled == pc \in {"idle", "eof"}

Token == INSTANCE NatsukiTokens
            WITH at       <- IF Settled THEN pos ELSE start,
                 status   <- IF Busy THEN "busy" ELSE pc,
                 kind     <- last,
                 value    <- IF Settled THEN lexeme ELSE <<>>,
                 Contract <- SpecNext,
                 Modes    <- AllowedModes,
                 NoResult <- Hang

(* The character-level lexer implements the token service of section    *)
(* 4.1: every run of next_token's loops (lines 234-299) is one atomic    *)
(* call that returns the contract's token and moves just past it, or     *)
(* raises LexerError where the contract has no token; no step inside a   *)
(* call is visible to the parser; and every call the contract defines   *)
(* returns.                                                                *)
TokenService == Token!Spec

(* The lexer turns every input file into tokens or a LexerError: it never *)
(* raises another Python exception (Lexer.__init__, line 162), and every  *)
(* call of next_token returns (the loops of lines 234-299).               *)
LexerTotal == [](pc # "crash") /\ (Busy ~> ~Busy)
=============================================================================
