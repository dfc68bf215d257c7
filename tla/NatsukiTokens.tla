---------------------------- MODULE NatsukiTokens ----------------------------
(***************************************************************************)
(* The lexer as its client sees it (spec section 4.1): one call of        *)
(* next_token is one atomic step.  Called in mode m at position `at`, it  *)
(* returns the token Contract gives for the rest of the input and moves   *)
(* past the characters that token uses, or fails with LexerError; when    *)
(* the contract gives no result the call never returns.                   *)
(*                                                                         *)
(* The contract and the modes are parameters, so the module says nothing *)
(* about characters: NatsukiLexer supplies its SpecNext and AllowedModes. *)
(***************************************************************************)
EXTENDS Naturals, Sequences

CONSTANTS
    Texts,          \* the input files
    Contract(_, _), \* Contract(s, m): the [tok, used] outcome of a call in mode m on rest s
    Modes(_),       \* Modes(k): the modes the client may ask for after a token of kind k
    NoResult,       \* the outcome of a call for which the contract gives no result
    Failure         \* the outcome of a call that raises LexerError

VARIABLES
    text,    \* the input file
    at,      \* where the next call starts
    status,  \* "idle", "busy" (a call in progress), "eof" or "error"
    mode,    \* the mode of the current or last call
    kind,    \* the kind of the last token returned
    value    \* its text, handed to the client when the next call starts

tvars == <<text, at, status, mode, kind, value>>

Outcome == Contract(SubSeq(text, at, Len(text)), mode)

Init ==
    /\ text \in Texts
    /\ at = 1
    /\ status = "idle"
    /\ mode = "normal"
    /\ kind = "none"
    /\ value = <<>>

Call ==
    /\ status = "idle"
    /\ mode' \in Modes(kind)
    /\ status' = "busy"
    /\ value' = <<>>
    /\ UNCHANGED <<text, at, kind>>

Return ==
    /\ status = "busy"
    /\ Outcome \notin {NoResult, Failure}
    /\ at' = at + Outcome.used
    /\ kind' = Outcome.tok.kind
    /\ value' = Outcome.tok.lexeme
    /\ status' = IF Outcome.tok.kind = "EOF" THEN "eof" ELSE "idle"
    /\ UNCHANGED <<text, mode>>

Fail ==
    /\ status = "busy"
    /\ Outcome = Failure
    /\ status' = "error"
    /\ UNCHANGED <<text, at, mode, kind, value>>

Next == Call \/ Return \/ Fail

(* A call with a defined result is answered: the client does not give up *)
(* on it, but may stop calling.                                            *)
Spec == Init /\ [][Next]_tvars /\ WF_tvars(Return \/ Fail)
=============================================================================
