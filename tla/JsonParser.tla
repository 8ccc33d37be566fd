------------------------------ MODULE JsonParser ------------------------------
(***************************************************************************)
(* The JSON parser (json/src/lib.rs), which reads every message, every     *)
(* HTTP body of a node and the persisted state.  The code is a set of      *)
(* functions that call each other; here the parser is the state between    *)
(* two bytes, and Step is what the next byte does to it.                   *)
(*                                                                         *)
(* A byte is a one-character string, or stands for a class of bytes: "7"   *)
(* is any digit but 0, "x" any other character that means nothing by       *)
(* itself, "ctl" an unescaped control character, "c3" and "f0" the first   *)
(* byte of a UTF-8 character of two and of four bytes, "80" a later one,   *)
(* and "ff" a byte that UTF-8 does not have.  The four hexadecimal digits  *)
(* of an escape \uXXXX count as one byte; HexUnit lists them.              *)
(***************************************************************************)
EXTENDS Naturals, Sequences

CONSTANTS
    MaxDepth,   \* MAX_DEPTH
    Alphabets   \* sets of bytes, each with a bound on the length of the
                \* inputs that are written in it

ASSUME DepthAssumption == MaxDepth \in Nat /\ MaxDepth > 1

ASSUME LengthAssumption == \A a \in Alphabets : a.max \in Nat

VARIABLES
    alphabet,  \* the alphabet of the input
    input,     \* what the parser has read
    parser     \* the parser

vars == <<alphabet, input, parser>>

Quote == "\""
Escape == "\\"

Digit == {"0", "7"}

\* The characters that a \uXXXX escape stands for, surrogates excepted.
HexUnit ==
    [h \in {"0078", "0022", "000a", "0001"} |->
        CASE h = "0078" -> "x"
          [] h = "0022" -> Quote
          [] h = "000a" -> "LF"
          [] h = "0001" -> "SOH"]

HighSurrogate == "D83D"
LowSurrogate == "DE00"

\* The escapes of one letter, and what they stand for.
Unescaped ==
    [e \in {Quote, Escape, "/", "n"} |-> IF e = "n" THEN "LF" ELSE e]

\* The UTF-8 characters by their first byte: how many bytes follow.  A later
\* byte in first place ("80") looks like one of two bytes.
Following == [b \in {"c3", "f0", "80"} |-> IF b = "f0" THEN 3 ELSE 1]

\* str::from_utf8 of a character that was collected byte by byte.
Utf8Char(bytes) ==
    CASE bytes = <<"c3", "80">> -> "U+C0"
      [] bytes = <<"f0", "80", "80", "80">> -> "U+1F600"
      [] OTHER -> "invalid"
-----------------------------------------------------------------------------
(***************************************************************************)
(* The parser: the place in the code (pc), the arrays and objects that are *)
(* open (stack), the string or number being read (text), the bytes of a    *)
(* UTF-8 character being read (bytes), and the finished value.             *)
(***************************************************************************)
Array(elems) == [kind |-> "array", elems |-> elems]

Object(entries, key) == [kind |-> "object", entries |-> entries, key |-> key]

Fail(p) == [p EXCEPT !.pc = "error"]

Goto(p, pc) == [p EXCEPT !.pc = pc]

Push(p, c) == [p EXCEPT !.text = Append(@, c)]

PushGoto(p, c, pc) == [p EXCEPT !.text = Append(@, c), !.pc = pc]

Top(p) == p.stack[Len(p.stack)]

SetTop(p, frame) == [p.stack EXCEPT ![Len(p.stack)] = frame]

Pop(p) == SubSeq(p.stack, 1, Len(p.stack) - 1)

\* visit_value is called.
EnterValue(p) ==
    [p EXCEPT !.depth = @ + 1,
              !.pc = IF p.depth + 1 >= MaxDepth THEN "error" ELSE "value"]

\* Mutant: the depth is not taken back.
LeaveValueDeep(p, v) ==
    IF p.stack = <<>> THEN [p EXCEPT !.pc = "done", !.value = v]
    ELSE LET top == Top(p)
         IN  [p EXCEPT !.pc = "after_value", !.text = <<>>,
                       !.stack = SetTop(p,
                           IF top.kind = "array"
                           THEN Array(Append(top.elems, v))
                           ELSE Object({e \in top.entries : e[1] # top.key}
                                         \cup {<<top.key, v>>}, <<>>))]

\* visit_value returns v: to visit_array, which appends it, to visit_object,
\* which inserts it under its key, replacing an entry with the same key, or
\* to parse.  (The depth is taken back before the whitespace that follows,
\* not after it; nothing looks at it in between.)
LeaveValue(p, v) ==
    IF p.stack = <<>> THEN [p EXCEPT !.pc = "done", !.depth = @ - 1, !.value = v]
    ELSE LET top == Top(p)
         IN  [p EXCEPT !.pc = "after_value", !.depth = @ - 1, !.text = <<>>,
                       !.stack = SetTop(p,
                           IF top.kind = "array"
                           THEN Array(Append(top.elems, v))
                           ELSE Object({e \in top.entries : e[1] # top.key}
                                         \cup {<<top.key, v>>}, <<>>))]

\* Closing the innermost array or object.
Close(p) ==
    LET top == Top(p)
        q == [p EXCEPT !.stack = Pop(p)]
    IN  IF top.kind = "array" THEN LeaveValue(q, <<"array", top.elems>>)
                              ELSE LeaveValue(q, <<"object", top.entries>>)

\* Parser::new, and parse calling visit_value.
NewParser ==
    EnterValue([pc |-> "new", stack |-> <<>>, depth |-> 0, text |-> <<>>,
                bytes |-> <<>>, key |-> FALSE, value |-> <<>>])
-----------------------------------------------------------------------------
(***************************************************************************)
(* Strings (visit_string).  key tells whether it is a key of an object.    *)
(***************************************************************************)
OpenString(p, key) ==
    [p EXCEPT !.pc = "string", !.text = <<>>, !.key = key]

CloseString(p) ==
    IF p.key
    THEN [p EXCEPT !.pc = "after_key", !.key = FALSE,
                   !.stack = SetTop(p, [Top(p) EXCEPT !.key = p.text])]
    ELSE LeaveValue(p, <<"string", p.text>>)

InString(p, b) ==
    CASE b = Quote -> CloseString(p)
      [] b = Escape -> Goto(p, "escape")
      [] b = "ctl" -> Fail(p)
      [] b = "ff" -> Fail(p)
      [] b \in DOMAIN Following -> [p EXCEPT !.pc = "utf8", !.bytes = <<b>>]
      [] OTHER -> Push(p, b)

InUtf8(p, b) ==
    LET bytes == Append(p.bytes, b)
        q == [p EXCEPT !.bytes = bytes]
    IN  IF Len(bytes) <= Following[bytes[1]] THEN q
        ELSE IF Utf8Char(bytes) = "invalid" THEN Fail(q)
        ELSE PushGoto([q EXCEPT !.bytes = <<>>], Utf8Char(bytes), "string")

InEscape(p, b) ==
    CASE b = "u" -> Goto(p, "hex")
      [] b \in DOMAIN Unescaped -> PushGoto(p, Unescaped[b], "string")
      [] OTHER -> Fail(p)

\* A high surrogate is kept (pending_high_surrogate) until its partner
\* comes; a low one alone is an error.
InHex(p, b) ==
    CASE b = HighSurrogate -> Goto(p, "high")
      [] b \in DOMAIN HexUnit -> PushGoto(p, HexUnit[b], "string")
      [] OTHER -> Fail(p)

\* Mutant: a high surrogate may stand alone at the end of a string.
AfterHighUnpaired(p, b) ==
    CASE b = Escape -> Goto(p, "high_escape")
      [] b = Quote -> CloseString(p)
      [] OTHER -> Fail(p)

\* Both bytes of "\u" are read before they are compared; here the first is
\* compared at once, and the error only comes earlier.
AfterHigh(p, b) == IF b = Escape THEN Goto(p, "high_escape") ELSE Fail(p)

AfterHighEscape(p, b) == IF b = "u" THEN Goto(p, "low") ELSE Fail(p)

InLow(p, b) ==
    IF b = LowSurrogate THEN PushGoto(p, "U+1F600", "string") ELSE Fail(p)
-----------------------------------------------------------------------------
(***************************************************************************)
(* true, false and null (visit_bool, visit_null): text is what is still    *)
(* expected.                                                               *)
(***************************************************************************)
Literal ==
    [b \in {"t", "f", "n"} |->
        CASE b = "t" -> <<"r", "u", "e">>
          [] b = "f" -> <<"a", "l", "s", "e">>
          [] b = "n" -> <<"u", "l", "l">>]

OpenLiteral(p, b) ==
    [p EXCEPT !.pc = "literal", !.text = Literal[b], !.bytes = <<b>>]

InLiteral(p, b) ==
    IF b # Head(p.text) THEN Fail(p)
    ELSE IF Len(p.text) > 1 THEN [p EXCEPT !.text = Tail(@)]
    ELSE LeaveValue([p EXCEPT !.bytes = <<>>], <<"literal", p.bytes>>)
-----------------------------------------------------------------------------
(***************************************************************************)
(* After a value (the end of visit_value, then visit_array, visit_object   *)
(* or parse): whitespace, then a separator, the end of the innermost array *)
(* or object, or at the top nothing at all.                                *)
(***************************************************************************)
Closing(frame) == IF frame.kind = "array" THEN "]" ELSE "}"

AfterValue(p, b) ==
    IF b = " " THEN p
    ELSE IF p.stack = <<>> THEN Fail(p)
    ELSE IF b = Closing(Top(p)) THEN Close(p)
    ELSE IF b # "," THEN Fail(p)
    ELSE IF Top(p).kind = "array" THEN EnterValue(p)
    ELSE Goto(p, "object_key")

(***************************************************************************)
(* Numbers (visit_number and its parts).  A number ends before the byte    *)
(* that does not belong to it, which a digit after a leading zero is not   *)
(* allowed to be.                                                          *)
(***************************************************************************)
NumberEnds == {"zero", "int", "frac", "exp_digits"}

EndNumber(p) == LeaveValue(p, <<"number", p.text>>)

\* After the integral part, where a fraction or an exponent may follow.
AfterIntegral(p, b) ==
    CASE b = "." -> PushGoto(p, b, "point")
      [] b \in {"e", "E"} -> PushGoto(p, "e", "exp")
      [] b \in Digit /\ p.pc = "zero" -> Fail(p)
      [] b \in Digit /\ p.pc = "int" -> Push(p, b)
      [] OTHER -> AfterValue(EndNumber(p), b)

AfterMinus(p, b) ==
    CASE b = "0" -> PushGoto(p, b, "zero")
      [] b = "7" -> PushGoto(p, b, "int")
      [] OTHER -> Fail(p)

AfterPoint(p, b) == IF b \in Digit THEN PushGoto(p, b, "frac") ELSE Fail(p)

InFraction(p, b) ==
    CASE b \in Digit -> Push(p, b)
      [] b \in {"e", "E"} -> PushGoto(p, "e", "exp")
      [] OTHER -> AfterValue(EndNumber(p), b)

AfterExp(p, b) ==
    CASE b \in {"+", "-"} -> PushGoto(p, b, "exp_sign")
      [] b \in Digit -> PushGoto(p, b, "exp_digits")
      [] OTHER -> Fail(p)

AfterExpSign(p, b) ==
    IF b \in Digit THEN PushGoto(p, b, "exp_digits") ELSE Fail(p)

InExponent(p, b) ==
    IF b \in Digit THEN Push(p, b) ELSE AfterValue(EndNumber(p), b)
-----------------------------------------------------------------------------
(***************************************************************************)
(* visit_value, visit_array and visit_object up to the first byte that     *)
(* tells what comes.                                                       *)
(***************************************************************************)
visit_value(p, b) ==
    LET q == [p EXCEPT !.text = <<>>]
    IN  CASE b = " " -> p
          [] b = Quote -> OpenString(q, FALSE)
          [] b = "{" -> [q EXCEPT !.pc = "object_start",
                                  !.stack = Append(@, Object({}, <<>>))]
          [] b = "[" -> [q EXCEPT !.pc = "array_start",
                                  !.stack = Append(@, Array(<<>>))]
          [] b \in DOMAIN Literal -> OpenLiteral(q, b)
          [] b = "-" -> PushGoto(q, b, "minus")
          [] b = "0" -> PushGoto(q, b, "zero")
          [] b = "7" -> PushGoto(q, b, "int")
          [] OTHER -> Fail(p)

ArrayStart(p, b) ==
    CASE b = " " -> p
      [] b = "]" -> Close(p)
      [] OTHER -> LET q == EnterValue(p)
                  IN  IF q.pc = "error" THEN q ELSE visit_value(q, b)

ObjectKey(p, b) ==
    CASE b = " " -> p
      [] b = Quote -> OpenString(p, TRUE)
      [] OTHER -> Fail(p)

ObjectStart(p, b) == IF b = "}" THEN Close(p) ELSE ObjectKey(p, b)

AfterKey(p, b) ==
    CASE b = " " -> p
      [] b = ":" -> EnterValue(p)
      [] OTHER -> Fail(p)
-----------------------------------------------------------------------------
Step(p, b) ==
    CASE p.pc = "value" -> visit_value(p, b)
      [] p.pc = "array_start" -> ArrayStart(p, b)
      [] p.pc = "object_start" -> ObjectStart(p, b)
      [] p.pc = "object_key" -> ObjectKey(p, b)
      [] p.pc = "after_key" -> AfterKey(p, b)
      [] p.pc \in {"after_value", "done"} -> AfterValue(p, b)
      [] p.pc = "literal" -> InLiteral(p, b)
      [] p.pc = "string" -> InString(p, b)
      [] p.pc = "utf8" -> InUtf8(p, b)
      [] p.pc = "escape" -> InEscape(p, b)
      [] p.pc = "hex" -> InHex(p, b)
      [] p.pc = "high" -> AfterHigh(p, b)
      [] p.pc = "high_escape" -> AfterHighEscape(p, b)
      [] p.pc = "low" -> InLow(p, b)
      [] p.pc = "minus" -> AfterMinus(p, b)
      [] p.pc \in {"zero", "int"} -> AfterIntegral(p, b)
      [] p.pc = "point" -> AfterPoint(p, b)
      [] p.pc = "frac" -> InFraction(p, b)
      [] p.pc = "exp" -> AfterExp(p, b)
      [] p.pc = "exp_sign" -> AfterExpSign(p, b)
      [] p.pc = "exp_digits" -> InExponent(p, b)
      [] p.pc = "error" -> p

\* The input ends: a number ends with it, and unless a value is complete by
\* then it is an UnexpectedEOF.
AtEnd(p) == IF p.pc \in NumberEnds /\ p.stack = <<>> THEN EndNumber(p) ELSE p

Accepts(p) == AtEnd(p).pc = "done"

Parsed(p) == AtEnd(p).value
-----------------------------------------------------------------------------
Init ==
    /\ alphabet \in Alphabets
    /\ input = <<>>
    /\ parser = NewParser

\* Nothing is read after an error.
Read(b) ==
    /\ parser.pc # "error"
    /\ Len(input) < alphabet.max
    /\ input' = Append(input, b)
    /\ parser' = Step(parser, b)
    /\ UNCHANGED alphabet

Next == \E b \in alphabet.bytes : Read(b)

Spec == Init /\ [][Next]_vars
-----------------------------------------------------------------------------
\* However deep an input is nested, the parser does not: a value has at most
\* MaxDepth - 2 arrays and objects around it, and the depth that visit_value
\* counts is that number, and one more inside of a value.
DepthIsNesting ==
    parser.pc # "error" =>
        /\ Len(parser.stack) < MaxDepth
        /\ parser.depth = Len(parser.stack) +
             (IF parser.pc \in {"value", "string", "utf8", "escape", "hex",
                                "high", "high_escape", "low", "literal",
                                "minus", "zero", "int", "point", "frac", "exp",
                                "exp_sign", "exp_digits"} /\ ~ parser.key
              THEN 1 ELSE 0)
==============================================================================
