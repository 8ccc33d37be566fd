----------------------------- MODULE JsonDocument -----------------------------
(***************************************************************************)
(* What the parser of JsonParser is measured against: the grammar of JSON  *)
(* (RFC 8259, with the parser's limit on nesting), and printing (Display   *)
(* for Value in json/src/lib.rs), which must be undone by parsing.  The    *)
(* definitions are recursive and meant for TLC.                            *)
(***************************************************************************)
EXTENDS JsonParser, SequencesExt

(***************************************************************************)
(* The grammar, as a relation between positions in a text s: from a set I  *)
(* of positions at which something may start, each operator gives the ones *)
(* at which it may have ended.  Position Len(s) + 1 is the end of s, and   *)
(* Len(s) + 2 any place after it: s ends in the middle of what could       *)
(* still be completed.                                                     *)
(***************************************************************************)
Token(s, I, S) ==
    {IF i > Len(s) THEN Len(s) + 2 ELSE i + 1 :
       i \in {j \in I : j > Len(s) \/ (j <= Len(s) /\ s[j] \in S)}}

RECURSIVE Word(_, _, _)
Word(s, I, w) ==
    IF w = <<>> \/ I = {} THEN I ELSE Word(s, Token(s, I, {Head(w)}), Tail(w))

\* Any number of bytes of S.
RECURSIVE Many(_, _, _)
Many(s, I, S) == IF I = {} THEN {} ELSE I \cup Many(s, Token(s, I, S) \ I, S)

Ws(s, I) == Many(s, I, {" "})

Digits(s, I) == Many(s, Token(s, I, Digit), Digit)

Number(s, I) ==
    LET sign == I \cup Token(s, I, {"-"})
        first == Token(s, sign, {"7"})
        int == Token(s, sign, {"0"}) \cup first \cup Digits(s, first)
        frac == int \cup Digits(s, Token(s, int, {"."}))
        exp == Token(s, frac, {"e", "E"})
    IN  frac \cup Digits(s, exp \cup Token(s, exp, {"+", "-"}))

\* The ways to write one character of a string with more than one byte.
LongChars ==
    {<<Escape, e>> : e \in {Quote, Escape, "/", "n"}}
    \cup {<<Escape, "u", h>> : h \in {"0078", "0022", "000a", "0001"}}
    \cup {<<Escape, "u", HighSurrogate, Escape, "u", LowSurrogate>>,
          <<"c3", "80">>, <<"f0", "80", "80", "80">>}

PlainBytes ==
    UNION {a.bytes : a \in Alphabets}
      \ {Quote, Escape, "ctl", "c3", "f0", "80", "ff"}

RECURSIVE Chars(_, _)
Chars(s, I) ==
    IF I = {} THEN {}
    ELSE LET next == Token(s, I, PlainBytes)
                     \cup UNION {Word(s, I, w) : w \in LongChars}
         IN  I \cup Chars(s, next \ I)

String(s, I) == Token(s, Chars(s, Token(s, I, {Quote})), {Quote})

Constant(s, I) ==
    UNION {Word(s, I, w) : w \in {<<"t", "r", "u", "e">>,
                                  <<"f", "a", "l", "s", "e">>,
                                  <<"n", "u", "l", "l">>}}

\* A value with whitespace around it and at most k values in each other; and
\* one or more items of an array, or with keys of an object, with commas
\* between them.
RECURSIVE ValueIn(_, _, _), Items(_, _, _, _)
Items(s, I, keyed, k) ==
    IF I = {} \/ k = 0 THEN {}
    ELSE LET key == Token(s, Ws(s, String(s, Ws(s, I))), {":"})
             item == ValueIn(s, IF keyed THEN key ELSE I, k)
         IN  item \cup Items(s, Token(s, item, {","}) \ I, keyed, k)

ValueIn(s, I, k) ==
    LET start == Ws(s, I)
        Bracketed(open, keyed, close) ==
            LET inside == Token(s, start, {open})
            IN  Token(s, Ws(s, inside) \cup Items(s, inside, keyed, k - 1),
                      {close})
    IN  Ws(s, Number(s, start) \cup String(s, start) \cup Constant(s, start)
              \cup Bracketed("[", FALSE, "]") \cup Bracketed("{", TRUE, "}"))

Ends(s) == ValueIn(s, {1}, MaxDepth - 1)

IsDocument(s) == Len(s) + 1 \in Ends(s)

BeginsDocument(s) == \E i \in Ends(s) : i > Len(s)
-----------------------------------------------------------------------------
(***************************************************************************)
(* Printing.  A number is printed as it was read, up to the case of its    *)
(* exponent.  A HashMap has its entries in any order.                      *)
(***************************************************************************)
\* Mutant: control characters are printed as they are.
DisplayCharRaw(c) ==
    CASE c \in {Quote, Escape} -> <<Escape, c>>
      [] c \in {"LF", "SOH"} -> <<"ctl">>
      [] c = "U+C0" -> <<"c3", "80">>
      [] c = "U+1F600" -> <<"f0", "80", "80", "80">>
      [] OTHER -> <<c>>

DisplayChar(c) ==
    CASE c \in {Quote, Escape} -> <<Escape, c>>
      [] c = "LF" -> <<Escape, "n">>
      [] c = "SOH" -> <<Escape, "u", "0001">>
      [] c = "U+C0" -> <<"c3", "80">>
      [] c = "U+1F600" -> <<"f0", "80", "80", "80">>
      [] OTHER -> <<c>>

\* The bytes of a string that is printed without escapes.
Raw(s) ==
    FlattenSeq([i \in 1..Len(s) |->
                 IF s[i] \in {"LF", "SOH"} THEN <<"ctl">>
                 ELSE IF s[i] \in {Quote, Escape} THEN <<s[i]>>
                 ELSE DisplayChar(s[i])])

Separated(items) ==
    FlattenSeq([i \in 1..Len(items) |->
                 IF i = 1 THEN items[i] ELSE <<",", " ">> \o items[i]])

RECURSIVE Display(_)
Display(v) ==
    CASE v[1] = "string" ->
           <<Quote>> \o FlattenSeq([i \in 1..Len(v[2]) |-> DisplayChar(v[2][i])])
                     \o <<Quote>>
      [] v[1] = "number" -> v[2]
      [] v[1] = "literal" -> v[2] \o Literal[v[2][1]]
      [] v[1] = "array" ->
           <<"[">> \o Separated([i \in 1..Len(v[2]) |-> Display(v[2][i])]) \o <<"]">>
      [] v[1] = "object" ->
           LET entries == SetToSeq(v[2])
           IN  <<"{">> \o Separated([i \in 1..Len(entries) |->
                             <<Quote>> \o Raw(entries[i][1]) \o <<Quote, ":", " ">>
                                       \o Display(entries[i][2])]) \o <<"}">>

\* parse of a text.
Parse(text) == FoldLeft(Step, NewParser, text)

\* The keys of the objects in a value.
RECURSIVE Keys(_)
Keys(v) ==
    CASE v[1] = "array" -> UNION {Keys(v[2][i]) : i \in 1..Len(v[2])}
      [] v[1] = "object" -> UNION {{e[1]} \cup Keys(e[2]) : e \in v[2]}
      [] OTHER -> {}

NeedsEscape(s) == \E i \in 1..Len(s) : s[i] \in {Quote, Escape, "LF", "SOH"}
-----------------------------------------------------------------------------
(***************************************************************************)
(* Properties.                                                             *)
(***************************************************************************)

\* The parser accepts the documents of JSON, up to its limit on nesting, and
\* nothing else; and it reports an error only when no document begins with
\* what it has read (visit_value and everything it calls).
ParsesJson ==
    /\ Accepts(parser) <=> IsDocument(input)
    /\ parser.pc = "error" => ~ BeginsDocument(input)

\* "This enables lossless round-tripping" (Display for Value): what is
\* printed of a value that was parsed is parsed as that value again.  An
\* object whose keys have characters that need an escape is excepted: keys
\* are printed as they are.
RoundTrips ==
    Accepts(parser) /\ (\A k \in Keys(Parsed(parser)) : ~ NeedsEscape(k)) =>
        LET again == Parse(Display(Parsed(parser)))
        IN  Accepts(again) /\ Parsed(again) = Parsed(parser)
==============================================================================
