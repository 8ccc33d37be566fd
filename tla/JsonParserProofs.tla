--------------------------- MODULE JsonParserProofs ---------------------------
(***************************************************************************)
(* A theorem about JsonParser, for inputs of any length over any bytes:    *)
(* the parser's own count of its depth is the nesting of the input, so the *)
(* limit MaxDepth bounds the recursion of visit_value.                     *)
(*                                                                         *)
(* The inductive invariant (Good) adds to DepthIsNesting where in the code *)
(* the parser may be with a key in hand or with nothing open, since        *)
(* visit_array and visit_object would otherwise close what they have not   *)
(* opened.                                                                 *)
(***************************************************************************)
EXTENDS JsonParser, TLAPS, SequenceTheorems

StringPcs == {"string", "utf8", "escape", "hex", "high", "high_escape", "low"}

NumberPcs ==
    {"minus", "zero", "int", "point", "frac", "exp", "exp_sign", "exp_digits"}

\* In the middle of a value, unless it is a key.
ValuePcs == StringPcs \cup NumberPcs \cup {"value", "literal"}

\* In the middle of an array or an object, between its values.
OpenPcs ==
    {"array_start", "object_start", "object_key", "after_key", "after_value"}

IsParser(p) ==
    /\ DOMAIN p = {"pc", "stack", "depth", "text", "bytes", "key", "value"}
    /\ \E S : p.stack \in Seq(S)
    /\ p.depth \in Nat
    /\ p.key \in BOOLEAN

Good(p) ==
    /\ IsParser(p)
    /\ p.pc \in ValuePcs \cup OpenPcs \cup {"done"}
    /\ p.depth < MaxDepth
    /\ p.pc \in OpenPcs \/ p.key => p.stack # <<>>
    /\ p.key => p.pc \in StringPcs
    /\ p.pc \in ValuePcs /\ ~ p.key => p.depth = Len(p.stack) + 1
    /\ p.pc \notin ValuePcs \/ p.key => p.depth = Len(p.stack)

GoodOrFailed(p) == p.pc = "error" \/ Good(p)
-----------------------------------------------------------------------------
\* The stack, by its length.
LEMMA StackLength ==
    ASSUME NEW p, IsParser(p)
    PROVE  /\ Len(p.stack) \in Nat
           /\ p.stack # <<>> => Len(p.stack) >= 1
  <1>1. PICK S : p.stack \in Seq(S)
    BY DEF IsParser
  <1> QED
    BY <1>1

LEMMA SetTopKeeps ==
    ASSUME NEW p, IsParser(p), NEW frame, p.stack # <<>>
    PROVE  /\ \E S : SetTop(p, frame) \in Seq(S)
           /\ Len(SetTop(p, frame)) = Len(p.stack)
           /\ SetTop(p, frame) # <<>>
  <1>1. PICK S : p.stack \in Seq(S)
    BY DEF IsParser
  <1>2. PICK T : T = S \cup {frame}
    OBVIOUS
  <1>3. p.stack \in Seq(T) /\ frame \in T /\ Len(p.stack) \in 1..Len(p.stack)
    BY <1>1, <1>2
  <1>4. /\ SetTop(p, frame) \in Seq(T)
        /\ Len(SetTop(p, frame)) = Len(p.stack)
    BY <1>3 DEF SetTop
  <1>5. SetTop(p, frame) # <<>>
    BY <1>3, <1>4
  <1> QED
    BY <1>4, <1>5

LEMMA FailIs ==
    ASSUME NEW p, IsParser(p)
    PROVE  Fail(p).pc = "error"
  BY DEF Fail, IsParser

\* A step inside of a value, or of a key.
LEMMA Inside ==
    ASSUME NEW p, Good(p), p.pc \in ValuePcs, NEW q,
           DOMAIN q = DOMAIN p, q.stack = p.stack, q.depth = p.depth,
           q.key = p.key, q.pc \in ValuePcs, p.key => q.pc \in StringPcs
    PROVE  Good(q)
  <1>1. q.pc \notin OpenPcs
    BY DEF ValuePcs, StringPcs, NumberPcs, OpenPcs
  <1> QED
    BY <1>1 DEF Good, IsParser

\* visit_value is called where a value may stand.
LEMMA EnterValueIs ==
    ASSUME NEW p, IsParser(p), p.depth = Len(p.stack), ~ p.key
    PROVE  /\ GoodOrFailed(EnterValue(p))
           /\ EnterValue(p).pc \in {"value", "error"}
  <1>1. PICK q : q = EnterValue(p)
    OBVIOUS
  <1>2. /\ DOMAIN q = DOMAIN p /\ q.depth = p.depth + 1 /\ q.stack = p.stack
        /\ q.key = p.key
        /\ q.pc = IF p.depth + 1 >= MaxDepth THEN "error" ELSE "value"
    BY <1>1 DEF EnterValue, IsParser
  <1>3. q.pc # "error" => Good(q)
    BY <1>2, DepthAssumption
    DEF Good, IsParser, ValuePcs, StringPcs, NumberPcs, OpenPcs
  <1> QED
    BY <1>1, <1>2, <1>3 DEF GoodOrFailed

\* visit_value returns.
LEMMA LeaveValueIs ==
    ASSUME NEW p, IsParser(p), p.depth = Len(p.stack) + 1, p.depth < MaxDepth,
           ~ p.key, NEW v
    PROVE  /\ Good(LeaveValue(p, v))
           /\ LeaveValue(p, v).pc \in {"after_value", "done"}
  <1>1. PICK q : q = LeaveValue(p, v)
    OBVIOUS
  <1>2. Len(p.stack) \in Nat
    BY StackLength
  <1>3. CASE p.stack = <<>>
    <2>1. /\ DOMAIN q = DOMAIN p /\ q.depth = p.depth - 1 /\ q.stack = p.stack
          /\ q.key = p.key /\ q.pc = "done"
      BY <1>1, <1>3 DEF LeaveValue, IsParser
    <2>2. Good(q)
      BY <1>2, <2>1, DepthAssumption
      DEF Good, IsParser, ValuePcs, StringPcs, NumberPcs, OpenPcs
    <2> QED
      BY <1>1, <2>1, <2>2
  <1>4. CASE p.stack # <<>>
    <2>1. PICK frame :
            frame = IF Top(p).kind = "array"
                    THEN Array(Append(Top(p).elems, v))
                    ELSE Object({e \in Top(p).entries : e[1] # Top(p).key}
                                  \cup {<<Top(p).key, v>>}, <<>>)
      OBVIOUS
    <2>2. PICK stack : stack = SetTop(p, frame)
      OBVIOUS
    <2>3. q = [p EXCEPT !.pc = "after_value", !.depth = @ - 1, !.text = <<>>,
                        !.stack = stack]
      BY <1>1, <1>4, <2>1, <2>2, Zenon DEF LeaveValue
    <2>4. /\ DOMAIN q = DOMAIN p /\ q.depth = p.depth - 1 /\ q.stack = stack
          /\ q.key = p.key /\ q.pc = "after_value"
      BY <2>3 DEF IsParser
    <2>5. /\ \E S : stack \in Seq(S)
          /\ Len(stack) = Len(p.stack) /\ stack # <<>>
      BY <1>4, <2>2, SetTopKeeps
    <2>6. Good(q)
      BY <1>2, <2>4, <2>5, DepthAssumption
      DEF Good, IsParser, ValuePcs, StringPcs, NumberPcs, OpenPcs
    <2> QED
      BY <1>1, <2>4, <2>6
  <1> QED
    BY <1>3, <1>4

\* visit_array or visit_object returns.
LEMMA CloseIs ==
    ASSUME NEW p, IsParser(p), p.depth = Len(p.stack), p.depth < MaxDepth,
           ~ p.key, p.stack # <<>>
    PROVE  Good(Close(p))
  <1>1. PICK q : q = [p EXCEPT !.stack = Pop(p)]
    OBVIOUS
  <1>2. PICK S : p.stack \in Seq(S)
    BY DEF IsParser
  <1>3. Pop(p) \in Seq(S) /\ Len(Pop(p)) = Len(p.stack) - 1
    BY <1>2 DEF Pop
  <1>4. /\ DOMAIN q = DOMAIN p /\ q.depth = p.depth /\ q.stack = Pop(p)
        /\ q.key = p.key
    BY <1>1 DEF IsParser
  <1>5. IsParser(q) /\ q.depth = Len(q.stack) + 1 /\ q.depth < MaxDepth /\ ~ q.key
    BY <1>2, <1>3, <1>4 DEF IsParser
  <1>6. \A v : Good(LeaveValue(q, v))
    BY <1>5, LeaveValueIs
  <1>7. \/ Close(p) = LeaveValue(q, <<"array", Top(p).elems>>)
        \/ Close(p) = LeaveValue(q, <<"object", Top(p).entries>>)
    BY <1>1, Zenon DEF Close
  <1> QED
    BY <1>6, <1>7

\* After a value: whitespace, a separator, or the end of what is open.
LEMMA AfterValueIs ==
    ASSUME NEW p, Good(p), p.pc \in {"after_value", "done"}, NEW b
    PROVE  GoodOrFailed(AfterValue(p, b))
  <1>1. /\ IsParser(p) /\ p.depth = Len(p.stack) /\ ~ p.key
        /\ p.depth < MaxDepth
    BY DEF Good, ValuePcs, StringPcs, NumberPcs
  <1>2. GoodOrFailed(Fail(p)) /\ GoodOrFailed(p)
    BY <1>1, FailIs DEF GoodOrFailed
  <1>3. p.stack # <<>> => GoodOrFailed(Close(p))
    BY <1>1, CloseIs DEF GoodOrFailed
  <1>4. GoodOrFailed(EnterValue(p))
    BY <1>1, EnterValueIs
  <1>5. p.stack # <<>> => GoodOrFailed(Goto(p, "object_key"))
    <2>1. PICK q : q = Goto(p, "object_key")
      OBVIOUS
    <2>2. /\ DOMAIN q = DOMAIN p /\ q.depth = p.depth /\ q.stack = p.stack
          /\ q.key = p.key /\ q.pc = "object_key"
      BY <1>1, <2>1 DEF Goto, IsParser
    <2>3. p.stack # <<>> => Good(q)
      BY <1>1, <2>2
      DEF Good, IsParser, ValuePcs, StringPcs, NumberPcs, OpenPcs
    <2> QED
      BY <2>1, <2>3 DEF GoodOrFailed
  <1> QED
    BY <1>2, <1>3, <1>4, <1>5, Zenon DEF AfterValue

\* Whatever Goto, Push and PushGoto do, they do inside of a value.
LEMMA GotoIs ==
    ASSUME NEW p, Good(p), p.pc \in ValuePcs, NEW pc \in ValuePcs,
           p.key => pc \in StringPcs, NEW c
    PROVE  /\ GoodOrFailed(Goto(p, pc))
           /\ GoodOrFailed(PushGoto(p, c, pc))
           /\ GoodOrFailed(Push(p, c))
           /\ GoodOrFailed(Fail(p))
  <1>1. PICK q : q = Goto(p, pc)
    OBVIOUS
  <1>2. /\ DOMAIN q = DOMAIN p /\ q.depth = p.depth /\ q.stack = p.stack
        /\ q.key = p.key /\ q.pc = pc
    BY <1>1 DEF Goto, Good, IsParser
  <1>3. PICK r : r = PushGoto(p, c, pc)
    OBVIOUS
  <1>4. /\ DOMAIN r = DOMAIN p /\ r.depth = p.depth /\ r.stack = p.stack
        /\ r.key = p.key /\ r.pc = pc
    BY <1>3 DEF PushGoto, Good, IsParser
  <1>5. PICK s : s = Push(p, c)
    OBVIOUS
  <1>6. /\ DOMAIN s = DOMAIN p /\ s.depth = p.depth /\ s.stack = p.stack
        /\ s.key = p.key /\ s.pc = p.pc
    BY <1>5 DEF Push, Good, IsParser
  <1>7. Good(q)
    BY <1>2, Inside
  <1>8. Good(r)
    BY <1>4, Inside
  <1>9. Good(s)
    BY <1>6, Inside DEF Good
  <1>10. Fail(p).pc = "error"
    BY FailIs DEF Good
  <1> QED
    BY <1>1, <1>3, <1>5, <1>7, <1>8, <1>9, <1>10 DEF GoodOrFailed

\* The end of a number, or of a string that is no key.
LEMMA ValueEnds ==
    ASSUME NEW p, Good(p), p.pc \in ValuePcs, ~ p.key
    PROVE  /\ \A v : GoodOrFailed(LeaveValue(p, v))
           /\ \A b : GoodOrFailed(AfterValue(EndNumber(p), b))
  <1>1. \A v : /\ Good(LeaveValue(p, v))
               /\ LeaveValue(p, v).pc \in {"after_value", "done"}
    BY LeaveValueIs DEF Good
  <1>2. Good(EndNumber(p)) /\ EndNumber(p).pc \in {"after_value", "done"}
    BY <1>1 DEF EndNumber
  <1>3. \A b : GoodOrFailed(AfterValue(EndNumber(p), b))
    BY <1>2, AfterValueIs
  <1> QED
    BY <1>1, <1>3 DEF GoodOrFailed
-----------------------------------------------------------------------------
(***************************************************************************)
(* The functions of the parser.                                            *)
(***************************************************************************)
LEMMA CloseStringIs ==
    ASSUME NEW p, Good(p), p.pc \in StringPcs
    PROVE  GoodOrFailed(CloseString(p))
  <1>1. CASE ~ p.key
    BY <1>1, ValueEnds, Zenon DEF CloseString, ValuePcs
  <1>2. CASE p.key
    <2>1. /\ IsParser(p) /\ p.stack # <<>> /\ p.depth = Len(p.stack)
          /\ p.depth < MaxDepth
      BY <1>2 DEF Good
    <2>2. PICK stack : stack = SetTop(p, [Top(p) EXCEPT !.key = p.text])
      OBVIOUS
    <2>3. PICK q : q = [p EXCEPT !.pc = "after_key", !.key = FALSE,
                                 !.stack = stack]
      OBVIOUS
    <2>4. CloseString(p) = q
      BY <1>2, <2>2, <2>3, Zenon DEF CloseString
    <2>5. /\ DOMAIN q = DOMAIN p /\ q.depth = p.depth /\ q.stack = stack
          /\ q.key = FALSE /\ q.pc = "after_key"
      BY <2>1, <2>3 DEF IsParser
    <2>6. /\ \E S : stack \in Seq(S)
          /\ Len(stack) = Len(p.stack) /\ stack # <<>>
      BY <2>1, <2>2, SetTopKeeps
    <2>7. Good(q)
      BY <2>1, <2>5, <2>6
      DEF Good, IsParser, ValuePcs, StringPcs, NumberPcs, OpenPcs
    <2> QED
      BY <2>4, <2>7 DEF GoodOrFailed
  <1> QED
    BY <1>1, <1>2

LEMMA InStringIs ==
    ASSUME NEW p, Good(p), p.pc \in StringPcs, NEW b
    PROVE  /\ GoodOrFailed(InString(p, b))
           /\ GoodOrFailed(InUtf8(p, b))
           /\ GoodOrFailed(InEscape(p, b))
           /\ GoodOrFailed(InHex(p, b))
           /\ GoodOrFailed(AfterHigh(p, b))
           /\ GoodOrFailed(AfterHighEscape(p, b))
           /\ GoodOrFailed(InLow(p, b))
  <1>1. p.pc \in ValuePcs /\ \A pc \in StringPcs : pc \in ValuePcs
    BY DEF ValuePcs
  <1>2. \A pc \in StringPcs : \A c :
          /\ GoodOrFailed(Goto(p, pc)) /\ GoodOrFailed(PushGoto(p, c, pc))
          /\ GoodOrFailed(Push(p, c)) /\ GoodOrFailed(Fail(p))
    BY <1>1, GotoIs
  <1>3. /\ "string" \in StringPcs /\ "escape" \in StringPcs /\ "hex" \in StringPcs
        /\ "high" \in StringPcs /\ "high_escape" \in StringPcs
        /\ "low" \in StringPcs
    BY DEF StringPcs
  <1>4. GoodOrFailed(InString(p, b))
    <2>1. GoodOrFailed([p EXCEPT !.pc = "utf8", !.bytes = <<b>>])
      <3>1. PICK q : q = [p EXCEPT !.pc = "utf8", !.bytes = <<b>>]
        OBVIOUS
      <3>2. /\ DOMAIN q = DOMAIN p /\ q.depth = p.depth /\ q.stack = p.stack
            /\ q.key = p.key /\ q.pc = "utf8"
        BY <3>1 DEF Good, IsParser
      <3>3. Good(q)
        BY <1>1, <3>2, Inside DEF StringPcs
      <3> QED
        BY <3>1, <3>3 DEF GoodOrFailed
    <2> QED
      BY <1>2, <1>3, <2>1, CloseStringIs, Zenon DEF InString
  <1>5. GoodOrFailed(InUtf8(p, b))
    <2>1. PICK bytes : bytes = Append(p.bytes, b)
      OBVIOUS
    <2>2. PICK q : q = [p EXCEPT !.bytes = bytes]
      OBVIOUS
    <2>3. PICK r : r = [q EXCEPT !.bytes = <<>>]
      OBVIOUS
    <2>4. /\ DOMAIN q = DOMAIN p /\ q.depth = p.depth /\ q.stack = p.stack
          /\ q.key = p.key /\ q.pc = p.pc
      BY <2>2 DEF Good, IsParser
    <2>5. /\ DOMAIN r = DOMAIN p /\ r.depth = p.depth /\ r.stack = p.stack
          /\ r.key = p.key /\ r.pc = p.pc
      BY <2>3, <2>4 DEF Good, IsParser
    <2>6. Good(q) /\ Good(r)
      BY <1>1, <2>4, <2>5, Inside
    <2>7. GoodOrFailed(q) /\ GoodOrFailed(Fail(q))
      BY <2>6, FailIs DEF GoodOrFailed, Good
    <2>8. \A c : GoodOrFailed(PushGoto(r, c, "string"))
      BY <1>1, <1>3, <2>5, <2>6, GotoIs
    <2> QED
      BY <2>1, <2>2, <2>3, <2>7, <2>8, Zenon DEF InUtf8
  <1>6. GoodOrFailed(InEscape(p, b))
    BY <1>2, <1>3, Zenon DEF InEscape
  <1>7. GoodOrFailed(InHex(p, b))
    BY <1>2, <1>3, Zenon DEF InHex
  <1>8. GoodOrFailed(AfterHigh(p, b)) /\ GoodOrFailed(AfterHighEscape(p, b))
        /\ GoodOrFailed(InLow(p, b))
    BY <1>2, <1>3, Zenon DEF AfterHigh, AfterHighEscape, InLow
  <1> QED
    BY <1>4, <1>5, <1>6, <1>7, <1>8

LEMMA InNumberIs ==
    ASSUME NEW p, Good(p), p.pc \in NumberPcs, NEW b
    PROVE  /\ GoodOrFailed(AfterMinus(p, b))
           /\ GoodOrFailed(AfterIntegral(p, b))
           /\ GoodOrFailed(AfterPoint(p, b))
           /\ GoodOrFailed(InFraction(p, b))
           /\ GoodOrFailed(AfterExp(p, b))
           /\ GoodOrFailed(AfterExpSign(p, b))
           /\ GoodOrFailed(InExponent(p, b))
  <1>1. /\ p.pc \in ValuePcs /\ ~ p.key
        /\ \A pc \in NumberPcs : pc \in ValuePcs
    BY DEF Good, ValuePcs, StringPcs, NumberPcs
  <1>2. \A pc \in NumberPcs : \A c :
          /\ GoodOrFailed(PushGoto(p, c, pc))
          /\ GoodOrFailed(Push(p, c)) /\ GoodOrFailed(Fail(p))
    BY <1>1, GotoIs
  <1>3. /\ "minus" \in NumberPcs /\ "zero" \in NumberPcs /\ "int" \in NumberPcs
        /\ "point" \in NumberPcs /\ "frac" \in NumberPcs /\ "exp" \in NumberPcs
        /\ "exp_sign" \in NumberPcs /\ "exp_digits" \in NumberPcs
    BY DEF NumberPcs
  <1>4. GoodOrFailed(AfterValue(EndNumber(p), b))
    BY <1>1, ValueEnds
  <1>5. GoodOrFailed(AfterMinus(p, b)) /\ GoodOrFailed(AfterPoint(p, b))
    BY <1>2, <1>3, Zenon DEF AfterMinus, AfterPoint
  <1>6. GoodOrFailed(AfterIntegral(p, b))
    BY <1>2, <1>3, <1>4, Zenon DEF AfterIntegral
  <1>7. GoodOrFailed(InFraction(p, b))
    BY <1>2, <1>3, <1>4, Zenon DEF InFraction
  <1>8. GoodOrFailed(AfterExp(p, b)) /\ GoodOrFailed(AfterExpSign(p, b))
        /\ GoodOrFailed(InExponent(p, b))
    BY <1>2, <1>3, <1>4, Zenon DEF AfterExp, AfterExpSign, InExponent
  <1> QED
    BY <1>5, <1>6, <1>7, <1>8

LEMMA InLiteralIs ==
    ASSUME NEW p, Good(p), p.pc = "literal", NEW b
    PROVE  GoodOrFailed(InLiteral(p, b))
  <1>1. p.pc \in ValuePcs /\ ~ p.key
    BY DEF Good, ValuePcs, StringPcs
  <1>2. GoodOrFailed(Fail(p))
    BY FailIs DEF GoodOrFailed, Good
  <1>3. PICK q : q = [p EXCEPT !.text = Tail(@)]
    OBVIOUS
  <1>4. PICK r : r = [p EXCEPT !.bytes = <<>>]
    OBVIOUS
  <1>5. /\ DOMAIN q = DOMAIN p /\ q.depth = p.depth /\ q.stack = p.stack
        /\ q.key = p.key /\ q.pc = p.pc
        /\ DOMAIN r = DOMAIN p /\ r.depth = p.depth /\ r.stack = p.stack
        /\ r.key = p.key /\ r.pc = p.pc
    BY <1>3, <1>4 DEF Good, IsParser
  <1>6. Good(q) /\ Good(r)
    BY <1>1, <1>5, Inside
  <1>7. GoodOrFailed(q) /\ \A v : GoodOrFailed(LeaveValue(r, v))
    BY <1>1, <1>5, <1>6, ValueEnds DEF GoodOrFailed
  <1> QED
    BY <1>2, <1>3, <1>4, <1>7, Zenon DEF InLiteral

\* visit_array and visit_object open an array or an object.
LEMMA OpenIs ==
    ASSUME NEW p, Good(p), p.pc = "value", NEW frame,
           NEW pc \in {"array_start", "object_start"}
    PROVE  GoodOrFailed([[p EXCEPT !.text = <<>>] EXCEPT !.pc = pc,
                                      !.stack = Append(@, frame)])
  <1>1. IsParser(p) /\ ~ p.key /\ p.depth = Len(p.stack) + 1
        /\ p.depth < MaxDepth
    BY DEF Good, ValuePcs, StringPcs
  <1>2. PICK S : p.stack \in Seq(S)
    BY <1>1 DEF IsParser
  <1>3. PICK T : T = S \cup {frame}
    OBVIOUS
  <1>4. PICK stack : stack = Append(p.stack, frame)
    OBVIOUS
  <1>5. p.stack \in Seq(T) /\ frame \in T
    BY <1>2, <1>3
  <1>6. stack \in Seq(T) /\ Len(stack) = Len(p.stack) + 1 /\ stack # <<>>
    BY <1>4, <1>5
  <1>7. PICK q : q = [p EXCEPT !.text = <<>>]
    OBVIOUS
  <1>8. PICK r : r = [q EXCEPT !.pc = pc, !.stack = Append(@, frame)]
    OBVIOUS
  <1>9. /\ DOMAIN q = DOMAIN p /\ q.depth = p.depth /\ q.stack = p.stack
        /\ q.key = p.key
    BY <1>1, <1>7 DEF IsParser
  <1>10. /\ DOMAIN r = DOMAIN p /\ r.depth = p.depth /\ r.stack = stack
         /\ r.key = p.key /\ r.pc = pc
    BY <1>1, <1>4, <1>8, <1>9 DEF IsParser
  <1>11. Good(r)
    BY <1>1, <1>6, <1>10
    DEF Good, IsParser, ValuePcs, StringPcs, NumberPcs, OpenPcs
  <1> QED
    BY <1>7, <1>8, <1>11, Zenon DEF GoodOrFailed

LEMMA VisitValueIs ==
    ASSUME NEW p, Good(p), p.pc = "value", NEW b
    PROVE  GoodOrFailed(visit_value(p, b))
  <1>1. /\ IsParser(p) /\ ~ p.key /\ p.key = FALSE /\ p.pc \in ValuePcs
    BY DEF Good, IsParser, ValuePcs, StringPcs
  <1>2. GoodOrFailed(p) /\ GoodOrFailed(Fail(p))
    BY <1>1, FailIs DEF GoodOrFailed
  <1>3. PICK q : q = [p EXCEPT !.text = <<>>]
    OBVIOUS
  <1>4. /\ DOMAIN q = DOMAIN p /\ q.depth = p.depth /\ q.stack = p.stack
        /\ q.key = p.key /\ q.pc = p.pc
    BY <1>1, <1>3 DEF IsParser
  <1>5. Good(q)
    BY <1>1, <1>4, Inside
  <1>6. \A pc \in NumberPcs : \A c : GoodOrFailed(PushGoto(q, c, pc))
    <2>1. \A pc \in NumberPcs : pc \in ValuePcs
      BY DEF ValuePcs
    <2> QED
      BY <1>1, <1>4, <1>5, <2>1, GotoIs
  <1>7. "minus" \in NumberPcs /\ "zero" \in NumberPcs /\ "int" \in NumberPcs
    BY DEF NumberPcs
  <1>8. GoodOrFailed(OpenString(q, FALSE))
    <2>1. PICK r : r = OpenString(q, FALSE)
      OBVIOUS
    <2>2. /\ DOMAIN r = DOMAIN p /\ r.depth = p.depth /\ r.stack = p.stack
          /\ r.key = FALSE /\ r.pc = "string"
      BY <1>1, <1>4, <2>1 DEF OpenString, IsParser
    <2>3. Good(r)
      BY <1>1, <2>2, Inside DEF ValuePcs, StringPcs
    <2> QED
      BY <2>1, <2>3 DEF GoodOrFailed
  <1>9. GoodOrFailed(OpenLiteral(q, b))
    <2>1. PICK r : r = OpenLiteral(q, b)
      OBVIOUS
    <2>2. /\ DOMAIN r = DOMAIN p /\ r.depth = p.depth /\ r.stack = p.stack
          /\ r.key = p.key /\ r.pc = "literal"
      BY <1>1, <1>4, <2>1 DEF OpenLiteral, IsParser
    <2>3. Good(r)
      BY <1>1, <2>2, Inside DEF ValuePcs
    <2> QED
      BY <2>1, <2>3 DEF GoodOrFailed
  <1>10. /\ GoodOrFailed([q EXCEPT !.pc = "object_start",
                                   !.stack = Append(@, Object({}, <<>>))])
         /\ GoodOrFailed([q EXCEPT !.pc = "array_start",
                                   !.stack = Append(@, Array(<<>>))])
    BY <1>3, OpenIs, Zenon
  <1> QED
    BY <1>2, <1>3, <1>6, <1>7, <1>8, <1>9, <1>10, Zenon DEF visit_value

\* Between the values of an array or an object.
LEMMA BetweenIs ==
    ASSUME NEW p, Good(p), p.pc \in OpenPcs \ {"after_value"}, NEW b
    PROVE  /\ GoodOrFailed(ArrayStart(p, b))
           /\ GoodOrFailed(ObjectStart(p, b))
           /\ GoodOrFailed(ObjectKey(p, b))
           /\ GoodOrFailed(AfterKey(p, b))
  <1>1. /\ IsParser(p) /\ ~ p.key /\ p.depth = Len(p.stack)
        /\ p.depth < MaxDepth /\ p.stack # <<>>
    BY DEF Good, IsParser, ValuePcs, StringPcs, NumberPcs, OpenPcs
  <1>2. GoodOrFailed(p) /\ GoodOrFailed(Fail(p))
    BY <1>1, FailIs DEF GoodOrFailed
  <1>3. GoodOrFailed(Close(p))
    BY <1>1, CloseIs DEF GoodOrFailed
  <1>4. /\ GoodOrFailed(EnterValue(p))
        /\ EnterValue(p).pc \in {"value", "error"}
    BY <1>1, EnterValueIs
  <1>5. EnterValue(p).pc # "error" => GoodOrFailed(visit_value(EnterValue(p), b))
    BY <1>4, VisitValueIs DEF GoodOrFailed
  <1>6. GoodOrFailed(IF EnterValue(p).pc = "error" THEN EnterValue(p)
                     ELSE visit_value(EnterValue(p), b))
    BY <1>4, <1>5, Zenon
  <1>7. GoodOrFailed(ArrayStart(p, b))
    BY <1>2, <1>3, <1>6, Zenon DEF ArrayStart
  <1>8. GoodOrFailed(OpenString(p, TRUE))
    <2>1. PICK q : q = OpenString(p, TRUE)
      OBVIOUS
    <2>2. /\ DOMAIN q = DOMAIN p /\ q.depth = p.depth /\ q.stack = p.stack
          /\ q.key = TRUE /\ q.pc = "string"
      BY <1>1, <2>1 DEF OpenString, IsParser
    <2>3. Good(q)
      BY <1>1, <2>2
      DEF Good, IsParser, ValuePcs, StringPcs, NumberPcs, OpenPcs
    <2> QED
      BY <2>1, <2>3 DEF GoodOrFailed
  <1>9. GoodOrFailed(ObjectKey(p, b))
    BY <1>2, <1>8, Zenon DEF ObjectKey
  <1>10. GoodOrFailed(ObjectStart(p, b))
    BY <1>3, <1>9, Zenon DEF ObjectStart
  <1>11. GoodOrFailed(AfterKey(p, b))
    BY <1>2, <1>4, Zenon DEF AfterKey
  <1> QED
    BY <1>7, <1>9, <1>10, <1>11

LEMMA StepIs ==
    ASSUME NEW p, Good(p), NEW b
    PROVE  GoodOrFailed(Step(p, b))
  <1>1. CASE p.pc = "value"
    <2>1. Step(p, b) = visit_value(p, b)
      BY <1>1 DEF Step
    <2> QED
      BY <1>1, <2>1, VisitValueIs
  <1>2. CASE p.pc \in OpenPcs \ {"after_value"}
    <2>1. Step(p, b) \in {ArrayStart(p, b), ObjectStart(p, b), ObjectKey(p, b),
                          AfterKey(p, b)}
      BY <1>2 DEF Step, OpenPcs
    <2> QED
      BY <1>2, <2>1, BetweenIs
  <1>3. CASE p.pc \in {"after_value", "done"}
    <2>1. Step(p, b) = AfterValue(p, b)
      BY <1>3 DEF Step
    <2> QED
      BY <1>3, <2>1, AfterValueIs
  <1>4. CASE p.pc = "literal"
    <2>1. Step(p, b) = InLiteral(p, b)
      BY <1>4 DEF Step
    <2> QED
      BY <1>4, <2>1, InLiteralIs
  <1>5. CASE p.pc \in StringPcs
    <2>1. Step(p, b) \in {InString(p, b), InUtf8(p, b), InEscape(p, b),
                          InHex(p, b), AfterHigh(p, b), AfterHighEscape(p, b),
                          InLow(p, b)}
      BY <1>5 DEF Step, StringPcs
    <2> QED
      BY <1>5, <2>1, InStringIs
  <1>6. CASE p.pc \in NumberPcs
    <2>1. Step(p, b) \in {AfterMinus(p, b), AfterIntegral(p, b),
                          AfterPoint(p, b), InFraction(p, b), AfterExp(p, b),
                          AfterExpSign(p, b), InExponent(p, b)}
      BY <1>6 DEF Step, NumberPcs
    <2> QED
      BY <1>6, <2>1, InNumberIs
  <1> QED
    BY <1>1, <1>2, <1>3, <1>4, <1>5, <1>6 DEF Good, ValuePcs
-----------------------------------------------------------------------------
\* However deep an input is nested, visit_value is not: the depth that it
\* counts, on every path through arrays, objects, keys and numbers that end
\* with the byte after them, is the nesting, and stays below MaxDepth.
THEOREM NestingIsBounded == Spec => []DepthIsNesting
  <1>1. Init => GoodOrFailed(parser)
    <2> SUFFICES ASSUME Init PROVE GoodOrFailed(parser)
      OBVIOUS
    <2>1. PICK p : p = [pc |-> "new", stack |-> <<>>, depth |-> 0,
                        text |-> <<>>, bytes |-> <<>>, key |-> FALSE,
                        value |-> <<>>]
      OBVIOUS
    <2>2. p.stack \in Seq({}) /\ Len(p.stack) = 0
      BY <2>1
    <2>3. IsParser(p) /\ p.depth = Len(p.stack) /\ ~ p.key
      BY <2>1, <2>2 DEF IsParser
    <2> QED
      BY <2>1, <2>3, EnterValueIs DEF Init, NewParser
  <1>2. GoodOrFailed(parser) /\ [Next]_vars => GoodOrFailed(parser)'
    <2> SUFFICES ASSUME GoodOrFailed(parser), [Next]_vars
                 PROVE  GoodOrFailed(parser)'
      OBVIOUS
    <2>1. CASE UNCHANGED vars
      BY <2>1 DEF vars, GoodOrFailed, Good, IsParser
    <2>2. CASE Next
      <3>1. PICK b : parser.pc # "error" /\ parser' = Step(parser, b)
        BY <2>2 DEF Next, Read
      <3>2. PICK q : q = Step(parser, b)
        OBVIOUS
      <3>3. GoodOrFailed(q)
        BY <3>1, <3>2, StepIs DEF GoodOrFailed
      <3>4. parser' = q
        BY <3>1, <3>2
      <3> QED
        BY <3>3, <3>4 DEF GoodOrFailed, Good, IsParser
    <2> QED
      BY <2>1, <2>2
  <1>3. GoodOrFailed(parser) => DepthIsNesting
    <2> SUFFICES ASSUME Good(parser)
                 PROVE  /\ Len(parser.stack) < MaxDepth
                        /\ parser.depth = Len(parser.stack) +
                             (IF parser.pc \in ValuePcs /\ ~ parser.key
                              THEN 1 ELSE 0)
      BY DEF GoodOrFailed, DepthIsNesting, ValuePcs, StringPcs, NumberPcs
    <2>1. Len(parser.stack) \in Nat /\ parser.depth \in Nat
      BY StackLength DEF Good, IsParser
    <2>2. /\ parser.depth < MaxDepth
          /\ parser.pc \in ValuePcs /\ ~ parser.key =>
               parser.depth = Len(parser.stack) + 1
          /\ ~ (parser.pc \in ValuePcs /\ ~ parser.key) =>
               parser.depth = Len(parser.stack)
      BY DEF Good
    <2>3. PICK inside : inside = IF parser.pc \in ValuePcs /\ ~ parser.key
                                 THEN 1 ELSE 0
      OBVIOUS
    <2>4. inside \in {0, 1} /\ parser.depth = Len(parser.stack) + inside
      <3>1. CASE parser.pc \in ValuePcs /\ ~ parser.key
        <4>1. inside = 1 /\ parser.depth = Len(parser.stack) + 1
          BY <2>2, <2>3, <3>1, Zenon
        <4> QED
          BY <4>1
      <3>2. CASE ~ (parser.pc \in ValuePcs /\ ~ parser.key)
        <4>1. inside = 0 /\ parser.depth = Len(parser.stack)
          BY <2>2, <2>3, <3>2, Zenon
        <4> QED
          BY <2>1, <4>1
      <3> QED
        BY <3>1, <3>2
    <2>5. Len(parser.stack) < MaxDepth
      BY <2>1, <2>2, <2>4, DepthAssumption
    <2> QED
      BY <2>3, <2>4, <2>5, Zenon
  <1> QED
    BY <1>1, <1>2, <1>3, PTL DEF Spec
==============================================================================
