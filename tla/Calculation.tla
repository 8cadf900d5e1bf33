---------------------------- MODULE Calculation ----------------------------
(***************************************************************************)
(* The calculation tool: refusal of shell commands, tokenizer, recursive   *)
(* descent parser that evaluates as it goes, functions with their domains. *)
(* It is compared with a reference written the other way round: longest    *)
(* match on the set of well-formed spellings, and an expression split at   *)
(* its last loose operator.                                                *)
(*                                                                         *)
(* A value is a fraction <<n, d>>, or Float: a number this model does not  *)
(* compute (a constant, a root, a large power). A letter of a text stands  *)
(* for a whole name: r sqrt, l log, i asin, a abs, f fact, e the constant. *)
(* The module is for TLC only: its operators are recursive.                *)
(***************************************************************************)
EXTENDS Integers, Sequences, FiniteSets

CONSTANTS
  Alphabets,  \* sets of characters; the texts of each are all tried
  MaxText     \* bound: characters in a text

VARIABLES
  alphabet,   \* what this text is written with
  written     \* the expression parameter

calcVars == <<alphabet, written>>

Digits  == {"0", "1", "2"}
Letters == {"r", "l", "i", "a", "f", "e", "x"}
Signs   == {"+", "-", "*", "/", "^", "(", ")"}
DigitOf == [c \in Digits |-> CASE c = "0" -> 0 [] c = "1" -> 1 [] OTHER -> 2]

-----------------------------------------------------------------------------
(* Numbers.                                                                *)

Float == <<0, 0>>

AsFloat(x, y) == x = Float \/ y = Float

Pow10 == <<1, 10, 100, 1000, 10000, 100000>>

Quotient(n, d) == IF d < 0 THEN <<-n, -d>> ELSE <<n, d>>

Plus(x, y)  == IF AsFloat(x, y) THEN Float
               ELSE <<x[1] * y[2] + y[1] * x[2], x[2] * y[2]>>
Neg(x)      == <<-x[1], x[2]>>
Times(x, y) == IF AsFloat(x, y) THEN Float ELSE <<x[1] * y[1], x[2] * y[2]>>
Over(x, y)  == IF AsFloat(x, y) THEN Float ELSE Quotient(x[1] * y[2], x[2] * y[1])

IsZero(x) == x # Float /\ x[1] = 0
IsInt(x)  == x # Float /\ x[1] % x[2] = 0
Int_(x)   == x[1] \div x[2]

\* powf: a fraction for the small integer exponents.
Raised(x, y) ==
  IF AsFloat(x, y) \/ ~IsInt(y) \/ Int_(y) \notin -4..4 THEN Float
  ELSE LET k == Int_(y) IN
       CASE k >= 0 -> <<x[1] ^ k, x[2] ^ k>>
         [] IsZero(x) -> Float
         [] OTHER -> Quotient(x[2] ^ (-k), x[1] ^ (-k))

\* The largest factorial a u64 holds is that of 20; the check admits 170.
Factorial[n \in 0..8] == IF n = 0 THEN 1 ELSE n * Factorial[n - 1]

Fail == [ok |-> FALSE]
Got(x, i) == [ok |-> TRUE, val |-> x, next |-> i]

\* The functions check their argument's domain (a Float is taken to be in it).
call_function(name, x, i) ==
  LET below == x # Float /\ x[1] < 0
      small == x = Float \/ (x[1] <= x[2] /\ -x[1] <= x[2])
  IN CASE name = "r" -> IF below THEN Fail ELSE Got(Float, i)
       [] name = "l" -> IF below \/ IsZero(x) THEN Fail ELSE Got(Float, i)
       [] name = "i" -> IF small THEN Got(Float, i) ELSE Fail
       [] name = "a" -> Got(IF below THEN Neg(x) ELSE x, i)
       [] name = "f" -> IF below \/ (x # Float /\ ~IsInt(x)) THEN Fail
                        ELSE IF x # Float /\ Int_(x) > 170 THEN Fail
                        ELSE Got(IF x # Float /\ Int_(x) <= 8
                                 THEN <<Factorial[Int_(x)], 1>> ELSE Float, i)
       [] OTHER -> Fail

-----------------------------------------------------------------------------
(* The tokenizer.                                                          *)

At(t, i) == IF i \in 1..Len(t) THEN t[i] ELSE "end"

\* The last position of the run of characters of S that begins at i.
RunEnd(t, i, S) ==
  CHOOSE j \in (i - 1)..Len(t) : At(t, j + 1) \notin S /\ \A k \in i..j : t[k] \in S

UnsignedVariant(t, d) == At(t, d + 1) = "e" /\ At(t, d + 2) \in Digits
Sci(t, d) == At(t, d + 1) = "e" /\ At(t, d + 2) \in Digits \cup {"+", "-"}
NumberEnd(t, i) ==
  LET d == RunEnd(t, i + 1, Digits \cup {"."})
  IN IF Sci(t, d) THEN RunEnd(t, d + 3, Digits) ELSE d

\* str::parse::<f64> of what was collected.
WellFormed(s) ==
  \E m \in 1..Len(s) :
    /\ \A k \in 1..m : s[k] \in Digits \cup {"."}
    /\ \E k \in 1..m : s[k] \in Digits
    /\ Cardinality({k \in 1..m : s[k] = "."}) <= 1
    /\ \/ m = Len(s)
       \/ /\ s[m + 1] = "e"
          /\ LET f == IF At(s, m + 2) \in {"+", "-"} THEN m + 3 ELSE m + 2
             IN f <= Len(s) /\ \A k \in f..Len(s) : s[k] \in Digits

RECURSIVE Whole(_)
Whole(s) == IF s = <<>> THEN 0
            ELSE Whole(SubSeq(s, 1, Len(s) - 1)) * 10 + DigitOf[s[Len(s)]]

\* The number a well-formed spelling denotes; with an exponent, a Float.
NumberOf(s) ==
  IF \E k \in 1..Len(s) : s[k] = "e" THEN Float
  ELSE LET whole == SelectSeq(s, LAMBDA c : c # ".")
           point == {k \in 1..Len(s) : s[k] = "."}
       IN <<Whole(whole), IF point = {} THEN 1
                          ELSE Pow10[Len(s) + 1 - CHOOSE k \in point : TRUE]>>

Tok(kind, x) == [kind |-> kind, val |-> x, name |-> kind]
Word(w) == IF w = <<"e">> THEN Tok("const", Float)
           ELSE [kind |-> "func", val |-> Float, name |-> IF Len(w) = 1 THEN w[1] ELSE "unknown"]

RECURSIVE Lexed(_, _, _)
Lexed(t, i, out) ==
  LET c == At(t, i)
      n == NumberEnd(t, i)
      w == RunEnd(t, i, Letters \cup Digits)
  IN CASE c = "end" -> [ok |-> TRUE, toks |-> out]
       [] c = " " -> Lexed(t, i + 1, out)
       [] c \in Signs -> Lexed(t, i + 1, Append(out, Tok(c, Float)))
       [] c \in Digits \/ (c = "." /\ At(t, i + 1) \in Digits) ->
            IF WellFormed(SubSeq(t, i, n))
            THEN Lexed(t, n + 1, Append(out, Tok("num", NumberOf(SubSeq(t, i, n)))))
            ELSE Fail
       [] c \in Letters -> Lexed(t, w + 1, Append(out, Word(SubSeq(t, i, w))))
       [] OTHER -> Fail

tokenize(t) == Lexed(t, 1, <<>>)

-----------------------------------------------------------------------------
(* The parser, one function for its rules: the rule, the token at position *)
(* i and what follows it, the value to the left. P stands for it below.    *)

Kind(t, i) == IF i \in 1..Len(t) THEN t[i].kind ELSE "end"
NoValue == <<0, 1>>

Term(P, t, i) ==
  LET p == P[t, "power", i, NoValue] IN IF p.ok THEN P[t, "products", p.next, p.val] ELSE Fail
Expression(P, t, i) ==
  LET m == Term(P, t, i) IN IF m.ok THEN P[t, "sums", m.next, m.val] ELSE Fail

Sums(P, t, i, left) ==
  IF Kind(t, i) \notin {"+", "-"} THEN Got(left, i)
  ELSE LET right == Term(P, t, i + 1) IN
       IF ~right.ok THEN Fail
       ELSE P[t, "sums", right.next,
              Plus(left, IF Kind(t, i) = "-" THEN Neg(right.val) ELSE right.val)]

Products(P, t, i, left) ==
  IF Kind(t, i) \notin {"*", "/"} THEN Got(left, i)
  ELSE LET right == P[t, "power", i + 1, NoValue]
           over == Kind(t, i) = "/"
       IN IF ~right.ok \/ (over /\ IsZero(right.val)) THEN Fail
          ELSE P[t, "products", right.next,
                 IF over THEN Over(left, right.val) ELSE Times(left, right.val)]

\* Right-associative.
LeftPowerVariant(P, t, i) ==
  LET base == P[t, "factor", i, NoValue] IN
  IF ~base.ok \/ Kind(t, base.next) # "^" THEN base
  ELSE LET exponent == P[t, "factor", base.next + 1, NoValue] IN
       IF exponent.ok THEN Got(Raised(base.val, exponent.val), exponent.next) ELSE Fail
Power(P, t, i) ==
  LET base == P[t, "factor", i, NoValue] IN
  IF ~base.ok \/ Kind(t, base.next) # "^" THEN base
  ELSE LET exponent == P[t, "power", base.next + 1, NoValue] IN
       IF exponent.ok THEN Got(Raised(base.val, exponent.val), exponent.next) ELSE Fail

\* Negation binds looser than a power: -2^2 is -(2^2).
TightVariant(P, t, i) == P[t, "factor", i, NoValue]
Negated(P, t, i) == P[t, "power", i, NoValue]

Within(P, t, i) ==
  LET inner == Expression(P, t, i) IN
  IF inner.ok /\ Kind(t, inner.next) = ")" THEN Got(inner.val, inner.next + 1) ELSE Fail

Factor(P, t, i) ==
  CASE Kind(t, i) \in {"num", "const"} -> Got(t[i].val, i + 1)
    [] Kind(t, i) = "-" -> LET f == Negated(P, t, i + 1) IN
                           IF f.ok THEN Got(Neg(f.val), f.next) ELSE Fail
    [] Kind(t, i) = "func" /\ Kind(t, i + 1) = "(" ->
         LET arg == Within(P, t, i + 2) IN
         IF arg.ok THEN call_function(t[i].name, arg.val, arg.next) ELSE Fail
    [] Kind(t, i) = "(" -> Within(P, t, i + 1)
    [] OTHER -> Fail

Tokens == Seq([kind : STRING, val : Int \X Int, name : STRING])

Parse[t \in Tokens, rule \in STRING, i \in Nat, left \in Int \X Int] ==
  CASE rule = "sums"     -> Sums(Parse, t, i, left)
    [] rule = "products" -> Products(Parse, t, i, left)
    [] rule = "power"    -> Power(Parse, t, i)
    [] OTHER             -> Factor(Parse, t, i)

\* Everything must have been used.
UsedVariant(t) == Expression(Parse, t, 1)
Used(t) == LET r == Expression(Parse, t, 1) IN
           IF r.ok /\ r.next = Len(t) + 1 THEN r ELSE Fail

evaluate_expression(t) ==
  LET lexed == tokenize(t) IN IF lexed.ok THEN Used(lexed.toks) ELSE Fail

-----------------------------------------------------------------------------
(* A shell command is sent to the shell tool.                              *)

Trimmed(t) ==
  LET solid == {k \in 1..Len(t) : t[k] # " "} IN
  IF solid = {} THEN <<>>
  ELSE SubSeq(t, CHOOSE k \in solid : \A m \in solid : k <= m,
                 CHOOSE k \in solid : \A m \in solid : k >= m)

Contains(t, s) == \E k \in 0..(Len(t) - Len(s)) : SubSeq(t, k + 1, k + Len(s)) = s

\* A command's name and a blank; x is one that is no function.
Strong == {<<"&", "&">>, <<"|", "|">>, <<"2", ">", "&", "1">>, <<";", " ">>,
           <<" ", "|", " ">>, <<" ", ">">>}
MinusVariant == Strong \cup {<<" ", "-">>}
Shelly == Strong

looks_like_shell_command(t) ==
  LET s == Trimmed(t) IN
  /\ s # <<>>
  /\ \/ \E p \in Shelly : Contains(s, p)
     \/ Len(s) > 1 /\ s[1] = "x" /\ s[2] = " "
     \/ s[1] \in {"|", ";", ">"}

execute(t) == IF looks_like_shell_command(t) THEN Fail ELSE evaluate_expression(t)

-----------------------------------------------------------------------------
(* A text is typed one character at a time.                                *)

Init == alphabet \in Alphabets /\ written = <<>>

Write(c) == /\ Len(written) < MaxText
            /\ written' = Append(written, c)
            /\ UNCHANGED alphabet

Next == \E c \in alphabet : Write(c)

-----------------------------------------------------------------------------
(* The reference: a token is the longest well-formed spelling, an operator *)
(* is the outermost and last of the loosest ones.                          *)

Spelled(s) ==
  CASE Len(s) = 1 /\ s[1] \in Signs -> <<Tok(s[1], Float)>>
    [] s[1] \in Letters /\ \A k \in 1..Len(s) : s[k] \in Letters \cup Digits -> <<Word(s)>>
    [] WellFormed(s) -> <<Tok("num", NumberOf(s))>>
    [] OTHER -> <<>>

RECURSIVE Split(_)
Split(t) ==
  IF t = <<>> THEN [ok |-> TRUE, toks |-> <<>>]
  ELSE IF t[1] = " " THEN Split(Tail(t))
  ELSE LET fits == {k \in 1..Len(t) : Spelled(SubSeq(t, 1, k)) # <<>>} IN
       IF fits = {} THEN Fail
       ELSE LET k == CHOOSE j \in fits : \A m \in fits : m <= j
                rest == Split(SubSeq(t, k + 1, Len(t)))
            IN IF rest.ok THEN [ok |-> TRUE, toks |-> Spelled(SubSeq(t, 1, k)) \o rest.toks]
               ELSE Fail

Depth(t, k) == Cardinality({m \in 1..k : t[m].kind = "("})
               - Cardinality({m \in 1..k : t[m].kind = ")"})

\* The binary operators of a kind outside all parentheses: an operand ends before them.
Outer(t, ops) == {k \in 2..Len(t) : /\ t[k].kind \in ops /\ Depth(t, k) = 0
                                    /\ t[k - 1].kind \in {"num", "const", ")"}}
LastOf(S)  == CHOOSE k \in S : \A m \in S : m <= k
FirstOf(S) == CHOOSE k \in S : \A m \in S : k <= m

Val(x) == Got(x, 0)

RECURSIVE Meaning(_)
Meaning(t) ==
  LET n == Len(t)
      sums == Outer(t, {"+", "-"})
      products == Outer(t, {"*", "/"})
      powers == Outer(t, {"^"})
      Cut(k) == <<Meaning(SubSeq(t, 1, k - 1)), Meaning(SubSeq(t, k + 1, n))>>
      Both(k, Op(_, _)) == LET c == Cut(k) IN
        IF c[1].ok /\ c[2].ok THEN Val(Op(c[1].val, c[2].val)) ELSE Fail
  IN CASE n = 0 -> Fail
       [] sums # {} ->
            LET k == LastOf(sums) IN
            IF t[k].kind = "+" THEN Both(k, Plus)
            ELSE Both(k, LAMBDA x, y : Plus(x, Neg(y)))
       [] sums = {} /\ products # {} ->
            LET k == LastOf(products)
                q == Meaning(SubSeq(t, k + 1, n)) IN
            IF t[k].kind = "*" THEN Both(k, Times)
            ELSE IF q.ok /\ IsZero(q.val) THEN Fail ELSE Both(k, Over)
       [] sums \cup products = {} /\ t[1].kind = "-" ->
            LET m == Meaning(Tail(t)) IN IF m.ok THEN Val(Neg(m.val)) ELSE Fail
       [] sums \cup products = {} /\ t[1].kind # "-" /\ powers # {} ->
            Both(FirstOf(powers), Raised)
       [] OTHER ->
            IF n = 1 THEN (IF t[1].kind \in {"num", "const"} THEN Val(t[1].val) ELSE Fail)
            ELSE LET call == t[1].kind = "func"
                     open == IF call THEN 2 ELSE 1
                     arg == Meaning(SubSeq(t, open + 1, n - 1))
                 IN IF t[open].kind # "(" \/ t[n].kind # ")" \/ ~arg.ok THEN Fail
                    ELSE IF call THEN call_function(t[1].name, arg.val, 0) ELSE arg

Reference(t) == LET s == Split(t) IN IF s.ok THEN Meaning(s.toks) ELSE Fail

-----------------------------------------------------------------------------
(* What must hold.                                                         *)

TypeOK == /\ alphabet \in Alphabets
          /\ written \in Seq(alphabet) /\ Len(written) <= MaxText

\* A text is an expression for the tool exactly when it is one by its grammar, and it
\* then has the value the grammar gives: precedence, associativity, the unary minus and
\* the exponent of a number are those documented at evaluate_expression and in its tests.
ValueIsMeant ==
  LET is == execute(written)
      should == Reference(written)
  IN /\ is.ok = should.ok
     /\ is.ok => is.val = should.val
=============================================================================
