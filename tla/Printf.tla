------------------------------- MODULE Printf -------------------------------
(***************************************************************************)
(* What a call of printf asks for.  An item of a format is a literal       *)
(* [text], or a directive [flags, width, precision, modifier, specifier]   *)
(* with the value it takes; a width or a precision of None is left out.    *)
(* Values of integer directives are raw words of Bits["long"] bits.        *)
(***************************************************************************)
EXTENDS Integers, SequencesExt

CONSTANTS
  None,  \* no character, no width, no precision, or a NULL pointer
  Bits   \* the width of each C type: char, short, int, long

Lower == <<"0","1","2","3","4","5","6","7","8","9","a","b","c","d","e","f">>
Upper == <<"0","1","2","3","4","5","6","7","8","9","A","B","C","D","E","F">>

Narrow(x, type) == x % (2 ^ Bits[type])
Signed(x, type) == LET n == Narrow(x, type) IN IF n < 2 ^ (Bits[type] - 1) THEN n ELSE n - 2 ^ Bits[type]

Numerals(n, base, symbol) ==
  LET len == CHOOSE k \in 1 .. n + 1 : n < base ^ k /\ (k > 1 => base ^ (k - 1) <= n)
  IN  [i \in 1 .. len |-> symbol[((n \div base ^ (len - i)) % base) + 1]]

-----------------------------------------------------------------------------
(* How a format is written                                                 *)

Number(n) == IF n = None THEN <<>> ELSE Numerals(n, 10, Lower)
Spell(item) ==
  IF "text" \in DOMAIN item
  THEN FlattenSeq([i \in DOMAIN item.text |-> IF item.text[i] = "%" THEN <<"%", "%">> ELSE <<item.text[i]>>])
  ELSE <<"%">> \o item.flags \o Number(item.width) \o (IF item.precision = None THEN <<>> ELSE <<".">> \o Number(item.precision))
       \o item.modifier \o <<item.specifier>>

Call(items) ==
  LET taking == SelectSeq(items, LAMBDA d : "text" \notin DOMAIN d /\ d.specifier # "y")
  IN  [items |-> items, format |-> FlattenSeq([i \in DOMAIN items |-> Spell(items[i])]),
       args |-> [i \in DOMAIN taking |-> taking[i].value]]

-----------------------------------------------------------------------------
(* What it prints                                                          *)

Has(d, flag) == flag \in ToSet(d.flags)
Or(n, otherwise) == IF n = None THEN otherwise ELSE n
TypeOf(d) ==
  CASE d.modifier = <<>> -> "int"
    [] d.modifier = <<"h">> -> "short"
    [] d.modifier = <<"h", "h">> -> "char"
    [] OTHER -> "long"

IsSigned(d) == "text" \notin DOMAIN d /\ d.specifier \in {"d", "i"}
(* A plain char has no sign on this machine.                               *)
ValueOf(d) ==
  IF IsSigned(d) /\ TypeOf(d) # "char" THEN Signed(d.value, TypeOf(d)) ELSE Narrow(d.value, TypeOf(d))
SignOf(d) ==
  CASE ~IsSigned(d) -> <<>>
    [] IsSigned(d) /\ ValueOf(d) < 0 -> <<"-">>
    [] OTHER -> IF Has(d, "+") THEN <<"+">> ELSE IF Has(d, " ") THEN <<" ">> ELSE <<>>
Abs(n) == IF n < 0 THEN -n ELSE n

Radix == [d |-> 10, i |-> 10, u |-> 10, x |-> 16, X |-> 16, o |-> 8, b |-> 2]
PrefixOf(d) ==
  CASE Has(d, "#") /\ d.specifier \in {"x", "X", "b"} -> <<"0", d.specifier>>
    [] Has(d, "#") /\ d.specifier = "o" /\ (ValueOf(d) # 0 \/ d.precision = 0) -> <<"0">>
    [] OTHER -> <<>>

(* The least number of characters a field takes.                           *)
Width(d) == Or(d.width, 0)

Widen(text, n, symbol, left) ==
  LET fill == [i \in 1 .. (IF n > Len(text) THEN n - Len(text) ELSE 0) |-> symbol]
  IN  IF left THEN text \o fill ELSE fill \o text

(* A zero flag, without a minus flag and a precision, fills the width with *)
(* zeros behind the sign and the prefix.                                   *)
AskedNumber(d, lead, digits, symbol) ==
  Widen(lead \o Widen(digits, symbol, "0", FALSE), Width(d), " ", Has(d, "-"))
AskedInteger(d) ==
  LET lead == SignOf(d) \o PrefixOf(d)
      digits == IF ValueOf(d) = 0 /\ d.precision = 0 THEN <<>>
                ELSE Numerals(Abs(ValueOf(d)), Radix[d.specifier], IF d.specifier = "X" THEN Upper ELSE Lower)
      zeros == Has(d, "0") /\ ~Has(d, "-") /\ d.precision = None
  IN  AskedNumber(d, lead, digits, IF zeros THEN Width(d) - Len(lead) ELSE Or(d.precision, 0))
AskedPointer(d) ==
  LET zeros == Has(d, "0") /\ ~Has(d, "-")
  IN  AskedNumber(d, <<"0", "x">>, Numerals(d.value, 16, Lower), IF zeros THEN Width(d) - 2 ELSE 0)

AskedString(d) ==
  LET s == IF d.value = None THEN <<"(", "n", "u", "l", "l", ")">> ELSE d.value
      n == Or(d.precision, Len(s))
  IN  Widen(SubSeq(s, 1, IF n < Len(s) THEN n ELSE Len(s)), Width(d), " ", Has(d, "-"))

AskedItem(item) ==
  CASE "text" \in DOMAIN item -> item.text
    [] "text" \notin DOMAIN item -> 
         CASE item.specifier = "s" -> AskedString(item)
           [] item.specifier = "c" -> Widen(<<item.value>>, Width(item), " ", Has(item, "-"))
           [] item.specifier = "p" -> AskedPointer(item)
           [] item.specifier = "y" -> <<"%", "y">>
           [] OTHER -> AskedInteger(item)

(* Fields whose sign is a character of a number widened to the width.      *)
SignWidened(item) ==
  /\ IsSigned(item) /\ SignOf(item) # <<>>
  /\ Len(AskedInteger([item EXCEPT !.width = None])) < Width(item)

Asked(items) == FlattenSeq([i \in DOMAIN items |-> AskedItem(items[i])])
=============================================================================
