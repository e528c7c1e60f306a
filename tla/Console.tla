------------------------------ MODULE Console ------------------------------
(***************************************************************************)
(* The serial console, modules/hnsorens/io/serial_debug/serial.c: printf   *)
(* over a PL011 UART whose transmit FIFO the processor polls and the line  *)
(* empties.                                                                *)
(*                                                                         *)
(* A string is a sequence of one-character strings.  Integers are raw words*)
(* of Bits["long"] bits; the narrower C types keep the low bits.  A step   *)
(* of the processor is one turn of vprintf's loop, or one character put    *)
(* into the FIFO.                                                          *)
(***************************************************************************)
EXTENDS Integers, SequencesExt, Printf

CONSTANTS
  Fifo,       \* the characters the UART's FIFO holds
  Scripts     \* the sequences of calls, each [items, format, args]

VARIABLES
  script,  \* the calls that are made, one after the other
  turn,    \* the last call that was begun
  at,      \* where it stands in its format; 0 when no call runs
  arg,     \* the arguments it has taken
  count,   \* the characters it says it has printed
  out,     \* what the step in hand has still to put into the FIFO
  fifo,    \* the UART's FIFO
  wire     \* what has left the UART

vars == <<script, turn, at, arg, count, out, fifo, wire>>

-----------------------------------------------------------------------------
(* Numbers                                                                 *)

(* Remainders are written from the first place of the buffer on, and the   *)
(* buffer is then reversed.                                                *)
utoa(num, base, symbol) ==
  LET digits[n \in 0 .. num] == IF n = 0 THEN <<>> ELSE <<symbol[(n % base) + 1]>> \o digits[n \div base]
  IN  IF num = 0 THEN <<"0">> ELSE Reverse(digits[num])

(* A minus sign is put before the digits of a negative decimal number.     *)
itoa(num, base, symbol) ==
  IF num < 0 /\ base = 10 THEN <<"-">> \o utoa(-num, base, symbol)
  ELSE utoa(Narrow(num, "long"), base, symbol)

Padding(n, char) == [i \in 1 .. n |-> char]
Least(n) == IF n > 0 THEN n ELSE 0

-----------------------------------------------------------------------------
(* Parsing a directive of f, the percent sign of which is at i - 1         *)

Digits == {Lower[i] : i \in 1 .. 10}
Char(f, i) == IF i <= Len(f) THEN f[i] ELSE None

(* The first place from i on that holds no character of S.                 *)
Beyond(f, i, S) ==
  CHOOSE j \in i .. Len(f) + 1 : Char(f, j) \notin S /\ \A k \in i .. j - 1 : f[k] \in S

Decimal(s) == FoldLeft(LAMBDA n, c : n * 10 + (CHOOSE d \in 0 .. 9 : Lower[d + 1] = c), 0, s)

LengthModifier(f, i) ==
  LET c == Char(f, i)
      doubled == c \in {"h", "l"} /\ Char(f, i + 1) = c
  IN  CASE doubled -> IF c = "h" THEN [name |-> "H", len |-> 2] ELSE [name |-> "q", len |-> 2]
        [] ~doubled /\ c \in {"h", "l", "L", "z", "t", "j"} -> [name |-> c, len |-> 1]
        [] OTHER -> [name |-> None, len |-> 0]

(* Faulty variant: a zero is taken for a part of the width, not for a flag.*)
FlagsNoZero == {"-", "+", " ", "#"}
Flags == {"-", "+", " ", "#", "0"}

parse_format_specifier(f, i) ==
  LET width == Beyond(f, i, Flags)
      dot == Beyond(f, width, Digits)
      point == Char(f, dot) = "."
      mod == IF point THEN Beyond(f, dot + 1, Digits) ELSE dot
      modifier == LengthModifier(f, mod)
  IN  [flags |-> ToSet(SubSeq(f, i, width - 1)), width |-> Decimal(SubSeq(f, width, dot - 1)),
       precision |-> IF point THEN Decimal(SubSeq(f, dot + 1, mod - 1)) ELSE -1,
       modifier |-> modifier.name, specifier |-> Char(f, mod + modifier.len),
       end |-> mod + modifier.len + 1]

-----------------------------------------------------------------------------
(* What a directive prints: [text, count]; count is what it is said to be  *)

(* Text in a field of d.width characters, blanks on the side d asks for.   *)
Field(d, text) ==
  LET pad == Padding(Least(d.width - Len(text)), " ")
  IN  IF "-" \in d.flags THEN text \o pad ELSE pad \o text
Counted(text) == [text |-> text, count |-> Len(text)]

print_formatted_string(str, d) ==
  LET s == IF str = None THEN <<"(", "n", "u", "l", "l", ")">> ELSE str
      len == IF d.precision # -1 /\ d.precision < Len(s) THEN d.precision ELSE Len(s)
  IN  Counted(Field(d, SubSeq(s, 1, len)))

print_formatted_char(c, d) == Counted(Field(d, <<c>>))

Base(d) == CASE d.specifier \in {"x", "X"} -> 16 [] d.specifier = "o" -> 8 [] d.specifier = "b" -> 2 [] OTHER -> 10
Sign(num, d) ==
  CASE d.specifier \notin {"d", "i"} -> <<>>
    [] num < 0 -> <<"-">>
    [] "+" \in d.flags -> <<"+">>
    [] " " \in d.flags -> <<" ">>
    [] OTHER -> <<>>
Prefix(num, d) ==
  IF "#" \notin d.flags THEN <<>>
  ELSE CASE d.specifier \in {"x", "X", "b"} -> <<"0", d.specifier>>
         [] d.specifier = "o" /\ (num # 0 \/ d.precision = 0) -> <<"0">>
         [] OTHER -> <<>>

(* A sign counts twice: as itself and as the one character of a prefix that*)
(* is empty.                                                               *)
print_formatted_integer(value, d) ==
  LET num == IF Sign(value, d) = <<"-">> THEN -value ELSE value
      symbol == IF d.specifier = "X" THEN Upper ELSE Lower
      sign == Sign(value, d)
      prefix == Prefix(num, d)
      digits == IF d.precision = 0 /\ num = 0 THEN <<>>
                ELSE IF d.specifier = "u" THEN utoa(Narrow(num, "long"), 10, symbol)
                ELSE itoa(num, Base(d), symbol)
      number == Padding(Least(d.precision - Len(digits)), "0") \o digits
      total == Len(prefix) + 2 * Len(sign) + Len(number)
      padding == Least(d.width - total)
      zero == "0" \in d.flags /\ "-" \notin d.flags /\ d.precision = -1
      text == IF "-" \in d.flags THEN sign \o prefix \o number \o Padding(padding, " ")
              ELSE IF zero THEN sign \o prefix \o Padding(padding, "0") \o number
              ELSE Padding(padding, " ") \o sign \o prefix \o number
  IN  [text |-> text, count |-> padding + total]

print_pointer(ptr, d) ==
  LET digits == utoa(ptr, 16, Lower)
      padding == Least(d.width - Len(digits) - 2)
  IN  Counted(CASE "-" \in d.flags -> <<"0", "x">> \o digits \o Padding(padding, " ")
                [] "-" \notin d.flags /\ "0" \in d.flags -> <<"0", "x">> \o Padding(padding, "0") \o digits
                [] OTHER -> Padding(padding, " ") \o <<"0", "x">> \o digits)

-----------------------------------------------------------------------------
(* vprintf                                                                 *)

(* The C type an integer argument is taken as; char is unsigned here.      *)
Type(d) ==
  CASE d.modifier = "h" -> "short"
    [] d.modifier = "H" -> "char"
    [] d.modifier \in {"l", "q", "z"} -> "long"
    [] OTHER -> "int"

Taking == {"c", "s", "d", "i", "u", "x", "X", "o", "b", "p"}
Converted(d, value) ==
  CASE d.specifier = "c" -> print_formatted_char(value, d)
    [] d.specifier = "s" -> print_formatted_string(value, d)
    [] d.specifier \in {"d", "i"} ->
         print_formatted_integer(IF Type(d) = "char" THEN Narrow(value, "char") ELSE Signed(value, Type(d)), d)
    [] d.specifier \in {"u", "x", "X", "o", "b"} ->
         print_formatted_integer(Signed(Narrow(value, Type(d)), "long"), d)
    [] d.specifier = "p" -> print_pointer(value, d)
    [] OTHER -> Counted(<<"%", d.specifier>>)

Init ==
  /\ script \in Scripts
  /\ turn = 0 /\ at = 0 /\ arg = 0 /\ count = 0
  /\ out = <<>> /\ fifo = <<>> /\ wire = <<>>

serial_debug_serial_printf ==
  /\ at = 0 /\ turn < Len(script)
  /\ turn' = turn + 1
  /\ at' = 1 /\ arg' = 0 /\ count' = 0
  /\ UNCHANGED <<script, out, fifo, wire>>

(* vprintf is at a place of its format and has nothing left to transmit.   *)
call == script[turn]
AtPlace == at # 0 /\ out = <<>> /\ at <= Len(call.format)
Here == Char(call.format, at)

Emit(printed, next, taken) ==
  /\ out' = printed.text
  /\ count' = count + printed.count
  /\ at' = next /\ arg' = arg + taken
  /\ UNCHANGED <<script, turn, fifo, wire>>

Literal == AtPlace /\ Here # "%" /\ Emit(Counted(<<Here>>), at + 1, 0)
Percent == AtPlace /\ Here = "%" /\ Char(call.format, at + 1) = "%" /\ Emit(Counted(<<"%">>), at + 2, 0)

Convert ==
  /\ AtPlace /\ Here = "%" /\ Char(call.format, at + 1) # "%"
  /\ \E d \in {parse_format_specifier(call.format, at + 1)} :
       IF d.specifier \in Taking THEN Emit(Converted(d, call.args[arg + 1]), d.end, 1)
       ELSE Emit(Converted(d, None), d.end, 0)

(* Faulty variant: the test of the flag is the wrong way round.            *)
WaitUntilFull ==
  /\ out # <<>> /\ Len(fifo) = Fifo
  /\ fifo' = Append(fifo, Head(out))
  /\ out' = Tail(out)
  /\ UNCHANGED <<script, turn, at, arg, count, wire>>

(* The processor waits while the FIFO is full.                             *)
uart_putc ==
  /\ out # <<>> /\ Len(fifo) < Fifo
  /\ fifo' = Append(fifo, Head(out))
  /\ out' = Tail(out)
  /\ UNCHANGED <<script, turn, at, arg, count, wire>>

Return ==
  /\ at # 0 /\ out = <<>> /\ at > Len(call.format)
  /\ at' = 0
  /\ UNCHANGED <<script, turn, arg, count, out, fifo, wire>>

(* The UART sends the oldest character of its FIFO.                        *)
Send ==
  /\ fifo # <<>>
  /\ wire' = Append(wire, Head(fifo)) /\ fifo' = Tail(fifo)
  /\ UNCHANGED <<script, turn, at, arg, count, out>>

Processor == serial_debug_serial_printf \/ Literal \/ Percent \/ Convert \/ uart_putc \/ Return
Next == Processor \/ Send
Spec == Init /\ [][Next]_vars /\ WF_vars(Processor) /\ WF_vars(Send)

-----------------------------------------------------------------------------
(* What serial.c:198 and the count do not keep: a field with a sign that is*)
(* widened stays a character short, and every sign is counted twice.       *)
Short(c) == \E k \in DOMAIN c.items : SignWidened(c.items[k])
Miscounted(c) == \E k \in DOMAIN c.items : SignOf(c.items[k]) # <<>>

(* But for those, everything printed so far, whether it has left the UART  *)
(* or not, is the start of what the calls begun so far ask for, in fields  *)
(* of at least their width, and all of it when no call runs; and a call    *)
(* that is about to return has counted its characters.                     *)
PrintedAsAsked ==
  LET asked == FlattenSeq([k \in 1 .. turn |-> Asked(script[k].items)])
      printed == wire \o fifo \o out
  IN  /\ \/ /\ IsPrefix(printed, asked)
            /\ at = 0 => printed = asked
         \/ \E k \in 1 .. turn : Short(script[k])
      /\ at # 0 /\ out = <<>> /\ at > Len(call.format) =>
           count = Len(Asked(call.items)) \/ Miscounted(call)

(* Every call has returned, and everything printed has left the UART.      *)
Idle == turn = Len(script) /\ at = 0 /\ fifo = <<>>
=============================================================================
