------------------------------- MODULE Printf -------------------------------
(***************************************************************************)
(* _vsnprintf of printf.c (the same file in both payloads), as printf.h    *)
(* configures it: no floating point, no long long.  A string is a sequence *)
(* of characters; the format is read by a fold whose state is where in a   *)
(* conversion specification the reading stands.  Arguments are integers or *)
(* strings, in a sequence of which va_arg takes the next.  % and / are     *)
(* those of C, whatever the run-time library makes of them.                *)
(***************************************************************************)
EXTENDS Integers, Sequences, SequencesExt

CONSTANT BufferSize  \* PRINTF_NTOA_BUFFER_SIZE (32)

Digits == <<"0", "1", "2", "3", "4", "5", "6", "7", "8", "9">>
Lower == Digits \o <<"a", "b", "c", "d", "e", "f">>
Upper == Digits \o <<"A", "B", "C", "D", "E", "F">>

IsDigit(ch) == \E i \in 1..10 : Digits[i] = ch
ValueOf(ch) == (CHOOSE i \in 1..10 : Digits[i] = ch) - 1

Repeat(ch, n) == [i \in 1..(IF n > 0 THEN n ELSE 0) |-> ch]
Lesser(a, b) == IF a < b THEN a ELSE b

-----------------------------------------------------------------------------
(* Integers.  The digits are in buf in reverse, least significant first.   *)

\* while ((len < n) && (len < PRINTF_NTOA_BUFFER_SIZE)) buf[len++] = '0';
PadZeros(buf, n) == buf \o Repeat("0", Lesser(n, BufferSize) - Len(buf))

Append1(buf, ch) == IF Len(buf) < BufferSize THEN Append(buf, ch) ELSE buf

Drop(buf, n) == SubSeq(buf, 1, Len(buf) - n)

Zeroed(buf, f, prec, width) ==
  IF "-" \in f THEN buf
  ELSE LET b == PadZeros(buf, prec) IN IF "0" \in f THEN PadZeros(b, width) ELSE b

\* Room for the prefix is made where the buffer is as long as the field.
Hashed(buf, f, base, prec, width, upper) ==
  IF "#" \notin f THEN buf
  ELSE LET full == ~("." \in f) /\ Len(buf) > 0 /\ Len(buf) \in {prec, width}
           n == IF ~full THEN 0 ELSE IF Len(buf) > 1 /\ base = 16 THEN 2 ELSE 1
           mark == CASE base = 16 -> <<IF upper THEN "X" ELSE "x">> [] base = 2 -> <<"b">>
                     [] OTHER -> <<>>
       IN FoldLeft(Append1, Drop(buf, n), mark \o <<"0">>)

\* Mutant: no room is made for the sign in a full field.
Signed_NoRoom(buf, f, negative, width) ==
  LET sign == IF negative THEN <<"-">> ELSE IF "+" \in f THEN <<"+">>
              ELSE IF " " \in f THEN <<" ">> ELSE <<>>
  IN FoldLeft(Append1, buf, sign)

Signed(buf, f, negative, width) ==
  LET sign == IF negative THEN <<"-">> ELSE IF "+" \in f THEN <<"+">>
              ELSE IF " " \in f THEN <<" ">> ELSE <<>>
      full == Len(buf) > 0 /\ Len(buf) = width /\ sign # <<>>
  IN FoldLeft(Append1, IF full THEN Drop(buf, 1) ELSE buf, sign)

\* _ntoa_format: what is put out.
NtoaFormat(digits, negative, base, upper, prec, width, f) ==
  LET buf == Signed(Hashed(Zeroed(digits, f, prec, width), f, base, prec, width, upper),
                    f, negative, width)
      spaces == Repeat(" ", width - Len(buf))
  IN (IF "-" \notin f /\ "0" \notin f THEN spaces ELSE <<>>)
       \o Reverse(buf) \o (IF "-" \in f THEN spaces ELSE <<>>)

\* _ntoa_long: there are no digits for the value 0 with a precision, and the
\* buffer ends the loop.
NtoaLong(value, negative, base, upper, prec, width, f) ==
  LET digit(v) == (IF upper THEN Upper ELSE Lower)[(v % base) + 1]
      from[v \in Nat] == <<digit(v)>> \o (IF v < base THEN <<>> ELSE from[v \div base])
      digits == IF "." \in f /\ value = 0 THEN <<>> ELSE from[value]
  IN NtoaFormat(SubSeq(digits, 1, Lesser(Len(digits), BufferSize)), negative, base, upper,
                prec, width, IF value = 0 THEN f \ {"#"} ELSE f)

-----------------------------------------------------------------------------
(* The format                                                              *)

\* Where the reading stands, in the order of the parts of a specification.
\* "short" and "long" have seen one h or l.
Stages == <<"text", "flags", "width", "width*", "precision", "precision digits", "precision*",
            "short", "long", "length">>
Before(s, last) == \E n \in 2..10 : Stages[n] = last /\ \E i \in 2..n : Stages[i] = s.stage

Start == [stage |-> "text", flags |-> {}, width |-> 0, prec |-> 0, out |-> <<>>, used |-> 0]

\* The integer the conversion takes from the argument, for int, short and char,
\* which has no sign on ARM.
Narrowed(v, f, signed) ==
  LET m == IF "hh" \in f THEN 256 ELSE IF "h" \in f THEN 65536 ELSE 0
  IN IF m = 0 THEN v
     ELSE IF signed /\ m = 65536 /\ v % m >= m \div 2 THEN (v % m) - m ELSE v % m

\* %d and %i print a sign; a long long prints nothing and takes no argument.
Integer(s, args, base, upper, signed) ==
  LET flags == (IF base = 10 THEN s.flags \ {"#"} ELSE s.flags)
                 \ ((IF signed THEN {} ELSE {"+", " "}) \cup (IF "." \in s.flags THEN {"0"} ELSE {}))
      v == Narrowed(args[s.used + 1], flags, signed)
  IN IF "ll" \in flags THEN s
     ELSE [s EXCEPT !.used = @ + 1,
                    !.out = @ \o NtoaLong(IF v < 0 THEN -v ELSE v, v < 0, base, upper,
                                          s.prec, s.width, flags)]

Padded(s, text) ==
  LET spaces == Repeat(" ", s.width - Len(text))
  IN [s EXCEPT !.out = @ \o (IF "-" \in s.flags THEN text \o spaces ELSE spaces \o text)]

\* The conversion.  Characters that name none are put out.
Convert(s, args, ch) ==
  CASE ch \in {"d", "i"} -> Integer(s, args, 10, FALSE, TRUE)
    [] ch = "u" -> Integer(s, args, 10, FALSE, FALSE)
    [] ch \in {"x", "X"} -> Integer(s, args, 16, ch = "X", FALSE)
    [] ch = "o" -> Integer(s, args, 8, FALSE, FALSE)
    [] ch = "b" -> Integer(s, args, 2, FALSE, FALSE)
    [] ch = "p" ->
         [s EXCEPT !.used = @ + 1,
                   !.out = @ \o NtoaLong(args[s.used + 1], FALSE, 16, TRUE, s.prec, 8,
                                         s.flags \cup {"0"})]
    [] ch = "c" -> [Padded(s, <<args[s.used + 1]>>) EXCEPT !.used = @ + 1]
    [] ch = "s" ->
         LET text == args[s.used + 1]
             n == IF "." \in s.flags THEN Lesser(Len(text), s.prec) ELSE Len(text)
         IN [Padded(s, SubSeq(text, 1, n)) EXCEPT !.used = @ + 1]
    [] OTHER -> [s EXCEPT !.out = Append(@, ch)]

Star(s, args) ==
  LET w == args[s.used + 1]
  IN IF s.stage = "flags"
     THEN [s EXCEPT !.used = @ + 1, !.stage = "width*",
                    !.flags = IF w < 0 THEN @ \cup {"-"} ELSE @,
                    !.width = IF w < 0 THEN -w ELSE w]
     ELSE [s EXCEPT !.used = @ + 1, !.stage = "precision*", !.prec = IF w > 0 THEN w ELSE 0]

\* One character of the format.
Read(s, args, ch) ==
  CASE s.stage = "text" ->
         IF ch # "%" THEN [s EXCEPT !.out = Append(@, ch)]
         ELSE [s EXCEPT !.stage = "flags", !.flags = {}, !.width = 0, !.prec = 0]
    [] s.stage = "flags" /\ ch \in {"0", "-", "+", " ", "#"} -> [s EXCEPT !.flags = @ \cup {ch}]
    [] s.stage \in {"flags", "width"} /\ IsDigit(ch) /\ ~(s.stage = "flags" /\ ch = "0") ->
         [s EXCEPT !.stage = "width", !.width = 10 * @ + ValueOf(ch)]
    [] s.stage \in {"precision", "precision digits"} /\ IsDigit(ch) ->
         [s EXCEPT !.stage = "precision digits", !.prec = 10 * @ + ValueOf(ch)]
    [] s.stage \in {"flags", "precision"} /\ ch = "*" -> Star(s, args)
    [] Before(s, "width*") /\ ch = "." ->
         [s EXCEPT !.stage = "precision", !.flags = @ \cup {"."}]
    [] Before(s, "precision*") /\ ch \in {"l", "h", "j", "z"} ->
         [s EXCEPT !.stage = CASE ch = "l" -> "long" [] ch = "h" -> "short" [] OTHER -> "length",
                   !.flags = @ \cup {CASE ch = "j" -> "ll" [] ch = "z" -> "l" [] OTHER -> ch}]
    [] s.stage = "long" /\ ch = "l" -> [s EXCEPT !.stage = "length", !.flags = @ \cup {"ll"}]
    [] s.stage = "short" /\ ch = "h" -> [s EXCEPT !.stage = "length", !.flags = @ \cup {"hh"}]
    [] OTHER -> [Convert(s, args, ch) EXCEPT !.stage = "text"]

\* The characters the format puts out; a specification cut off puts out nothing.
vsnprintf(format, args) == FoldLeft(LAMBDA s, ch : Read(s, args, ch), Start, format).out

-----------------------------------------------------------------------------
(* What the C standard says of a conversion of an integer                  *)

\* The digits of v, at least n of them.
Numeral(v, base, upper, n) ==
  LET digits[u \in Nat] ==
        IF u = 0 THEN <<>>
        ELSE Append(digits[u \div base], (IF upper THEN Upper ELSE Lower)[(u % base) + 1])
  IN Repeat("0", n - Len(digits[v])) \o digits[v]

\* The digits, the sign or prefix and the whole; prec is -1 where there is none.
Plain(prec, ch, v) ==
  Numeral(IF v < 0 THEN -v ELSE v,
          CASE ch \in {"d", "i", "u"} -> 10 [] ch = "o" -> 8 [] OTHER -> 16, ch = "X",
          IF prec = -1 THEN 1 ELSE prec)

Prefix(f, ch, v) ==
  CASE v < 0 -> <<"-">>
    [] v >= 0 /\ ch \in {"d", "i"} /\ "+" \in f -> <<"+">>
    [] v >= 0 /\ ch \in {"d", "i"} /\ " " \in f /\ "+" \notin f -> <<" ">>
    [] "#" \in f /\ ch \in {"x", "X"} /\ v # 0 -> <<"0", ch>>
    [] OTHER -> <<>>

Standard(f, width, prec, ch, v) ==
  LET plain == Plain(prec, ch, v)
      prefix == Prefix(f, ch, v)
      room == width - Len(prefix) - Len(plain)
  IN CASE "-" \in f -> prefix \o plain \o Repeat(" ", room)
       [] "0" \in f /\ "-" \notin f /\ prec = -1 -> prefix \o Repeat("0", room) \o plain
       [] OTHER -> Repeat(" ", room) \o prefix \o plain

\* Where _ntoa_format is exact.  It takes a field that the digits fill for one
\* padded with zeros, and drops a digit for the sign or prefix ("%1d" of -1 is
\* "-"), as it does where one zero of padding has to make room for "0x"; "-" makes
\* it ignore the precision; it puts "0" before every octal number with "#"; and no
\* number is longer than its buffer.
Exact(f, width, prec, ch, v) ==
  /\ Prefix(f, ch, v) # <<>> => Len(Plain(prec, ch, v)) # width
  /\ {"#", "0"} \subseteq f => Len(Plain(prec, ch, v)) # width - 1
  /\ "-" \in f => prec <= 0
  /\ ch = "o" => "#" \notin f
  /\ "0" \in f => width <= BufferSize
=============================================================================
