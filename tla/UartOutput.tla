----------------------------- MODULE UartOutput -----------------------------
(***************************************************************************)
(* What tools.c puts on the UART: characters, strings, numbers and dumps.  *)
(* A value of 32 bits is its eight hexadecimal digits, highest first.      *)
(***************************************************************************)
EXTENDS Printf

\* low_uart_put for each character; a newline is preceded by a return.
_putchar(ch) == IF ch = "\n" THEN <<"\r", "\n">> ELSE <<ch>>

\* print and printf_: every character through _putchar.
print(text) == FlattenSeq([k \in DOMAIN text |-> _putchar(text[k])])

\* The bytes from the highest, of each the high digit first.
pdword(value) ==
  LET byte(i) == (value \div 2^(8 * i)) % 256
      nibbles == FlattenSeq([k \in 1..4 |-> <<byte(4 - k) \div 16, byte(4 - k) % 16>>])
  IN <<"0", "x">> \o [k \in 1..8 |-> Upper[nibbles[k] + 1]]

\* In stage2.c, for want of %X: the same digits.  Its buffer is static: of two results
\* in one printf, both are the later one.
u32_to_str(v) == [k \in 1..8 |-> Upper[((v \div 16^(8 - k)) % 16) + 1]]

\* A row of the boot block test: as %02X and a space.
print_hex_byte(b) == vsnprintf(<<Upper[(b \div 16) + 1], Upper[(b % 16) + 1], " ">>, <<>>)

\* What follows the last byte when the row is not full.
Padding(n) ==
  (IF n % 16 <= 8 THEN <<" ">> ELSE <<>>) \o Repeat(" ", 3 * (16 - (n % 16))) \o <<"\n">>

\* Before the carriage returns.
hex_dump(data) ==
  LET size == Len(data)
      after(n) ==
        IF n % 8 # 0 /\ n # size THEN <<>>
        ELSE <<" ">> \o (IF n % 16 = 0 THEN <<"\n">> ELSE IF n = size THEN Padding(n) ELSE <<>>)
  IN FlattenSeq([n \in 1..size |->
                   vsnprintf(<<"%", "0", "2", "X", " ">>, <<data[n]>>) \o after(n)])

\* The rows of a dump, each ended by a newline, are equally long.
RowsAlign(dump) ==
  LET ends == {k \in DOMAIN dump : dump[k] = "\n"}
  IN \A k \in ends : k % 51 = 0 /\ Len(dump) % 51 = 0
=============================================================================
