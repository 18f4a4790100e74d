-------------------------------- MODULE Klog --------------------------------
(***************************************************************************)
(* The kernel log: printk (src/log/printk.c) scans a format one character  *)
(* at a time and puts characters, putc (src/arch/x86_64/log/put.c) sets up *)
(* the serial port once and then polls it before every byte.  The port is  *)
(* a device of its own that sends while the kernel goes on.  Once the      *)
(* gates are loaded an interrupt without a handler may come between any    *)
(* two steps; its assertion prints a last message and never returns.       *)
(*                                                                         *)
(* A call is a sequence of pieces, from which the format is made: text,    *)
(* or a directive with its modifiers and its argument.                     *)
(***************************************************************************)
EXTENDS Integers, Sequences, SequencesExt

CONSTANTS
  BYTE,          \* bits of a byte, 8
  DEPTH,         \* bytes that the port's transmit queue holds, 16
  Programs,      \* sequences of calls that the kernel may make
  Fatal,         \* the call of _assert_fail
  GatesAfter     \* calls made before isr_init

Power(b, n) ==
  LET product[k \in Nat] == IF k = 0 THEN 1 ELSE b * product[k - 1]
  IN  product[n]
INT == Power(2, 4 * BYTE)
LONG == Power(2, 8 * BYTE)
PTR_DIGITS == 2 * BYTE   \* sizeof(ptr_t) << 1, four bits each

Num(n) == [num |-> n]
Str(s) == [str |-> s]
Text(c) == [kind |-> "text", chars |-> <<c>>]
Directive(mods, conv, arg) ==
  [kind |-> "dir", chars |-> <<"%">> \o mods \o <<conv>>, conv |-> conv,
   mods |-> mods, arg |-> arg]
Format(call) == FlattenSeq([k \in DOMAIN call |-> call[k].chars])
Argument(p) == IF p.kind = "dir" /\ p.conv # "%" THEN <<p.arg>> ELSE <<>>
Arguments(call) == FlattenSeq([k \in DOMAIN call |-> Argument(call[k])])

Digit == <<"0", "1", "2", "3", "4", "5", "6", "7", "8", "9">>
IsDigit(c) == \E d \in 1..10 : Digit[d] = c
Number(c) == (CHOOSE d \in 1..10 : Digit[d] = c) - 1
HexDigit(cap) == Digit \o (IF cap THEN <<"A", "B", "C", "D", "E", "F">>
                                  ELSE <<"a", "b", "c", "d", "e", "f">>)

(* Bytes have bits and the port holds one of them.  The first message is   *)
(* out before isr_init, so that no interrupt meets a port that is half set *)
(* up.                                                                     *)
ASSUME PortAssumption == BYTE \in Nat \ {0} /\ DEPTH \in Nat \ {0} /\ GatesAfter \in Nat \ {0}

(* A format is made of text and of the directives that printk has, each    *)
(* with the modifiers that mean something to it and with an argument of    *)
(* its kind; a string is not shorter than the width it is printed with.    *)
NumberMods ==
  {<<>>, <<"l">>} \cup {<<"0", d>> : d \in ToSet(Digit)} \cup {<<"l", "0", d>> : d \in ToSet(Digit)}
TakesNumber(conv, mods) ==
  \/ conv \in {"u", "d", "x", "X"} /\ mods \in NumberMods
  \/ conv \in {"p", "P"} /\ mods = <<>>
  \/ conv = "b" /\ mods = <<"h">>
TakesString(conv, mods, str) ==
  \/ conv \in {"s", "c"} /\ mods = <<>>
  \/ /\ conv = "s" /\ mods \in {<<d>> : d \in ToSet(Digit) \ {"0"}}
     /\ Number(mods[1]) <= Len(str)
IsPiece(p) ==
  \/ p.kind = "text" /\ p.chars[1] # "%" /\ p = Text(p.chars[1])
  \/ /\ p.kind = "dir" /\ p = Directive(p.mods, p.conv, p.arg)
     /\ \/ p.conv = "%" /\ p.mods = <<>>
        \/ /\ "num" \in DOMAIN p.arg /\ p.arg.num \in 0..(LONG - 1)
           /\ p.arg = Num(p.arg.num) /\ TakesNumber(p.conv, p.mods)
        \/ /\ "str" \in DOMAIN p.arg /\ p.arg.str \in Seq(ToSet(p.arg.str))
           /\ p.arg = Str(p.arg.str) /\ TakesString(p.conv, p.mods, p.arg.str)
ASSUME FormatAssumption ==
  \A p \in Programs \cup {<<Fatal>>} :
    /\ p \in Seq(ToSet(p))
    /\ \A call \in ToSet(p) :
         call \in Seq(ToSet(call)) /\ \A piece \in ToSet(call) : IsPiece(piece)

VARIABLES
  program,  \* the calls the kernel makes
  made,     \* how many of them it has made or is making
  ctx,      \* the call being made
  init,     \* how many port writes init_serial has made
  polled,   \* putc has seen the port idle and not yet written
  port,     \* the device
  said,     \* the bytes written to the port, in order
  due,      \* what the calls made so far are to print
  trapped
vars == <<program, made, ctx, init, polled, port, said, due, trapped>>

(* print_unsigned, print_decimal and print_hex: digits from the last one   *)
(* on into a buffer, zeros, and the buffer backwards.                      *)
Buffer(n, base, digits) ==
  LET cs[m \in Nat] == IF m = 0 THEN <<>>
                       ELSE <<digits[(m % base) + 1]>> \o cs[m \div base]
  IN  cs[n]
Padded_Forwards(zeros, buffer) ==
  [k \in 1..(IF zeros > Len(buffer) THEN zeros - Len(buffer) ELSE 0) |-> "0"] \o buffer
Padded(zeros, buffer) ==
  [k \in 1..(IF zeros > Len(buffer) THEN zeros - Len(buffer) ELSE 0) |-> "0"] \o Reverse(buffer)
print_unsigned(zeros, n) == Padded(zeros, Buffer(n, 10, Digit))
print_decimal(zeros, n) ==
  IF n < 0 THEN <<"-">> \o print_unsigned(zeros, -n) ELSE print_unsigned(zeros, n)
print_hex(zeros, n, cap) == Padded(zeros, Buffer(n, 16, HexDigit(cap)))
print_ptr(n, cap) ==
  IF n = 0 THEN <<"(", "n", "i", "l", ")">>
  ELSE <<"0", "x">> \o print_hex(PTR_DIGITS, n, cap)

(* print_binary: 1 << (sz - 1) is an int, negative for the bits of an int  *)
(* or more, so that the mask has all the bits above its own as well.       *)
print_binary(sz, n) ==
  LET top == IF sz < 4 THEN {BYTE * sz - 1} ELSE (4 * BYTE - 1)..(8 * BYTE - 1)
  IN  [k \in 1..(BYTE * sz) |->
         IF \E b \in top : b + 1 >= k /\ (n \div Power(2, b + 1 - k)) % 2 = 1 THEN "1" ELSE "0"]
print_string(length, str) == IF length = 0 THEN str ELSE SubSeq(str, 1, length)

(* next_int: an argument is taken as an int unless an l came before.       *)
next_int(f) == f.args[1].num % (IF f.number_size > 4 THEN LONG ELSE INT)
Signed(f) ==
  LET n == next_int(f)
      range == IF f.number_size > 4 THEN LONG ELSE INT
  IN  IF n >= range \div 2 THEN n - range ELSE n

Conversions == {"b", "d", "u", "x", "X", "p", "P", "s", "c"}
Converted(f, c) ==
  CASE c = "%" -> <<"%">>
    [] c = "b" -> print_binary(IF f.leading_zeros # 0 THEN f.leading_zeros ELSE f.number_size,
                               next_int(f))
    [] c = "d" -> print_decimal(f.leading_zeros, Signed(f))
    [] c = "u" -> print_unsigned(f.leading_zeros, next_int(f))
    [] c \in {"x", "X"} -> print_hex(f.leading_zeros, next_int(f), c = "X")
    [] c \in {"p", "P"} -> print_ptr(f.args[1].num, c = "P")
    [] c = "s" -> print_string(f.string_length, f.args[1].str)
    [] c = "c" -> f.args[1].str
    [] OTHER -> <<>>

Enter(call) ==
  [fmt |-> Format(call), args |-> Arguments(call), mode |-> "text", out |-> <<>>,
   number_size |-> 4, leading_zeros |-> 0, string_length |-> 0]

(* One character of the format.  The loop behind a 0 takes all the digits  *)
(* that follow, and gives the character that ends it back.                 *)
Scanned(f, c) ==
  IF f.mode = "text"
  THEN IF c # "%" THEN [f EXCEPT !.out = <<c>>]
       ELSE [f EXCEPT !.mode = "mod", !.number_size = 4,
                      !.leading_zeros = 0, !.string_length = 0]
  ELSE CASE f.mode = "zeros" /\ IsDigit(c) ->
              [f EXCEPT !.leading_zeros = 10 * @ + Number(c)]
         [] f.mode = "mod" /\ c = "0" -> [f EXCEPT !.mode = "zeros"]
         [] f.mode = "mod" /\ c # "0" /\ IsDigit(c) ->
              [f EXCEPT !.string_length = 10 * @ + Number(c)]
         [] c = "l" -> [f EXCEPT !.mode = "mod", !.number_size = IF @ < 8 THEN 2 * @ ELSE @]
         [] c = "h" -> [f EXCEPT !.mode = "mod", !.number_size = IF @ > 1 THEN @ \div 2 ELSE @]
         [] OTHER -> [f EXCEPT !.mode = "text", !.out = Converted(f, c),
                               !.args = IF c \in Conversions THEN Tail(@) ELSE @]

Working == ctx.fmt # <<>> \/ ctx.out # <<>>
printk ==
  /\ ctx.out = <<>> /\ ctx.fmt # <<>>
  /\ ctx' = [Scanned(ctx, Head(ctx.fmt)) EXCEPT !.fmt = Tail(@)]
  /\ UNCHANGED <<program, made, init, polled, port, said, due, trapped>>

-----------------------------------------------------------------------------
(* The port.  While dlab is set the data register is the divisor's.  A     *)
(* byte leaves with the line settings of that moment; one that finds the   *)
(* queue full is lost.                                                     *)
Idle == port.queue = <<>> /\ port.shift = <<>>
WriteThr(p, c) ==
  IF p.dlab THEN [p EXCEPT !.divisor = c]
  ELSE IF Len(p.queue) < DEPTH THEN [p EXCEPT !.queue = Append(@, c)] ELSE p
Load ==
  /\ port.shift = <<>> /\ port.queue # <<>>
  /\ port' = [port EXCEPT !.shift = <<Head(port.queue)>>, !.queue = Tail(@)]
  /\ UNCHANGED <<program, made, ctx, init, polled, said, due, trapped>>
Send ==
  /\ port.shift # <<>>
  /\ port' = [port EXCEPT !.shift = <<>>,
                !.line = Append(@, [c |-> port.shift[1], set |-> [divisor |-> port.divisor, lcr |-> port.lcr]])]
  /\ UNCHANGED <<program, made, ctx, init, polled, said, due, trapped>>

(* init_serial, one write after the other: dlab, both halves of the        *)
(* divisor, the line settings with dlab off, and the queue.                *)
LineSettings == [divisor |-> "target", lcr |-> "8E1"]
ClearQueue(p) == [p EXCEPT !.queue = <<>>]
InitWrite_Latched(p, k) ==
  CASE k = 1 -> [p EXCEPT !.dlab = TRUE]
    [] k = 2 -> [p EXCEPT !.divisor = LineSettings.divisor]
    [] k = 4 -> [p EXCEPT !.lcr = LineSettings.lcr]
    [] OTHER -> p
InitWrite(p, k) ==
  CASE k = 1 -> [p EXCEPT !.dlab = TRUE]
    [] k = 2 -> [p EXCEPT !.divisor = LineSettings.divisor]
    [] k = 3 -> p
    [] k = 4 -> [p EXCEPT !.dlab = FALSE, !.lcr = LineSettings.lcr]
    [] k = 5 -> ClearQueue(p)
serial_initialized == init = 5
init_serial ==
  /\ ctx.out # <<>> /\ ~serial_initialized
  /\ init' = init + 1
  /\ port' = InitWrite(port, init + 1)
  /\ UNCHANGED <<program, made, ctx, polled, said, due, trapped>>

(* putc: the poll, and the write that follows it.                          *)
Poll ==
  /\ ctx.out # <<>> /\ serial_initialized /\ ~polled /\ Idle
  /\ polled' = TRUE
  /\ UNCHANGED <<program, made, ctx, init, port, said, due, trapped>>
putc_Again ==
  /\ polled
  /\ port' = WriteThr(port, Head(ctx.out))
  /\ said' = Append(said, Head(ctx.out))
  /\ ctx' = [ctx EXCEPT !.out = Tail(@)]
  /\ polled' = (Len(ctx.out) > 1)
  /\ UNCHANGED <<program, made, init, due, trapped>>
putc ==
  /\ polled
  /\ port' = WriteThr(port, Head(ctx.out))
  /\ said' = Append(said, Head(ctx.out))
  /\ ctx' = [ctx EXCEPT !.out = Tail(@)]
  /\ polled' = FALSE
  /\ UNCHANGED <<program, made, init, due, trapped>>

-----------------------------------------------------------------------------
(* What a call is to print, from its pieces: a number has its digits, most *)
(* significant first, none for 0, and as many as the width at least.       *)
Length(base, n) == CHOOSE w \in 0..(8 * BYTE) : Power(base, w) > n /\ (w = 0 \/ Power(base, w - 1) <= n)
Numeral(n, base, digits, width) ==
  LET w == IF Length(base, n) > width THEN Length(base, n) ELSE width
  IN  [k \in 1..w |-> digits[((n \div Power(base, w - k)) % base) + 1]]
(* A binary number of two bytes (%hb); for more see print_binary.          *)
Expected(p) ==
  LET range == IF Head(p.mods \o <<"">>) = "l" THEN LONG ELSE INT
      zeros == IF "0" \in ToSet(p.mods) THEN Number(Last(p.mods)) ELSE 0
      n == p.arg.num % range
  IN  IF p.kind = "text" THEN p.chars
      ELSE CASE p.conv = "%" -> <<"%">>
             [] p.conv = "b" -> Numeral(n % Power(2, 2 * BYTE), 2, Digit, 2 * BYTE)
             [] p.conv = "u" -> Numeral(n, 10, Digit, zeros)
             [] p.conv = "d" -> IF n < range \div 2 THEN Numeral(n, 10, Digit, zeros)
                                ELSE <<"-">> \o Numeral(range - n, 10, Digit, zeros)
             [] p.conv \in {"x", "X"} -> Numeral(n, 16, HexDigit(p.conv = "X"), zeros)
             [] p.conv \in {"p", "P"} -> IF p.arg.num = 0 THEN <<"(", "n", "i", "l", ")">>
                   ELSE <<"0", "x">> \o Numeral(p.arg.num, 16, HexDigit(p.conv = "P"), PTR_DIGITS)
             [] p.conv = "s" -> IF p.mods = <<>> THEN p.arg.str
                                ELSE [k \in 1..Number(p.mods[1]) |-> p.arg.str[k]]
             [] OTHER -> p.arg.str
Reference(call) == FlattenSeq([k \in DOMAIN call |-> Expected(call[k])])

(* What the loader may have left in the port.                              *)
Loader == {<<>>, <<"loader">>}
Init ==
  /\ program \in Programs /\ made = 0
  /\ ctx = Enter(<<>>) /\ init = 0 /\ polled = FALSE
  /\ \E sending \in Loader :
       port = [dlab |-> FALSE, divisor |-> "loader", lcr |-> "loader",
               queue |-> <<>>, shift |-> sending, line |-> <<>>]
  /\ said = <<>> /\ due = <<>> /\ trapped = FALSE

NextCall ==
  /\ ~Working /\ ~trapped /\ made < Len(program)
  /\ made' = made + 1
  /\ ctx' = Enter(program[made'])
  /\ due' = due \o Reference(program[made'])
  /\ UNCHANGED <<program, init, polled, port, said, trapped>>

(* isr_common finds no handler: _assert_fail, wherever the kernel was.     *)
Trap ==
  /\ ~trapped /\ made >= GatesAfter + (IF Working THEN 1 ELSE 0)
  /\ trapped' = TRUE
  /\ ctx' = Enter(Fatal)
  /\ polled' = FALSE
  /\ due' = said \o Reference(Fatal)
  /\ UNCHANGED <<program, made, init, port, said>>

Kernel == printk \/ init_serial \/ Poll \/ putc \/ NextCall
Port == Load \/ Send
Next == Kernel \/ Port \/ Trap

Spec == Init /\ [][Next]_vars /\ WF_vars(Kernel) /\ WF_vars(Port)

-----------------------------------------------------------------------------
(* Every byte that the kernel wrote goes out once, in order and with the   *)
(* line settings of init_serial, behind the one that the loader may have   *)
(* left in the port: none is overwritten in a full queue, none ends up in  *)
(* the divisor, none is cleared with the queue, also where the last        *)
(* message begins in the middle of another one.                            *)
Sent == [k \in DOMAIN port.line |-> port.line[k].c]
BytesArrive ==
  \E before \in Loader :
    /\ Sent \o port.shift \o port.queue = before \o said
    /\ \A k \in DOMAIN port.line : k > Len(before) => port.line[k].set = LineSettings

(* What is written is what the calls are to print, never more, and all of  *)
(* it when a call returns: scanning the format and converting arguments of *)
(* different sizes agree with the pieces the format was made from.         *)
PrintsWhatIsDue == IsPrefix(said, due) /\ (~Working => said = due)

(* The log is heard to its last byte, and so is the message of a failed    *)
(* assertion that cut another one short.                                   *)
LogIsHeard == <>[](\E before \in Loader : Sent = before \o due)
=============================================================================
