------------------------------- MODULE MCKlog -------------------------------
(* Programs for model checking Klog: bytes of two bits, so that an int has *)
(* 8 and a long 16.  The first call stands for the messages before         *)
(* isr_init; the second has two directives with every conversion.          *)
EXTENDS Klog

Hello == <<Text("["), Text("+")>>
S(mods, s) == Directive(mods, "s", Str(s))
N(mods, conv, n) == Directive(mods, conv, Num(n))
Pieces ==
  {N(<<>>, "%", 0), Directive(<<>>, "c", Str(<<"q">>)), S(<<>>, <<"a", "b">>),
   S(<<"4">>, <<"A", "P", "I", "C", "?">>),
   N(<<"h">>, "b", 5), N(<<"0", "3">>, "x", 171), N(<<"l">>, "X", 2748),
   N(<<>>, "p", 0), N(<<>>, "P", 171)}
  \cup {N(mods, conv, n) : mods \in {<<>>, <<"l">>, <<"0", "3">>, <<"l", "0", "2">>},
                           conv \in {"u", "d"}, n \in {0, 7, 130, 256, 65535}}
AllPrograms == {<<Hello, <<p, Text("."), q>>>> :
                  p \in Pieces, q \in {N(<<>>, "u", 12), S(<<"4">>, <<"F", "A", "C", "P">>)}}
TheFatal == <<Text("!"), S(<<>>, <<"f">>), N(<<"l">>, "u", 300)>>
=============================================================================
