----------------------------- MODULE Klog_proofs -----------------------------
(***************************************************************************)
(* Proofs about the kernel log, for every program of calls, every width of *)
(* a byte, every depth of the port's queue and every place where a last    *)
(* message may cut another one short: the bytes that are written arrive,   *)
(* and they are what the calls are to print.  The second needs what the    *)
(* loops of printk.c compute, which the definitions state by recursion:    *)
(* a recursion over numbers has one solution, shown by well-founded        *)
(* induction, which gives each function its rule.                          *)
(***************************************************************************)
EXTENDS Klog, SequenceTheorems, WellFoundedInduction, TLAPS

-----------------------------------------------------------------------------
(* The inductive invariant.                                                *)

(* A finite sequence of whatever it holds.                                 *)
IsSeq(s) == s \in Seq({s[k] : k \in DOMAIN s})

(* The registers of the port; line is what it has sent.                    *)
PortShape ==
  /\ port = [dlab |-> port.dlab, divisor |-> port.divisor, lcr |-> port.lcr,
             queue |-> port.queue, shift |-> port.shift, line |-> port.line]
  /\ IsSeq(port.line) /\ IsSeq(said)

(* At most one byte waits in the port, since putc writes to an idle one.   *)
Waiting(s, q) ==
  \/ s = <<>> /\ q = <<>>
  \/ \E c : s = <<c>> /\ q = <<>>
  \/ \E c : s = <<>> /\ q = <<c>>

(* How far init_serial has come, and what it has set by then: nothing is   *)
(* written to the data register before its end.                            *)
Settings ==
  /\ init \in 0..5
  /\ init < 5 => said = <<>> /\ port.queue = <<>>
  /\ init \in {1, 2, 3} <=> port.dlab = TRUE
  /\ init >= 2 => port.divisor = LineSettings.divisor
  /\ init >= 4 => port.lcr = LineSettings.lcr

(* Nothing fills the port between the poll and the write.                  *)
Polled == polled = TRUE => init = 5 /\ Idle

PortInv ==
  /\ PortShape /\ Waiting(port.shift, port.queue)
  /\ Settings /\ Polled /\ BytesArrive

-----------------------------------------------------------------------------
(* Sequences.                                                              *)

(* One element more.                                                       *)
LEMMA AppendSeq ==
  ASSUME NEW s, IsSeq(s), NEW e
  PROVE  /\ IsSeq(Append(s, e)) /\ Len(s) \in Nat /\ DOMAIN s = 1..Len(s)
         /\ Len(Append(s, e)) = Len(s) + 1
         /\ DOMAIN Append(s, e) = 1..(Len(s) + 1)
         /\ \A k \in 1..Len(s) : Append(s, e)[k] = s[k]
         /\ Append(s, e)[Len(s) + 1] = e
<1> DEFINE S == {s[k] : k \in DOMAIN s}
           R == S \cup {e}
           r == Append(s, e)
           V == {r[k] : k \in DOMAIN r}
<1>1. s \in Seq(S)
  BY DEF IsSeq
<1> HIDE DEF S
<1>2. s \in Seq(R) /\ e \in R
  BY <1>1
<1> HIDE DEF R
<1>3. /\ r \in Seq(R) /\ Len(s) \in Nat /\ DOMAIN s = 1..Len(s)
      /\ Len(r) = Len(s) + 1 /\ DOMAIN r = 1..(Len(s) + 1)
      /\ \A k \in 1..Len(s) : r[k] = s[k]
      /\ r[Len(s) + 1] = e
  BY <1>2
<1> HIDE DEF r
<1>4. \A k \in 1..Len(r) : r[k] \in V
  BY <1>3
<1>5. r = [k \in 1..Len(r) |-> r[k]] /\ Len(r) \in Nat
  BY <1>3
<1> HIDE DEF V
<1>6. r \in Seq(V)
  BY <1>4, <1>5, IsASeq
<1> USE DEF r
<1> QED  BY <1>3, <1>6 DEF IsSeq, V

(* A sequence behind and before short ones.                                *)
LEMMA Joined ==
  ASSUME NEW s, IsSeq(s), NEW e
  PROVE  s \o <<>> = s /\ s \o <<e>> = Append(s, e)
<1> DEFINE S == {s[k] : k \in DOMAIN s}
           R == S \cup {e}
<1>1. s \in Seq(S)
  BY DEF IsSeq
<1> HIDE DEF S
<1>2. s \in Seq(R) /\ e \in R
  BY <1>1
<1> HIDE DEF R
<1>3. s \o <<>> = s
  BY <1>2, ConcatEmptySeq
<1>4. s \o <<e>> = Append(s, e)
  BY <1>2, AppendIsConcat
<1> QED  BY <1>3, <1>4

(* What the loader left comes first.                                       *)
LEMMA Behind ==
  ASSUME NEW b \in Loader, NEW s, IsSeq(s), NEW e
  PROVE  /\ Len(b \o s) = Len(b) + Len(s) /\ Len(b) \in Nat /\ Len(s) \in Nat
         /\ b \o Append(s, e) = Append(b \o s, e)
<1> DEFINE S == {s[k] : k \in DOMAIN s}
           R == S \cup {e} \cup {"loader"}
<1>1. s \in Seq(S)
  BY DEF IsSeq
<1> HIDE DEF S
<1>2. s \in Seq(R) /\ e \in R /\ "loader" \in R
  BY <1>1
<1> HIDE DEF R
<1>3. b \in Seq(R)
  <2>1. <<>> \in Seq(R) /\ <<"loader">> \in Seq(R)
    BY <1>2
  <2> QED  BY <2>1 DEF Loader
<1>4. /\ Len(b \o s) = Len(b) + Len(s) /\ Len(b) \in Nat /\ Len(s) \in Nat
      /\ b \o s \in Seq(R)
  BY <1>2, <1>3, ConcatProperties
<1>5. b \o Append(s, e) = b \o (s \o <<e>>)
  BY <1>2, AppendIsConcat
<1>6. b \o (s \o <<e>>) = (b \o s) \o <<e>>
  BY <1>2, <1>3, ConcatAssociative
<1>7. (b \o s) \o <<e>> = Append(b \o s, e)
  BY <1>2, <1>4, AppendIsConcat
<1> QED  BY <1>4, <1>5, <1>6, <1>7

(* The bytes that went out are as many as the port sent.                   *)
LEMMA SentSeq ==
  ASSUME PortShape
  PROVE  /\ IsSeq(Sent) /\ Len(Sent) = Len(port.line) /\ Len(port.line) \in Nat
         /\ DOMAIN port.line = 1..Len(port.line)
<1> DEFINE l == port.line
           V == {Sent[k] : k \in DOMAIN Sent}
<1>1. Len(l) \in Nat /\ DOMAIN l = 1..Len(l)
  BY AppendSeq DEF PortShape
<1>2. Sent = [k \in 1..Len(l) |-> l[k].c]
  BY <1>1 DEF Sent
<1>3. \A k \in 1..Len(l) : l[k].c \in V
  BY <1>2
<1> HIDE DEF l, V
<1>4. Sent \in Seq(V) /\ Len(Sent) = Len(l)
  BY <1>1, <1>2, <1>3
<1> QED  BY <1>1, <1>4 DEF IsSeq, l, V

(* What is in the port, when a byte waits there and when none does.        *)
LEMMA InPort ==
  ASSUME PortShape, NEW c
  PROVE  /\ Sent \o <<>> \o <<>> = Sent
         /\ Sent \o <<c>> \o <<>> = Append(Sent, c)
         /\ Sent \o <<>> \o <<c>> = Append(Sent, c)
<1>1. IsSeq(Sent)
  BY SentSeq
<1> HIDE DEF Sent
<1>2. Sent \o <<>> = Sent /\ Sent \o <<c>> = Append(Sent, c)
  BY <1>1, Joined
<1>3. IsSeq(Append(Sent, c))
  BY <1>1, AppendSeq
<1>4. Append(Sent, c) \o <<>> = Append(Sent, c)
  BY <1>3, Joined
<1> QED  BY <1>2, <1>4

-----------------------------------------------------------------------------
(* The steps.                                                              *)

(* Before anything is written.                                             *)
LEMMA InitPortInv == Init => PortInv
<1> SUFFICES ASSUME Init PROVE PortInv
  OBVIOUS
<1>1. PICK b \in Loader :
        port = [dlab |-> FALSE, divisor |-> "loader", lcr |-> "loader",
                queue |-> <<>>, shift |-> b, line |-> <<>>]
  BY DEF Init
<1>2. /\ port.dlab = FALSE /\ port.queue = <<>> /\ port.shift = b /\ port.line = <<>>
      /\ said = <<>> /\ init = 0 /\ polled = FALSE
  BY <1>1 DEF Init
<1>3. PortShape
  BY <1>1, <1>2 DEF PortShape, IsSeq
<1>4. Waiting(port.shift, port.queue)
  BY <1>2 DEF Waiting, Loader
<1>5. Settings /\ Polled
  BY <1>2 DEF Settings, Polled
<1>6. BytesArrive
  <2>1. Sent = <<>>
    BY <1>2 DEF Sent
  <2>2. b = <<>> \/ b = <<"loader">>
    BY DEF Loader
  <2>3. Sent \o port.shift \o port.queue = b \o said
    BY <1>2, <2>1, <2>2
  <2>4. DOMAIN port.line = {}
    BY <1>2
  <2> QED  BY <2>3, <2>4 DEF BytesArrive
<1> QED  BY <1>3, <1>4, <1>5, <1>6 DEF PortInv

(* A step of the kernel that leaves the port alone.                        *)
LEMMA PortAlone ==
  ASSUME PortInv, UNCHANGED <<init, port, said>>,
         polled' = polled \/ polled' = FALSE \/ (init = 5 /\ Idle)
  PROVE  PortInv'
<1>1. init' = init /\ port' = port /\ said' = said
  OBVIOUS
<1>2. PortShape' /\ Waiting(port.shift, port.queue)' /\ Settings'
  BY <1>1 DEF PortInv, PortShape, IsSeq, Waiting, Settings
<1>3. Polled'
  BY <1>1 DEF PortInv, Polled, Idle
<1>4. BytesArrive'
  BY <1>1 DEF PortInv, BytesArrive, Sent
<1> QED  BY <1>2, <1>3, <1>4 DEF PortInv

(* The port moves the waiting byte on.                                     *)
LEMMA LoadPortInv ==
  ASSUME PortInv, Load
  PROVE  PortInv'
<1>1. PICK c : port.shift = <<>> /\ port.queue = <<c>>
  BY DEF Load, PortInv, Waiting
<1>2. Head(port.queue) = c /\ Tail(port.queue) = <<>>
  BY <1>1
<1>3. /\ port' = [port EXCEPT !.shift = <<c>>, !.queue = <<>>]
      /\ init' = init /\ polled' = polled /\ said' = said
  BY <1>2 DEF Load
<1>4. /\ port'.shift = <<c>> /\ port'.queue = <<>> /\ port'.line = port.line
      /\ port'.dlab = port.dlab /\ port'.divisor = port.divisor /\ port'.lcr = port.lcr
      /\ port' = [dlab |-> port.dlab, divisor |-> port.divisor, lcr |-> port.lcr,
                  queue |-> <<>>, shift |-> <<c>>, line |-> port.line]
  BY <1>3 DEF PortInv, PortShape
<1>5. PortShape'
  <2>1. port' = [dlab |-> port'.dlab, divisor |-> port'.divisor, lcr |-> port'.lcr,
                 queue |-> port'.queue, shift |-> port'.shift, line |-> port'.line]
    BY <1>4, Zenon
  <2>2. IsSeq(port'.line) /\ IsSeq(said')
    BY <1>3, <1>4 DEF PortInv, PortShape
  <2> QED  BY <2>1, <2>2 DEF PortShape, IsSeq
<1>6. Waiting(port.shift, port.queue)'
  BY <1>4 DEF Waiting
<1>7. Settings'
  BY <1>1, <1>3, <1>4 DEF PortInv, Settings
<1>8. Polled'
  <2>1. <<c>> # <<>>
    OBVIOUS
  <2>2. ~Idle
    BY <1>1, <2>1, Zenon DEF Idle
  <2>3. polled # TRUE
    BY <2>2 DEF PortInv, Polled
  <2> QED  BY <1>3, <2>3 DEF Polled
<1>9. BytesArrive'
  <2>1. Sent' = Sent
    BY <1>4 DEF Sent
  <2>2. Sent \o <<c>> \o <<>> = Sent \o port.shift \o port.queue
    BY <1>1, InPort DEF PortInv
  <2>3. PICK b \in Loader :
          /\ Sent \o port.shift \o port.queue = b \o said
          /\ \A k \in DOMAIN port.line : k > Len(b) => port.line[k].set = LineSettings
    BY DEF PortInv, BytesArrive
  <2>4. Sent' \o port'.shift \o port'.queue = b \o said'
    BY <1>3, <1>4, <2>1, <2>2, <2>3
  <2> QED  BY <1>4, <2>3, <2>4 DEF BytesArrive
<1> QED  BY <1>5, <1>6, <1>7, <1>8, <1>9 DEF PortInv

(* The port sends a byte.  It may be the loader's as long as the kernel    *)
(* has written none; after that the line settings are those of the kernel. *)
LEMMA SendPortInv ==
  ASSUME PortInv, Send
  PROVE  PortInv'
<1> DEFINE r == [c |-> port.shift[1], set |-> [divisor |-> port.divisor, lcr |-> port.lcr]]
           n == Len(port.line)
<1>1. PICK c : port.shift = <<c>> /\ port.queue = <<>>
  BY DEF Send, PortInv, Waiting
<1>2. r.c = c /\ r.set = [divisor |-> port.divisor, lcr |-> port.lcr]
  BY <1>1
<1>3. /\ port' = [port EXCEPT !.shift = <<>>, !.line = Append(@, r)]
      /\ init' = init /\ polled' = polled /\ said' = said
  BY DEF Send
<1> HIDE DEF r
<1>4. /\ port'.shift = <<>> /\ port'.queue = <<>> /\ port'.line = Append(port.line, r)
      /\ port'.dlab = port.dlab /\ port'.divisor = port.divisor /\ port'.lcr = port.lcr
      /\ port' = [dlab |-> port.dlab, divisor |-> port.divisor, lcr |-> port.lcr,
                  queue |-> <<>>, shift |-> <<>>, line |-> Append(port.line, r)]
  BY <1>1, <1>3 DEF PortInv, PortShape
<1>5. /\ IsSeq(Append(port.line, r)) /\ n \in Nat /\ DOMAIN port.line = 1..n
      /\ DOMAIN Append(port.line, r) = 1..(n + 1)
      /\ \A k \in 1..n : Append(port.line, r)[k] = port.line[k]
      /\ Append(port.line, r)[n + 1] = r
  BY AppendSeq DEF PortInv, PortShape
<1>6. PortShape'
  <2>1. port' = [dlab |-> port'.dlab, divisor |-> port'.divisor, lcr |-> port'.lcr,
                 queue |-> port'.queue, shift |-> port'.shift, line |-> port'.line]
    BY <1>4, Zenon
  <2>2. IsSeq(port'.line) /\ IsSeq(said')
    BY <1>3, <1>4, <1>5 DEF PortInv, PortShape
  <2> QED  BY <2>1, <2>2 DEF PortShape, IsSeq
<1>7. Waiting(port.shift, port.queue)'
  BY <1>4 DEF Waiting
<1>8. Settings'
  BY <1>3, <1>4 DEF PortInv, Settings
<1>9. Polled'
  <2>1. <<c>> # <<>>
    OBVIOUS
  <2>2. ~Idle
    BY <1>1, <2>1, Zenon DEF Idle
  <2>3. polled # TRUE
    BY <2>2 DEF PortInv, Polled
  <2> QED  BY <1>3, <2>3 DEF Polled
<1>10. IsSeq(Sent) /\ Len(Sent) = n
  BY SentSeq DEF PortInv
<1>11. Sent' = Append(Sent, c)
  <2>1. Sent' = [k \in 1..(n + 1) |-> Append(port.line, r)[k].c]
    BY <1>4, <1>5 DEF Sent
  <2>2. Sent = [k \in 1..n |-> port.line[k].c]
    BY <1>5 DEF Sent
  <2>3. /\ DOMAIN Append(Sent, c) = 1..(n + 1)
        /\ \A k \in 1..n : Append(Sent, c)[k] = Sent[k]
        /\ Append(Sent, c)[n + 1] = c
        /\ IsSeq(Append(Sent, c))
    BY <1>10, AppendSeq
  <2>4. Append(Sent, c) = [k \in 1..(n + 1) |-> Append(Sent, c)[k]]
    <3> DEFINE a == Append(Sent, c)
               V == {a[k] : k \in DOMAIN a}
    <3>1. a \in Seq(V)
      BY <2>3 DEF IsSeq
    <3>2. DOMAIN a = 1..(n + 1)
      BY <2>3
    <3> HIDE DEF a, V
    <3>3. a = [k \in 1..(n + 1) |-> a[k]]
      BY <3>1, <3>2
    <3> QED  BY <3>3 DEF a
  <2>5. \A k \in 1..(n + 1) : Append(port.line, r)[k].c = Append(Sent, c)[k]
    <3> TAKE k \in 1..(n + 1)
    <3>1. CASE k = n + 1
      BY <3>1, <1>2, <1>5, <2>3
    <3>2. CASE k # n + 1
      <4>1. k \in 1..n
        BY <3>2, <1>5
      <4> QED  BY <4>1, <1>5, <2>2, <2>3
    <3> QED  BY <3>1, <3>2
  <2> QED  BY <2>1, <2>4, <2>5
<1>12. BytesArrive'
  <2>1. PICK b \in Loader :
          /\ Sent \o port.shift \o port.queue = b \o said
          /\ \A k \in DOMAIN port.line : k > Len(b) => port.line[k].set = LineSettings
    BY DEF PortInv, BytesArrive
  <2>2. Sent \o port.shift \o port.queue = Append(Sent, c)
    BY <1>1, InPort DEF PortInv
  <2>3. Sent' \o port'.shift \o port'.queue = Sent'
    <3>1. PortShape'
      BY <1>6
    <3>2. Sent' \o <<>> \o <<>> = Sent'
      <4>1. IsSeq(Sent')
        BY <1>10, <1>11, AppendSeq
      <4> QED  BY <4>1, Joined
    <3> QED  BY <1>4, <3>2
  <2>4. Sent' \o port'.shift \o port'.queue = b \o said'
    BY <1>3, <1>11, <2>1, <2>2, <2>3
  <2>5. \A k \in DOMAIN port'.line : k > Len(b) => port'.line[k].set = LineSettings
    <3> SUFFICES ASSUME NEW k \in 1..(n + 1), k > Len(b)
                 PROVE  port'.line[k].set = LineSettings
      BY <1>4, <1>5
    <3>1. CASE k # n + 1
      <4>1. k \in 1..n
        BY <3>1, <1>5
      <4> QED  BY <4>1, <1>4, <1>5, <2>1
    <3>2. CASE k = n + 1
      <4>1. Len(b \o said) = Len(b) + Len(said) /\ Len(b) \in Nat /\ Len(said) \in Nat
        BY Behind DEF PortInv, PortShape
      <4>2. Len(b \o said) = n + 1
        BY <1>10, <2>1, <2>2, AppendSeq
      <4>3. said # <<>>
        <5>1. Len(said) > 0
          BY <3>2, <4>1, <4>2
        <5> QED  BY <5>1
      <4>4. init = 5
        BY <4>3 DEF PortInv, Settings
      <4>5. port.divisor = LineSettings.divisor /\ port.lcr = LineSettings.lcr
        BY <4>4 DEF PortInv, Settings
      <4>6. r.set = LineSettings
        BY <1>2, <4>5 DEF LineSettings
      <4> QED  BY <3>2, <4>6, <1>4, <1>5
    <3> QED  BY <3>1, <3>2
  <2> QED  BY <2>4, <2>5 DEF BytesArrive
<1> QED  BY <1>6, <1>7, <1>8, <1>9, <1>12 DEF PortInv

(* One more write of init_serial: the queue that it clears at last is      *)
(* empty, since putc has not written yet.                                  *)
LEMMA InitWritePortInv ==
  ASSUME PortInv, init_serial
  PROVE  PortInv'
<1> DEFINE k == init + 1
<1>1. init \in 0..4 /\ said = <<>> /\ port.queue = <<>>
  BY DEF init_serial, serial_initialized, PortInv, Settings
<1>2. k \in {1, 2, 3, 4, 5} /\ init' = k
  BY <1>1 DEF init_serial
<1>3. port' = InitWrite(port, k) /\ polled' = polled /\ said' = said
  BY DEF init_serial
<1>4. polled # TRUE
  <2>1. init # 5
    BY <1>1
  <2> QED  BY <2>1, Zenon DEF PortInv, Polled
<1> DEFINE d == IF k \in {1, 2, 3} THEN TRUE ELSE FALSE
           div == IF k >= 2 THEN LineSettings.divisor ELSE port.divisor
           lcr == IF k >= 4 THEN LineSettings.lcr ELSE port.lcr
           new == [dlab |-> d, divisor |-> div, lcr |-> lcr, queue |-> <<>>,
                   shift |-> port.shift, line |-> port.line]
<1>5. port' = new
  <2>0. port = [dlab |-> port.dlab, divisor |-> port.divisor, lcr |-> port.lcr,
                queue |-> <<>>, shift |-> port.shift, line |-> port.line]
    BY <1>1 DEF PortInv, PortShape
  <2>1. /\ init \in {1, 2, 3} <=> port.dlab = TRUE
        /\ init >= 2 => port.divisor = LineSettings.divisor
        /\ init >= 4 => port.lcr = LineSettings.lcr
    BY DEF PortInv, Settings
  <2>2. CASE k = 1
    <3>1. port' = [port EXCEPT !.dlab = d]
      BY <1>3, <2>2 DEF InitWrite
    <3>2. div = port.divisor /\ lcr = port.lcr
      BY <2>2
    <3> HIDE DEF d, div, lcr
    <3> QED  BY <2>0, <3>1, <3>2
  <2>3. CASE k = 2
    <3>1. port' = [port EXCEPT !.divisor = LineSettings.divisor]
      BY <1>3, <2>3 DEF InitWrite
    <3>2. d = TRUE /\ div = LineSettings.divisor /\ lcr = port.lcr /\ port.dlab = TRUE
      BY <1>1, <2>1, <2>3
    <3> HIDE DEF d, div, lcr
    <3>3. port.dlab = d
      BY <3>2, Zenon
    <3>4. div = LineSettings.divisor /\ lcr = port.lcr
      BY <3>2
    <3> QED  BY <2>0, <3>1, <3>3, <3>4
  <2>4. CASE k = 3
    <3>1. port' = port
      BY <1>3, <2>4 DEF InitWrite
    <3>2. d = TRUE /\ div = port.divisor /\ lcr = port.lcr /\ port.dlab = TRUE
      BY <1>1, <2>1, <2>4
    <3> HIDE DEF d, div, lcr
    <3> QED  BY <2>0, <3>1, <3>2
  <2>5. CASE k = 4
    <3>1. port' = [port EXCEPT !.dlab = FALSE, !.lcr = LineSettings.lcr]
      BY <1>3, <2>5 DEF InitWrite
    <3>2. d = FALSE /\ div = port.divisor /\ lcr = LineSettings.lcr
      BY <1>1, <2>1, <2>5
    <3> HIDE DEF d, div, lcr
    <3>3. port' = [port EXCEPT !.dlab = d, !.lcr = lcr]
      BY <3>1, <3>2, Zenon
    <3>4. div = port.divisor
      BY <3>2
    <3>5. port' = [dlab |-> d, divisor |-> port.divisor, lcr |-> lcr,
                   queue |-> port.queue, shift |-> port.shift, line |-> port.line]
      BY <3>3 DEF PortInv, PortShape
    <3> QED  BY <1>1, <3>4, <3>5, Zenon
  <2>6. CASE k = 5
    <3>1. port' = [port EXCEPT !.queue = <<>>]
      BY <1>3, <2>6 DEF InitWrite, ClearQueue
    <3>2. d = FALSE /\ div = port.divisor /\ lcr = port.lcr /\ port.dlab = FALSE
      BY <1>1, <2>1, <2>6
    <3> HIDE DEF d, div, lcr
    <3> QED  BY <2>0, <3>1, <3>2
  <2> QED  BY <1>2, <2>2, <2>3, <2>4, <2>5, <2>6
<1>6. /\ port'.dlab = d /\ port'.divisor = div /\ port'.lcr = lcr /\ port'.queue = <<>>
      /\ port'.shift = port.shift /\ port'.line = port.line
  BY <1>5
<1>7. PortShape'
  <2>1. port' = [dlab |-> port'.dlab, divisor |-> port'.divisor, lcr |-> port'.lcr,
                 queue |-> port'.queue, shift |-> port'.shift, line |-> port'.line]
    <3> HIDE DEF d, div, lcr
    <3> QED  BY <1>5, <1>6, Zenon
  <2>2. IsSeq(port'.line) /\ IsSeq(said')
    BY <1>3, <1>6 DEF PortInv, PortShape
  <2> QED  BY <2>1, <2>2 DEF PortShape, IsSeq
<1>8. Waiting(port.shift, port.queue)'
  BY <1>1, <1>6 DEF PortInv, Waiting
<1>9. Settings'
  <2>1. k \in {1, 2, 3} <=> d = TRUE
    BY <1>2
  <2>2. (k >= 2 => div = LineSettings.divisor) /\ (k >= 4 => lcr = LineSettings.lcr)
    BY <1>2
  <2>3. k \in 0..5
    BY <1>2
  <2> HIDE DEF d, div, lcr, k
  <2>4. init' \in {1, 2, 3} <=> port'.dlab = TRUE
    BY <1>2, <1>6, <2>1, Zenon
  <2>5. /\ init' >= 2 => port'.divisor = LineSettings.divisor
        /\ init' >= 4 => port'.lcr = LineSettings.lcr
    BY <1>2, <1>6, <2>2, Zenon
  <2>6. init' \in 0..5 /\ said' = <<>> /\ port'.queue = <<>>
    BY <1>1, <1>2, <1>3, <1>6, <2>3
  <2> QED  BY <2>4, <2>5, <2>6, Zenon DEF Settings, LineSettings
<1>10. Polled'
  BY <1>3, <1>4 DEF Polled
<1>11. BytesArrive'
  BY <1>1, <1>3, <1>6 DEF PortInv, BytesArrive, Sent
<1> QED  BY <1>7, <1>8, <1>9, <1>10, <1>11 DEF PortInv

(* putc writes its byte into an idle port that is set up.                  *)
LEMMA PutcPortInv ==
  ASSUME PortInv, putc
  PROVE  PortInv'
<1> DEFINE c == Head(ctx.out)
<1>1. init = 5 /\ port.queue = <<>> /\ port.shift = <<>>
  BY DEF putc, PortInv, Polled, Idle
<1>2. port.dlab # TRUE
  <2>1. init \notin {1, 2, 3}
    BY <1>1
  <2> QED  BY <2>1, Zenon DEF PortInv, Settings
<1>3. /\ port' = WriteThr(port, c) /\ said' = Append(said, c)
      /\ polled' = FALSE /\ init' = init
  BY DEF putc
<1> HIDE DEF c
<1>4. port' = [port EXCEPT !.queue = Append(@, c)]
  <2>1. Len(port.queue) < DEPTH
    <3>1. Len(port.queue) = 0
      BY <1>1
    <3> QED  BY <3>1, PortAssumption
  <2> QED  BY <1>2, <1>3, <2>1 DEF WriteThr
<1>5. Append(port.queue, c) = <<c>>
  BY <1>1
<1>6. /\ port'.queue = <<c>> /\ port'.shift = <<>> /\ port'.line = port.line
      /\ port'.dlab = port.dlab /\ port'.divisor = port.divisor /\ port'.lcr = port.lcr
      /\ port' = [dlab |-> port.dlab, divisor |-> port.divisor, lcr |-> port.lcr,
                  queue |-> <<c>>, shift |-> <<>>, line |-> port.line]
  BY <1>1, <1>4, <1>5 DEF PortInv, PortShape
<1>7. PortShape'
  <2>1. port' = [dlab |-> port'.dlab, divisor |-> port'.divisor, lcr |-> port'.lcr,
                 queue |-> port'.queue, shift |-> port'.shift, line |-> port'.line]
    BY <1>6, Zenon
  <2>2. IsSeq(port'.line) /\ IsSeq(said')
    BY <1>3, <1>6, AppendSeq DEF PortInv, PortShape
  <2> QED  BY <2>1, <2>2 DEF PortShape, IsSeq
<1>8. Waiting(port.shift, port.queue)'
  BY <1>6 DEF Waiting
<1>9. Settings'
  BY <1>1, <1>3, <1>6 DEF PortInv, Settings
<1>10. Polled'
  BY <1>3 DEF Polled
<1>11. BytesArrive'
  <2>1. PICK b \in Loader :
          /\ Sent \o port.shift \o port.queue = b \o said
          /\ \A k \in DOMAIN port.line : k > Len(b) => port.line[k].set = LineSettings
    BY DEF PortInv, BytesArrive
  <2>2. Sent = b \o said
    BY <1>1, <2>1, InPort DEF PortInv
  <2>3. Sent \o <<>> \o <<c>> = Append(Sent, c)
    BY InPort DEF PortInv
  <2>4. b \o Append(said, c) = Append(b \o said, c)
    BY Behind DEF PortInv, PortShape
  <2>5. Sent' = Sent
    BY <1>6 DEF Sent
  <2>6. Sent' \o port'.shift \o port'.queue = b \o said'
    BY <1>3, <1>6, <2>2, <2>3, <2>4, <2>5
  <2> QED  BY <1>6, <2>1, <2>6 DEF BytesArrive
<1> QED  BY <1>7, <1>8, <1>9, <1>10, <1>11 DEF PortInv

(* Every byte that putc writes arrives once, in order and with the line    *)
(* settings of init_serial, whatever is printed and wherever the message   *)
(* of a failed assertion begins.                                           *)
THEOREM BytesAlwaysArrive == Spec => []BytesArrive
<1>1. PortInv /\ [Next]_vars => PortInv'
  <2> SUFFICES ASSUME PortInv, [Next]_vars PROVE PortInv'
    OBVIOUS
  <2>1. CASE UNCHANGED vars
    BY <2>1, PortAlone DEF vars
  <2>2. CASE printk \/ NextCall \/ Trap
    BY <2>2, PortAlone DEF printk, NextCall, Trap
  <2>3. CASE Poll
    BY <2>3, PortAlone DEF Poll, serial_initialized
  <2>4. CASE init_serial
    BY <2>4, InitWritePortInv
  <2>5. CASE putc
    BY <2>5, PutcPortInv
  <2>6. CASE Load
    BY <2>6, LoadPortInv
  <2>7. CASE Send
    BY <2>7, SendPortInv
  <2> QED  BY <2>1, <2>2, <2>3, <2>4, <2>5, <2>6, <2>7 DEF Next, Kernel, Port
<1>2. PortInv => BytesArrive
  BY DEF PortInv
<1> QED  BY <1>1, <1>2, InitPortInv, PTL DEF Spec

-----------------------------------------------------------------------------
(* A set of numbers has a least element.                                   *)
LEMMA HasLeast ==
  ASSUME NEW S \in SUBSET Nat, S # {}
  PROVE  \E x \in S : \A y \in S : x <= y
<1>1. PICK R0 : IsWellFoundedOn(R0, Nat) /\ \A x, y \in Nat : x < y => <<x, y>> \in R0
  <2> DEFINE R0 == OpToRel(<, Nat)
  <2>1. \A x, y \in Nat : x < y => <<x, y>> \in R0
    BY DEF OpToRel
  <2>2. IsWellFoundedOn(R0, Nat)
    BY NatLessThanWellFounded DEF R0
  <2> QED BY <2>1, <2>2, Zenon
<1>a. IsWellFoundedOn(R0, Nat)
  BY <1>1
<1>2. PICK x \in S : \A y \in S : ~(<<y, x>> \in R0)
  BY <1>a, WFMin, Zenon
<1>3. ASSUME NEW y \in S PROVE x <= y
  <2>1. ~(y < x)
    BY <1>1, <1>2, Zenon
  <2> QED BY <2>1
<1> QED BY <1>3

(* What fails somewhere fails at a place of least rank.                    *)
LEMMA LeastBad ==
  ASSUME NEW D, NEW rank \in [D -> Nat], NEW Bad \in SUBSET D, Bad # {}
  PROVE  \E p \in Bad : \A q \in D : rank[q] < rank[p] => q \notin Bad
<1> DEFINE S == {rank[p] : p \in Bad}
<1>1. S \in SUBSET Nat /\ S # {}
  OBVIOUS
<1>2. PICK x \in S : \A y \in S : x <= y
  <2> HIDE DEF S
  <2> QED BY <1>1, HasLeast
<1>3. PICK p \in Bad : rank[p] = x
  OBVIOUS
<1>4. ASSUME NEW q \in D, rank[q] < rank[p], q \in Bad PROVE FALSE
  <2>1. rank[q] \in S /\ rank[q] \in Nat /\ rank[p] \in Nat
    BY <1>4
  <2> QED BY <1>2, <1>3, <1>4, <2>1
<1> QED BY <1>4

(* A recursion that only looks at arguments of lower rank.                 *)
Recursion(D, V, rank, F) ==
  /\ D # {} => V # {}
  /\ rank \in [D -> Nat]
  /\ F \in [[D -> V] -> [D -> V]]
  /\ \A g, h \in [D -> V], p \in D :
       (\A q \in D : rank[q] < rank[p] => g[q] = h[q]) => F[g][p] = F[h][p]
Solves(D, V, F, f) == f \in [D -> V] /\ f = F[f]

(* There is a solution.                                                    *)
LEMMA WFRec ==
  ASSUME NEW D, NEW V, NEW rank, NEW F, Recursion(D, V, rank, F)
  PROVE  \E f : Solves(D, V, F, f)
<1>a. (D # {} => V # {}) /\ rank \in [D -> Nat] /\ F \in [[D -> V] -> [D -> V]]
  BY DEF Recursion
<1> USE <1>a
<1>0. \A g, h \in [D -> V], p \in D :
        (\A q \in D : rank[q] < rank[p] => g[q] = h[q]) => F[g][p] = F[h][p]
  BY DEF Recursion
<1> DEFINE Upto(g, m) == \A p \in D : rank[p] < m => g[p] = F[g][p]
           Has(m) == \E g \in [D -> V] : Upto(g, m)
           N == {m \in Nat : ~Has(m)}
<1>1. \A m \in Nat : Has(m)
  <2> SUFFICES ASSUME N # {} PROVE FALSE
    OBVIOUS
  <2>1. PICK m \in N : \A y \in N : m <= y
    <3>1. N \in SUBSET Nat
      OBVIOUS
    <3> HIDE DEF N
    <3> QED BY <3>1, HasLeast
  <2>2. m \in Nat /\ ~Has(m)
    OBVIOUS
  <2>3. CASE m = 0
    <3>0. PICK g : g \in [D -> V]
      <4>1. CASE D = {}
        <5>1. [p \in D |-> p] \in [D -> V]
          BY <4>1
        <5> QED BY <5>1
      <4>2. CASE D # {}
        <5>1. PICK v0 : v0 \in V
          BY <4>2
        <5>2. [p \in D |-> v0] \in [D -> V]
          BY <5>1
        <5> QED BY <5>2
      <4> QED BY <4>1, <4>2
    <3>1. g \in [D -> V]
      BY <3>0
    <3>2. Upto(g, 0)
      OBVIOUS
    <3> QED BY <2>2, <2>3, <3>1, <3>2
  <2>4. CASE m # 0
    <3>1. m - 1 \in Nat /\ ~(m <= m - 1)
      BY <2>2, <2>4
    <3>2. PICK g \in [D -> V] : Upto(g, m - 1)
      BY <2>1, <3>1
    <3>3. PICK h : h = F[g]
      OBVIOUS
    <3>4. h \in [D -> V]
      BY <3>3
    <3>5. ASSUME NEW p \in D, rank[p] < m PROVE h[p] = F[h][p]
      <4>1. \A q \in D : rank[q] < rank[p] => g[q] = h[q]
        BY <2>2, <3>2, <3>3, <3>5
      <4>2. F[g][p] = F[h][p]
        BY <1>0, <3>4, <4>1
      <4> QED BY <3>3, <4>2
    <3>6. Upto(h, m)
      BY <3>5
    <3> QED BY <2>2, <3>4, <3>6
  <2> QED BY <2>3, <2>4
<1>2. ASSUME NEW g \in [D -> V], NEW h \in [D -> V], NEW m \in Nat, NEW k \in Nat,
             Upto(g, m), Upto(h, k), NEW p \in D, rank[p] < m, rank[p] < k
      PROVE  g[p] = h[p]
  <2> DEFINE Bad == {q \in D : rank[q] < m /\ rank[q] < k /\ g[q] # h[q]}
  <2> SUFFICES ASSUME Bad # {} PROVE FALSE
    BY <1>2
  <2>1. PICK b \in Bad : \A q \in D : rank[q] < rank[b] => q \notin Bad
    <3>1. Bad \in SUBSET D
      OBVIOUS
    <3> HIDE DEF Bad
    <3> QED BY <3>1, LeastBad
  <2>2. \A q \in D : rank[q] < rank[b] => g[q] = h[q]
    BY <2>1
  <2>3. F[g][b] = F[h][b]
    BY <1>0, <2>2
  <2> QED BY <1>2, <2>3
<1> DEFINE G(m) == CHOOSE g \in [D -> V] : Upto(g, m)
           f == [p \in D |-> G(rank[p] + 1)[p]]
<1>3. \A m \in Nat : G(m) \in [D -> V] /\ Upto(G(m), m)
  BY <1>1
<1> HIDE DEF G
<1>4. f \in [D -> V]
  BY <1>3
<1>5. ASSUME NEW p \in D PROVE f[p] = F[f][p]
  <2>1. PICK g \in [D -> V] : g = G(rank[p] + 1) /\ Upto(g, rank[p] + 1)
    BY <1>3
  <2>2. \A q \in D : rank[q] < rank[p] + 1 => f[q] = g[q]
    <3> TAKE q \in D
    <3> HAVE rank[q] < rank[p] + 1
    <3>1. f[q] = G(rank[q] + 1)[q] /\ rank[q] + 1 \in Nat /\ rank[p] + 1 \in Nat
      OBVIOUS
    <3>2. G(rank[q] + 1) \in [D -> V] /\ Upto(G(rank[q] + 1), rank[q] + 1)
      BY <1>3, <3>1
    <3>3. rank[q] < rank[q] + 1
      OBVIOUS
    <3> HIDE DEF Upto, f
    <3> QED BY <1>2, <2>1, <3>1, <3>2, <3>3
  <2>3. \A q \in D : rank[q] < rank[p] => f[q] = g[q]
    BY <2>2
  <2>4. F[f][p] = F[g][p]
    <3> HIDE DEF f
    <3> QED BY <1>0, <1>4, <2>3
  <2> QED BY <2>1, <2>2, <2>4
<1>6. F[f] = f
  <2> HIDE DEF f
  <2>1. F[f] \in [D -> V]
    BY <1>4
  <2> QED BY <1>4, <1>5, <2>1
<1>7. \E x : x \in [D -> V] /\ x = F[x]
  BY <1>4, <1>6
<1> HIDE DEF f
<1> QED BY <1>7 DEF Solves

(* Two functions that agree wherever they agree below.                     *)
AgreesUp(D, rank, e, f) ==
  \A p \in D : (\A q \in D : rank[q] < rank[p] => f[q] = e[q]) => f[p] = e[p]

(* There is no other.                                                      *)
LEMMA OneSolution ==
  ASSUME NEW D, NEW rank \in [D -> Nat], NEW e, NEW f,
         e = [p \in D |-> e[p]], f = [p \in D |-> f[p]], AgreesUp(D, rank, e, f)
  PROVE  f = e
<1> DEFINE Bad == {p \in D : f[p] # e[p]}
<1>1. Bad = {}
  <2> SUFFICES ASSUME Bad # {} PROVE FALSE
    OBVIOUS
  <2>1. Bad \in SUBSET D
    OBVIOUS
  <2>2. PICK p \in Bad : \A q \in D : rank[q] < rank[p] => q \notin Bad
    <3> HIDE DEF Bad
    <3> QED BY <2>1, LeastBad
  <2> QED BY <2>2 DEF AgreesUp
<1>2. \A p \in D : f[p] = e[p]
  BY <1>1
<1> QED BY <1>2

(* Quotient and remainder are what division gives.                         *)
LEMMA DivUnique ==
  ASSUME NEW b \in Nat \ {0}, NEW q \in Int, NEW v \in Int, q * b <= v, v < q * b + b
  PROVE  v \div b = q /\ v % b = v - q * b
<1> DEFINE d == v \div b
<1>1. d \in Int /\ d * b <= v /\ v < d * b + b /\ v % b = v - d * b
  OBVIOUS
<1>2. \A x, y \in Int : x > y => x * b >= y * b + b
  <2>1. \A x, y \in Int : x > y => (x - y - 1) * b >= 0
    OBVIOUS
  <2>2. \A x, y \in Int : (x - y - 1) * b = x * b - y * b - b
    OBVIOUS
  <2> QED BY <2>1, <2>2
<1>3. q * b \in Int /\ d * b \in Int
  BY <1>1
<1> HIDE DEF d
<1>4. ~(d > q) /\ ~(q > d)
  BY <1>1, <1>2, <1>3
<1>5. d = q
  BY <1>1, <1>4
<1> QED BY <1>1, <1>5 DEF d

(* What holds for no least number fails for none.                          *)
LEMMA AllNumbers ==
  ASSUME NEW G \in SUBSET Nat, \A n \in Nat : (\A k \in Nat : k < n => k \in G) => n \in G
  PROVE  G = Nat
<1> SUFFICES ASSUME G # Nat PROVE FALSE
  OBVIOUS
<1>1. Nat \ G # {} /\ Nat \ G \in SUBSET Nat
  OBVIOUS
<1>2. PICK n \in Nat \ G : \A y \in Nat \ G : n <= y
  BY <1>1, HasLeast
<1>3. \A k \in Nat : k < n => k \in G
  BY <1>2
<1> QED BY <1>2, <1>3

(* A recursion over numbers that only looks at lower ones.                 *)
Lower(D, V, F) ==
  /\ D \in SUBSET Nat /\ V # {}
  /\ F \in [[D -> V] -> [D -> V]]
  /\ \A g, h \in [D -> V], p \in D : (\A q \in D : q < p => g[q] = h[q]) => F[g][p] = F[h][p]

(* The function that a recursion over numbers describes obeys it.          *)
LEMMA NumberRec ==
  ASSUME NEW D, NEW V, NEW F, Lower(D, V, F)
  PROVE  \E f : f \in [D -> V] /\ f = F[f]
<1> DEFINE rank == [p \in D |-> p]
<1>1. rank \in [D -> Nat] /\ \A p \in D : rank[p] = p
  BY DEF Lower
<1> HIDE DEF rank
<1>2. Recursion(D, V, rank, F)
  BY <1>1 DEF Recursion, Lower
<1>3. PICK f : Solves(D, V, F, f)
  BY <1>2, WFRec, Zenon
<1> QED BY <1>3 DEF Solves

-----------------------------------------------------------------------------
(* Powers.                                                                 *)
LEMMA PowerRule ==
  ASSUME NEW b \in Nat \ {0}
  PROVE  /\ Power(b, 0) = 1
         /\ \A k \in Nat : Power(b, k) \in Nat \ {0} /\ Power(b, k + 1) = b * Power(b, k)
<1> DEFINE V == Nat \ {0}
           F == [g \in [Nat -> V] |-> [k \in Nat |-> IF k = 0 THEN 1 ELSE b * g[k - 1]]]
           Eq(f) == f = [k \in Nat |-> IF k = 0 THEN 1 ELSE b * f[k - 1]]
<1>1. F \in [[Nat -> V] -> [Nat -> V]]
  <2>1. ASSUME NEW g \in [Nat -> V], NEW k \in Nat, k # 0 PROVE b * g[k - 1] \in V
    <3>1. k - 1 \in Nat
      BY <2>1
    <3>2. g[k - 1] \in Nat /\ g[k - 1] # 0
      BY <3>1
    <3>3. \A x, y \in Nat \ {0} : x * y \in Nat /\ x * y # 0
      OBVIOUS
    <3> QED BY <3>2, <3>3
  <2> QED BY <2>1
<1>2. PICK e : e \in [Nat -> V] /\ e = F[e]
  <2>1. ASSUME NEW g \in [Nat -> V], NEW h \in [Nat -> V], NEW p \in Nat,
               \A q \in Nat : q < p => g[q] = h[q]
        PROVE  F[g][p] = F[h][p]
    <3>1. p # 0 => p - 1 \in Nat /\ p - 1 < p
      OBVIOUS
    <3>2. p # 0 => g[p - 1] = h[p - 1]
      BY <2>1, <3>1
    <3> QED BY <3>2
  <2>2. Nat \in SUBSET Nat /\ V # {}
    OBVIOUS
  <2> HIDE DEF F, V
  <2>3. Lower(Nat, V, F)
    BY <1>1, <2>1, <2>2 DEF Lower
  <2> QED BY <2>3, NumberRec
<1>3. Eq(e)
  BY <1>2
<1> DEFINE f == CHOOSE x : Eq(x)
<1>4. Eq(f)
  <2> HIDE DEF Eq
  <2> QED BY <1>3
<1>5. \A k \in Nat : Power(b, k) = f[k]
  BY DEF Power
<1> HIDE DEF f
<1>6. f[0] = 1 /\ \A k \in Nat : f[k + 1] = b * f[k]
  <2>1. \A k \in Nat : k + 1 \in Nat /\ k + 1 # 0 /\ (k + 1) - 1 = k
    OBVIOUS
  <2> QED BY <1>4, <2>1
<1>7. \A k \in Nat : f[k] \in V
  <2> DEFINE G == {k \in Nat : f[k] \in V}
  <2>1. ASSUME NEW n \in Nat, \A k \in Nat : k < n => k \in G PROVE n \in G
    <3>1. CASE n = 0
      BY <1>6, <3>1
    <3>2. CASE n # 0
      <4>1. n - 1 \in Nat /\ n - 1 < n /\ (n - 1) + 1 = n
        BY <3>2
      <4>2. f[n - 1] \in V
        BY <2>1, <4>1
      <4>3. f[n] = b * f[n - 1]
        BY <1>6, <4>1
      <4>4. \A x, y \in Nat \ {0} : x * y \in Nat \ {0}
        OBVIOUS
      <4> QED BY <4>2, <4>3, <4>4
    <3> QED BY <3>1, <3>2
  <2>2. G \in SUBSET Nat
    OBVIOUS
  <2> HIDE DEF G
  <2>3. G = Nat
    BY <2>1, <2>2, AllNumbers
  <2> QED BY <2>3 DEF G
<1> QED BY <1>5, <1>6, <1>7

(* A power is a number.                                                    *)
LEMMA PowerType ==
  ASSUME NEW b \in Nat \ {0}, NEW k \in Nat
  PROVE  Power(b, k) \in Nat /\ Power(b, k) >= 1
BY PowerRule

(* Powers grow with the exponent and with the base.                        *)
LEMMA PowerGrows ==
  ASSUME NEW b \in Nat, b >= 2, NEW i \in Nat, NEW j \in Nat, i < j
  PROVE  Power(b, i) < Power(b, j)
<1> DEFINE G == {n \in Nat : i < n => Power(b, i) < Power(b, n)}
<1>1. b \in Nat \ {0}
  OBVIOUS
<1>2. ASSUME NEW n \in Nat, \A k \in Nat : k < n => k \in G PROVE n \in G
  <2> SUFFICES ASSUME i < n PROVE Power(b, i) < Power(b, n)
    OBVIOUS
  <2>1. n - 1 \in Nat /\ (n - 1) + 1 = n /\ n - 1 < n /\ (i = n - 1 \/ i < n - 1)
    OBVIOUS
  <2>2. Power(b, n) = b * Power(b, n - 1)
    BY <1>1, <2>1, PowerRule
  <2>3. Power(b, i) <= Power(b, n - 1)
    <3>1. Power(b, i) \in Nat
      BY <1>1, PowerType
    <3>2. i = n - 1 \/ Power(b, i) < Power(b, n - 1)
      BY <1>2, <2>1
    <3>3. Power(b, n - 1) \in Nat
      BY <1>1, <2>1, PowerType
    <3> QED BY <3>1, <3>2, <3>3
  <2> DEFINE p == Power(b, n - 1)
  <2>4. p \in Nat /\ p >= 1 /\ Power(b, i) \in Nat
    BY <1>1, <2>1, PowerType
  <2> HIDE DEF p
  <2>5. b * p >= 2 * p
    <3>1. (b - 2) * p >= 0 /\ (b - 2) * p = b * p - 2 * p
      BY <2>4
    <3>2. b * p \in Int
      BY <2>4
    <3> QED BY <2>4, <3>1, <3>2
  <2>6. b * p \in Int
    BY <2>4
  <2> QED BY <2>2, <2>3, <2>4, <2>5, <2>6 DEF p
<1>3. G \in SUBSET Nat
  OBVIOUS
<1> HIDE DEF G
<1>4. G = Nat
  BY <1>2, <1>3, AllNumbers
<1> QED BY <1>4 DEF G

(* Powers grow with the base.                                              *)
LEMMA PowerOfLarger ==
  ASSUME NEW b \in Nat, b >= 2, NEW k \in Nat
  PROVE  Power(2, k) <= Power(b, k)
<1> DEFINE G == {n \in Nat : Power(2, n) <= Power(b, n)}
<1>1. b \in Nat \ {0} /\ 2 \in Nat \ {0}
  OBVIOUS
<1>2. ASSUME NEW n \in Nat, \A m \in Nat : m < n => m \in G PROVE n \in G
  <2>1. CASE n = 0
    BY <1>1, <2>1, PowerRule
  <2>2. CASE n # 0
    <3>1. n - 1 \in Nat /\ (n - 1) + 1 = n /\ n - 1 < n
      BY <2>2
    <3> DEFINE p == Power(b, n - 1)
               q == Power(2, n - 1)
    <3>2. Power(b, n) = b * p /\ Power(2, n) = 2 * q
      BY <1>1, <3>1, PowerRule
    <3>3. p \in Nat /\ q \in Nat
      BY <1>1, <3>1, PowerType
    <3>4. q <= p
      BY <1>2, <3>1
    <3> HIDE DEF p, q
    <3>5. b * p >= 2 * p /\ b * p \in Int
      <4>1. (b - 2) * p >= 0 /\ (b - 2) * p = b * p - 2 * p /\ b * p \in Int
        BY <3>3
      <4> QED BY <3>3, <4>1
    <3>6. 2 * q <= b * p
      BY <3>3, <3>4, <3>5
    <3> QED BY <3>2, <3>6
  <2> QED BY <2>1, <2>2
<1>3. G \in SUBSET Nat
  OBVIOUS
<1> HIDE DEF G
<1>4. G = Nat
  BY <1>2, <1>3, AllNumbers
<1> QED BY <1>4 DEF G

(* The power of a sum is a product.                                        *)
LEMMA PowerSum ==
  ASSUME NEW b \in Nat \ {0}, NEW i \in Nat, NEW j \in Nat
  PROVE  Power(b, i + j) = Power(b, i) * Power(b, j)
<1> DEFINE G == {n \in Nat : Power(b, n + j) = Power(b, n) * Power(b, j)}
<1>2. ASSUME NEW n \in Nat, \A m \in Nat : m < n => m \in G PROVE n \in G
  <2>1. CASE n = 0
    <3>1. Power(b, 0) = 1 /\ Power(b, j) \in Nat /\ 0 + j = j
      BY PowerRule, PowerType
    <3>2. 1 * Power(b, j) = Power(b, j)
      BY <3>1
    <3> QED BY <2>1, <3>1, <3>2
  <2>2. CASE n # 0
    <3>1. n - 1 \in Nat /\ (n - 1) + 1 = n /\ n - 1 < n /\ (n - 1) + j \in Nat /\ ((n - 1) + j) + 1 = n + j
      BY <2>2
    <3> DEFINE p == Power(b, n - 1)
               q == Power(b, j)
    <3>2. Power(b, n) = b * p /\ Power(b, n + j) = b * Power(b, (n - 1) + j)
      BY <3>1, PowerRule
    <3>3. p \in Nat /\ q \in Nat
      BY <3>1, PowerType
    <3>4. Power(b, (n - 1) + j) = p * q
      BY <1>2, <3>1
    <3> HIDE DEF p, q
    <3>5. b * (p * q) = (b * p) * q
      BY <3>3
    <3>6. Power(b, n + j) = Power(b, n) * q
      BY <3>2, <3>4, <3>5
    <3> QED BY <3>6 DEF q
  <2> QED BY <2>1, <2>2
<1>3. G \in SUBSET Nat
  OBVIOUS
<1> HIDE DEF G
<1>4. G = Nat
  BY <1>2, <1>3, AllNumbers
<1> QED BY <1>4 DEF G

-----------------------------------------------------------------------------
(* The pieces of all calls, and the characters there are.                  *)
AllCalls == UNION {ToSet(p) : p \in Programs \cup {<<Fatal>>}}
AllPieces == UNION {ToSet(call) : call \in AllCalls}
Literals ==
  {"0", "1", "2", "3", "4", "5", "6", "7", "8", "9", "A", "B", "C", "D", "E", "F",
   "a", "b", "c", "d", "e", "f", "(", "n", "i", "l", ")", "-", "%", "h", "s", "u", "x", "X",
   "p", "P"}
Chars ==
  Literals \cup (UNION {ToSet(q.chars) : q \in AllPieces}) \cup (UNION {ToSet(q.arg.str) : q \in AllPieces})

-----------------------------------------------------------------------------
(* The digits of a number.                                                 *)
LEMMA DivSmaller ==
  ASSUME NEW n \in Nat \ {0}, NEW b \in Nat, b >= 2
  PROVE  n \div b \in Nat /\ n \div b < n /\ (n \div b) * b <= n /\ n < (n \div b) * b + b
<1> DEFINE q == n \div b
<1>1. q \in Nat /\ q * b <= n /\ n < q * b + b
  OBVIOUS
<1> HIDE DEF q
<1>2. q * b >= 2 * q /\ q * b \in Int
  <2>1. (b - 2) * q >= 0 /\ (b - 2) * q = q * b - 2 * q /\ q * b \in Int
    BY <1>1
  <2> QED BY <1>1, <2>1
<1>3. q < n
  BY <1>1, <1>2
<1> QED BY <1>1, <1>3 DEF q

(* Dividing twice is dividing by the product.                              *)
LEMMA DivDiv ==
  ASSUME NEW n \in Nat, NEW b \in Nat \ {0}, NEW c \in Nat \ {0}
  PROVE  (n \div b) \div c = n \div (b * c)
<1> DEFINE q == n \div b
           p == q \div c
<1>1. q \in Nat /\ q * b <= n /\ n < q * b + b
  OBVIOUS
<1> HIDE DEF q
<1>2. p \in Nat /\ p * c <= q /\ q < p * c + c
  BY <1>1
<1> HIDE DEF p
<1>3. p * c \in Nat /\ q * b \in Nat /\ b * c \in Nat /\ p * (b * c) = (p * c) * b
  BY <1>1, <1>2
<1>4. (p * c) * b <= q * b
  <2>1. (q - p * c) * b >= 0 /\ (q - p * c) * b = q * b - (p * c) * b /\ (p * c) * b \in Int
    BY <1>1, <1>2, <1>3
  <2> QED BY <1>3, <2>1
<1>5. q * b + b <= (p * c) * b + c * b
  <2> DEFINE r == p * c
  <2>1. r \in Nat /\ q <= r + c - 1 /\ r + c - 1 - q >= 0
    BY <1>1, <1>2, <1>3
  <2> HIDE DEF r
  <2>2. (r + c - 1 - q) * b >= 0 /\ (r + c - 1 - q) * b = r * b + c * b - b - q * b
    BY <1>1, <2>1
  <2>3. r * b \in Int /\ c * b \in Int /\ q * b \in Int
    BY <1>1, <2>1
  <2>4. q * b + b <= r * b + c * b
    BY <2>2, <2>3
  <2> QED BY <2>4 DEF r
<1>6. b * c \in Nat \ {0} /\ c * b = b * c
  <2>1. b * c >= b
    <3>1. (c - 1) * b >= 0 /\ (c - 1) * b = b * c - b /\ b * c \in Int
      OBVIOUS
    <3> QED BY <3>1
  <2> QED BY <1>3, <2>1
<1> DEFINE m == b * c
<1>7. p * m <= n /\ n < p * m + m
  <2>1. p * m \in Int /\ (p * c) * b \in Int /\ p * m = (p * c) * b
    BY <1>2, <1>3
  <2> HIDE DEF m
  <2>2. c * b = m /\ m \in Int
    BY <1>6 DEF m
  <2> QED BY <1>1, <1>3, <1>4, <1>5, <2>1, <2>2
<1> HIDE DEF m
<1>8. n \div m = p
  BY <1>2, <1>6, <1>7, DivUnique DEF m
<1> QED BY <1>8 DEF m, p, q

(* The digit of a number at a place, and how many digits it has.           *)
DigitAt(n, base, digits, k) == digits[((n \div Power(base, k)) % base) + 1]
LengthIs(base, n, w) == Power(base, w) > n /\ (w = 0 \/ Power(base, w - 1) <= n)

Base(base, digits) ==
  /\ base \in Nat /\ base >= 2
  /\ digits \in Seq(Chars) /\ Len(digits) >= base

(* The digits are characters.                                              *)
LEMMA DigitType ==
  ASSUME NEW base, NEW digits, Base(base, digits), NEW n \in Nat
  PROVE  digits[(n % base) + 1] \in Chars
<1>1. n % base \in 0..(base - 1)
  BY DEF Base
<1>2. (n % base) + 1 \in 1..Len(digits)
  BY <1>1 DEF Base
<1> QED BY <1>2 DEF Base

(* A sequence with one element before it.                                  *)
LEMMA OneBefore ==
  ASSUME NEW S, NEW c \in S, NEW s \in Seq(S)
  PROVE  /\ <<c>> \o s \in Seq(S) /\ Len(<<c>> \o s) = Len(s) + 1 /\ Len(s) \in Nat
         /\ (<<c>> \o s)[1] = c
         /\ \A k \in 1..Len(<<c>> \o s) : k # 1 => (<<c>> \o s)[k] = s[k - 1] /\ k - 1 \in 1..Len(s)
         /\ <<c>> \o s # <<>> /\ Head(<<c>> \o s) = c /\ Tail(<<c>> \o s) = s
<1> DEFINE o == <<c>>
<1>1. o \in Seq(S) /\ Len(o) = 1 /\ o[1] = c
  OBVIOUS
<1> HIDE DEF o
<1>2. /\ o \o s \in Seq(S) /\ Len(o \o s) = Len(o) + Len(s) /\ Len(s) \in Nat
      /\ \A k \in 1..(Len(o) + Len(s)) : (o \o s)[k] = IF k <= Len(o) THEN o[k] ELSE s[k - Len(o)]
  <2>1. o \in Seq(S)
    BY <1>1
  <2>2. /\ o \o s \in Seq(S) /\ Len(o \o s) = Len(o) + Len(s)
        /\ \A k \in 1..Len(o) + Len(s) : (o \o s)[k] = IF k <= Len(o) THEN o[k] ELSE s[k - Len(o)]
    BY <2>1, ConcatProperties, Zenon
  <2>3. Len(s) \in Nat
    OBVIOUS
  <2> QED BY <2>2, <2>3
<1> DEFINE r == o \o s
<1> HIDE DEF r
<1>3. /\ r \in Seq(S) /\ Len(r) = Len(s) + 1 /\ r[1] = c
      /\ \A k \in 1..Len(r) : k # 1 => r[k] = s[k - 1] /\ k - 1 \in 1..Len(s)
  BY <1>1, <1>2 DEF r
<1>4. r # <<>> /\ Head(r) = c
  BY <1>2, <1>3
<1>5. Tail(r) = s
  <2>1. Tail(r) \in Seq(S) /\ Len(Tail(r)) = Len(s) /\ \A k \in 1..Len(s) : Tail(r)[k] = r[k + 1]
    BY <1>2, <1>3, <1>4
  <2>2. \A k \in 1..Len(s) : r[k + 1] = s[k]
    BY <1>2, <1>3
  <2> QED BY <2>1, <2>2, SeqEqual
<1> QED BY <1>2, <1>3, <1>4, <1>5 DEF r, o

(* The buffer of a number begins with its last digit; the rest is that of  *)
(* the number without it.                                                  *)
LEMMA BufferRule ==
  ASSUME NEW base, NEW digits, Base(base, digits)
  PROVE  /\ Buffer(0, base, digits) = <<>>
         /\ \A n \in Nat \ {0} :
              Buffer(n, base, digits) = <<digits[(n % base) + 1]>> \o Buffer(n \div base, base, digits)
<1> DEFINE V == Seq(Chars)
           Body(g, m) == IF m = 0 THEN <<>> ELSE <<digits[(m % base) + 1]>> \o g[m \div base]
           F == [g \in [Nat -> V] |-> [m \in Nat |-> Body(g, m)]]
           Eq(f) == f = [m \in Nat |-> IF m = 0 THEN <<>>
                                       ELSE <<digits[(m % base) + 1]>> \o f[m \div base]]
<1>0. base \in Nat /\ base >= 2
  BY DEF Base
<1>1. F \in [[Nat -> V] -> [Nat -> V]]
  <2>1. ASSUME NEW g \in [Nat -> V], NEW m \in Nat PROVE Body(g, m) \in V
    <3>1. CASE m = 0
      BY <3>1
    <3>2. CASE m # 0
      <4>1. m \div base \in Nat
        BY <1>0, <3>2, DivSmaller
      <4>2. g[m \div base] \in Seq(Chars)
        BY <4>1
      <4>3. digits[(m % base) + 1] \in Chars
        BY DigitType
      <4>4. \A c \in Chars, s \in Seq(Chars) : <<c>> \o s \in Seq(Chars)
        BY OneBefore
      <4> QED BY <3>2, <4>2, <4>3, <4>4
    <3> QED BY <3>1, <3>2
  <2> HIDE DEF Body, V
  <2> QED BY <2>1
<1>2. PICK e : e \in [Nat -> V] /\ e = F[e]
  <2>1. ASSUME NEW g \in [Nat -> V], NEW h \in [Nat -> V], NEW p \in Nat,
               \A q \in Nat : q < p => g[q] = h[q]
        PROVE  F[g][p] = F[h][p]
    <3>1. p # 0 => p \div base \in Nat /\ p \div base < p
      BY <1>0, DivSmaller
    <3>2. p # 0 => g[p \div base] = h[p \div base]
      BY <2>1, <3>1
    <3>3. Body(g, p) = Body(h, p)
      BY <3>2
    <3> HIDE DEF Body, V
    <3> QED BY <3>3
  <2>2. Nat \in SUBSET Nat /\ V # {}
    <3>1. <<>> \in V
      OBVIOUS
    <3> QED BY <3>1
  <2> HIDE DEF F, V
  <2>3. Lower(Nat, V, F)
    BY <1>1, <2>1, <2>2 DEF Lower
  <2> QED BY <2>3, NumberRec
<1>3. Eq(e)
  <2> HIDE DEF V
  <2> QED BY <1>2
<1> DEFINE f == CHOOSE x : Eq(x)
<1>4. Eq(f)
  <2> HIDE DEF Eq
  <2> QED BY <1>3
<1>5. \A m \in Nat : Buffer(m, base, digits) = f[m]
  BY DEF Buffer
<1> HIDE DEF f
<1>6. f[0] = <<>> /\ \A m \in Nat \ {0} : f[m] = <<digits[(m % base) + 1]>> \o f[m \div base]
  BY <1>4
<1>7. \A m \in Nat \ {0} : m \div base \in Nat
  BY <1>0, DivSmaller
<1> QED BY <1>5, <1>6, <1>7

(* The buffer holds the digits from the last one on.                       *)
Holds(s, n, base, digits) ==
  /\ s \in Seq(Chars) /\ LengthIs(base, n, Len(s))
  /\ \A k \in 1..Len(s) : s[k] = DigitAt(n, base, digits, k - 1)

(* A number has one digit more than the one without its last.              *)
LEMMA OneDigitMore ==
  ASSUME NEW base, NEW digits, Base(base, digits), NEW n \in Nat \ {0},
         NEW s, Holds(s, n \div base, base, digits)
  PROVE  Holds(<<digits[(n % base) + 1]>> \o s, n, base, digits)
<1> DEFINE q == n \div base
           c == digits[(n % base) + 1]
           r == <<c>> \o s
<1>0. base \in Nat /\ base >= 2 /\ base \in Nat \ {0}
  BY DEF Base
<1>1. q \in Nat /\ q * base <= n /\ n < q * base + base
  BY <1>0, DivSmaller
<1>2. c \in Chars
  BY DigitType
<1>3. s \in Seq(Chars) /\ Len(s) \in Nat
  BY DEF Holds
<1>4. /\ r \in Seq(Chars) /\ Len(r) = Len(s) + 1 /\ r[1] = c
      /\ \A k \in 1..Len(r) : k # 1 => r[k] = s[k - 1] /\ k - 1 \in 1..Len(s)
  <2> HIDE DEF c
  <2> QED BY <1>2, <1>3, OneBefore
<1>5. LengthIs(base, n, Len(r))
  <2> DEFINE w == Len(s)
  <2>1. Power(base, w) > q /\ (w = 0 \/ Power(base, w - 1) <= q)
    BY DEF Holds, LengthIs
  <2>2. Power(base, w + 1) = base * Power(base, w) /\ Power(base, w) \in Nat
    BY <1>0, <1>3, PowerRule
  <2>3. Power(base, w + 1) > n
    <3> DEFINE p == Power(base, w)
    <3> HIDE DEF p, q, w
    <3>1. p \in Nat /\ p - q - 1 >= 0
      BY <1>1, <2>1, <2>2 DEF p, q, w
    <3>2. (p - q - 1) * base >= 0 /\ (p - q - 1) * base = base * p - q * base - base
      BY <1>0, <1>1, <3>1
    <3>3. base * p \in Int /\ q * base \in Int
      BY <1>0, <1>1, <3>1
    <3>4. n < q * base + base
      BY <1>1
    <3>5. base * p > n
      BY <1>0, <3>2, <3>3, <3>4
    <3> QED BY <2>2, <3>5 DEF p
  <2>4. Power(base, w) <= n
    <3>1. CASE w = 0
      BY <1>0, <3>1, PowerRule
    <3>2. CASE w # 0
      <4> DEFINE p == Power(base, w - 1)
      <4>1. w - 1 \in Nat /\ (w - 1) + 1 = w
        BY <1>3, <3>2
      <4>2. Power(base, w) = base * p /\ p \in Nat
        BY <1>0, <4>1, PowerRule
      <4>3. p <= q
        BY <2>1, <3>2
      <4> HIDE DEF p, q, w
      <4>4. (q - p) * base >= 0 /\ (q - p) * base = q * base - base * p
        BY <1>0, <1>1, <4>2, <4>3
      <4>5. base * p \in Int /\ q * base \in Int
        BY <1>0, <1>1, <4>2
      <4> QED BY <1>1, <4>2, <4>4, <4>5
    <3> QED BY <3>1, <3>2
  <2>5. Len(r) = w + 1 /\ (w + 1) - 1 = w
    BY <1>3, <1>4
  <2> HIDE DEF w, r
  <2> QED BY <2>3, <2>4, <2>5 DEF LengthIs
<1>6. ASSUME NEW k \in 1..Len(r) PROVE r[k] = DigitAt(n, base, digits, k - 1)
  <2>1. CASE k = 1
    <3>1. Power(base, 0) = 1 /\ n \div 1 = n
      BY <1>0, PowerRule
    <3>2. DigitAt(n, base, digits, 0) = c
      BY <3>1 DEF DigitAt
    <3> HIDE DEF c, r
    <3> QED BY <1>4, <2>1, <3>2
  <2>2. CASE k # 1
    <3>1. r[k] = s[k - 1] /\ k - 1 \in 1..Len(s)
      BY <1>4, <2>2
    <3> HIDE DEF r, c
    <3>2. s[k - 1] = DigitAt(q, base, digits, (k - 1) - 1)
      BY <3>1 DEF Holds
    <3> DEFINE j == (k - 1) - 1
               p == Power(base, j)
    <3>3. j \in Nat /\ j + 1 = k - 1
      BY <1>3, <3>1
    <3> HIDE DEF j
    <3>4. Power(base, k - 1) = base * p /\ p \in Nat \ {0}
      BY <1>0, <3>3, PowerRule
    <3> HIDE DEF p
    <3>5. q \div p = n \div (base * p)
      BY <1>0, <3>4, DivDiv
    <3>6. s[k - 1] = digits[((q \div p) % base) + 1]
      BY <3>2 DEF DigitAt, j, p
    <3> QED BY <3>1, <3>4, <3>5, <3>6 DEF DigitAt
  <2> QED BY <2>1, <2>2
<1> HIDE DEF r
<1>7. Holds(r, n, base, digits)
  BY <1>4, <1>5, <1>6 DEF Holds
<1> QED BY <1>7 DEF r, c

(* The buffer is filled by all the digits, whatever the number.            *)
LEMMA BufferHolds ==
  ASSUME NEW base, NEW digits, Base(base, digits), NEW n \in Nat
  PROVE  Holds(Buffer(n, base, digits), n, base, digits)
<1> DEFINE Good(m) == Holds(Buffer(m, base, digits), m, base, digits)
           G == {m \in Nat : Good(m)}
<1>0. base \in Nat /\ base >= 2 /\ base \in Nat \ {0}
  BY DEF Base
<1>1. ASSUME NEW m \in Nat, \A k \in Nat : k < m => k \in G PROVE Good(m)
  <2>1. CASE m = 0
    <3>1. Buffer(m, base, digits) = <<>>
      BY <2>1, BufferRule
    <3>2. Power(base, 0) = 1
      BY <1>0, PowerRule
    <3>3. LengthIs(base, 0, 0)
      BY <3>2 DEF LengthIs
    <3>4. Holds(<<>>, 0, base, digits)
      <4>1. <<>> \in Seq(Chars) /\ Len(<<>>) = 0
        OBVIOUS
      <4> QED BY <3>3, <4>1 DEF Holds
    <3> QED BY <2>1, <3>1, <3>4
  <2>2. CASE m # 0
    <3>1. m \div base \in Nat /\ m \div base < m
      BY <1>0, <2>2, DivSmaller
    <3>2. Holds(Buffer(m \div base, base, digits), m \div base, base, digits)
      BY <1>1, <3>1
    <3>3. Buffer(m, base, digits) = <<digits[(m % base) + 1]>> \o Buffer(m \div base, base, digits)
      BY <2>2, BufferRule
    <3> QED BY <2>2, <3>2, <3>3, OneDigitMore
  <2> QED BY <2>1, <2>2
<1> HIDE DEF Good
<1>2. G = Nat
  <2>1. G \in SUBSET Nat /\ \A m \in Nat : (\A k \in Nat : k < m => k \in G) => m \in G
    BY <1>1
  <2> HIDE DEF G
  <2> QED BY <2>1, AllNumbers
<1>3. Good(n)
  BY <1>2
<1> QED BY <1>3 DEF Good

-----------------------------------------------------------------------------
(* What the buffer gives, backwards and behind its zeros, is the numeral.  *)
LEMMA LengthUnique ==
  ASSUME NEW base \in Nat, base >= 2, NEW n \in Nat, NEW v \in Nat, NEW w \in Nat,
         LengthIs(base, n, v), LengthIs(base, n, w)
  PROVE  v = w
<1>1. ASSUME NEW x \in Nat, NEW y \in Nat, LengthIs(base, n, x), LengthIs(base, n, y), x < y
      PROVE  FALSE
  <2>1. y - 1 \in Nat /\ (x = y - 1 \/ x < y - 1)
    BY <1>1
  <2>2. base \in Nat \ {0}
    OBVIOUS
  <2>3. Power(base, x) \in Nat /\ Power(base, y - 1) \in Nat
    BY <2>1, <2>2, PowerType
  <2>4. Power(base, x) <= Power(base, y - 1)
    <3>1. x = y - 1 \/ Power(base, x) < Power(base, y - 1)
      BY <2>1, PowerGrows
    <3> QED BY <2>3, <3>1
  <2>5. Power(base, x) > n /\ Power(base, y - 1) <= n
    BY <1>1 DEF LengthIs
  <2> QED BY <2>3, <2>4, <2>5
<1> QED BY <1>1

(* What is wide enough and not too wide is the length.                     *)
LEMMA LengthFound ==
  ASSUME NEW base \in Nat, base >= 2, NEW n \in Nat, n < LONG, NEW w \in Nat, LengthIs(base, n, w)
  PROVE  Length(base, n) = w
<1> DEFINE m == 8 * BYTE
<1>1. m \in Nat /\ LONG = Power(2, m) /\ base \in Nat \ {0}
  BY PortAssumption DEF LONG
<1> HIDE DEF m
<1>2. w <= m
  <2> SUFFICES ASSUME w > m PROVE FALSE
    BY <1>1
  <2>1. w - 1 \in Nat /\ w # 0 /\ (m = w - 1 \/ m < w - 1)
    BY <1>1
  <2>2. Power(base, w - 1) \in Nat /\ Power(base, m) \in Nat /\ Power(2, m) \in Nat
    <3>1. 2 \in Nat \ {0}
      OBVIOUS
    <3>2. \A k \in Nat : Power(base, k) \in Nat /\ Power(2, k) \in Nat
      BY <1>1, <3>1, PowerType
    <3> QED BY <1>1, <2>1, <3>2
  <2>3. Power(base, m) <= Power(base, w - 1)
    <3>1. m = w - 1 \/ Power(base, m) < Power(base, w - 1)
      BY <1>1, <2>1, PowerGrows
    <3> QED BY <2>2, <3>1
  <2>4. Power(2, m) <= Power(base, m)
    BY <1>1, PowerOfLarger
  <2>5. Power(base, w - 1) <= n
    BY <2>1 DEF LengthIs
  <2> QED BY <1>1, <2>2, <2>3, <2>4, <2>5
<1>3. Length(base, n) = CHOOSE v \in 0..m : LengthIs(base, n, v)
  BY DEF Length, LengthIs, m
<1>4. w \in 0..m
  BY <1>1, <1>2
<1>5. \A v \in 0..m : LengthIs(base, n, v) => v = w
  BY <1>1, LengthUnique
<1> QED BY <1>3, <1>4, <1>5

(* Before the first digit there are zeros.                                 *)
LEMMA ZerosBefore ==
  ASSUME NEW base, NEW digits, Base(base, digits), digits[1] = "0",
         NEW n \in Nat, NEW w \in Nat, LengthIs(base, n, w), NEW k \in Nat, k >= w
  PROVE  DigitAt(n, base, digits, k) = "0"
<1>1. base \in Nat /\ base >= 2 /\ base \in Nat \ {0}
  BY DEF Base
<1> DEFINE p == Power(base, k)
<1>2. p \in Nat \ {0} /\ Power(base, w) \in Nat
  BY <1>1, PowerRule
<1>3. Power(base, w) <= p
  <2>1. w = k \/ Power(base, w) < p
    BY <1>1, PowerGrows
  <2> QED BY <1>2, <2>1
<1> HIDE DEF p
<1>4. n < p
  BY <1>2, <1>3 DEF LengthIs
<1>5. 0 * p = 0 /\ p \in Nat
  BY <1>2
<1>6. n \div p = 0
  <2>1. 0 \in Int /\ n \in Int /\ 0 * p <= n /\ n < 0 * p + p
    BY <1>2, <1>4, <1>5
  <2> QED BY <1>2, <2>1, DivUnique
<1>7. 0 % base = 0
  BY <1>1
<1> QED BY <1>6, <1>7 DEF DigitAt, p

(* print_unsigned and print_hex print numerals.                            *)
LEMMA NumeralPrinted ==
  ASSUME NEW base, NEW digits, Base(base, digits), digits[1] = "0",
         NEW n \in Nat, n < LONG, NEW zeros \in Nat
  PROVE  /\ Padded(zeros, Buffer(n, base, digits)) = Numeral(n, base, digits, zeros)
         /\ Numeral(n, base, digits, zeros) \in Seq(Chars)
<1> DEFINE b == Buffer(n, base, digits)
           l == Len(b)
           w == IF l > zeros THEN l ELSE zeros
           z == IF zeros > l THEN zeros - l ELSE 0
           pad == [k \in 1..z |-> "0"]
           rev == Reverse(b)
<1>0. base \in Nat /\ base >= 2 /\ base \in Nat \ {0}
  BY DEF Base
<1>1. Holds(b, n, base, digits)
  BY BufferHolds
<1> HIDE DEF b
<1>2. b \in Seq(Chars) /\ l \in Nat /\ LengthIs(base, n, l)
  BY <1>1 DEF Holds
<1>3. Length(base, n) = l
  BY <1>0, <1>2, LengthFound
<1>4. Numeral(n, base, digits, zeros) = [k \in 1..w |-> DigitAt(n, base, digits, w - k)]
  BY <1>3 DEF Numeral, DigitAt
<1>5. w \in Nat /\ z \in Nat /\ w = z + l
  BY <1>2
<1>6. Padded(zeros, b) = pad \o rev
  BY DEF Padded
<1> HIDE DEF l, w, z
<1>7. \A k \in 1..w : DigitAt(n, base, digits, w - k) \in Chars
  <2> TAKE k \in 1..w
  <2>1. w - k \in Nat
    BY <1>5
  <2>2. Power(base, w - k) \in Nat \ {0}
    BY <1>0, <2>1, PowerRule
  <2>3. \A p \in Nat \ {0} : n \div p \in Nat
    OBVIOUS
  <2> QED BY <2>2, <2>3, DigitType DEF DigitAt
<1> DEFINE num == [k \in 1..w |-> DigitAt(n, base, digits, w - k)]
<1>8. num \in Seq(Chars) /\ Len(num) = w /\ \A k \in 1..w : num[k] = DigitAt(n, base, digits, w - k)
  BY <1>5, <1>7
<1>9. pad \in Seq(Chars) /\ Len(pad) = z /\ \A k \in 1..z : pad[k] = "0"
  <2>1. "0" \in Chars
    BY DEF Chars, Literals
  <2> QED BY <1>5, <2>1
<1>10. rev \in Seq(Chars) /\ Len(rev) = l /\ \A k \in 1..l : rev[k] = b[l - k + 1]
  <2>1. rev = [k \in 1..l |-> b[l - k + 1]]
    BY DEF Reverse, l
  <2>2. \A k \in 1..l : b[l - k + 1] \in Chars
    <3>1. \A k \in 1..l : l - k + 1 \in 1..l
      BY <1>2
    <3> QED BY <1>2, <3>1 DEF l
  <2> HIDE DEF rev
  <2> QED BY <1>2, <2>1, <2>2
<1> HIDE DEF num, pad, rev
<1>11. /\ pad \o rev \in Seq(Chars) /\ Len(pad \o rev) = z + l
       /\ \A k \in 1..(z + l) : (pad \o rev)[k] = IF k <= z THEN pad[k] ELSE rev[k - z]
  <2>1. pad \in Seq(Chars) /\ rev \in Seq(Chars)
    BY <1>9, <1>10
  <2>2. /\ pad \o rev \in Seq(Chars) /\ Len(pad \o rev) = Len(pad) + Len(rev)
        /\ \A k \in 1..Len(pad) + Len(rev) : (pad \o rev)[k] = IF k <= Len(pad) THEN pad[k] ELSE rev[k - Len(pad)]
    BY <2>1, ConcatProperties, Zenon
  <2> QED BY <1>9, <1>10, <2>2
<1>12. ASSUME NEW k \in 1..w PROVE (pad \o rev)[k] = num[k]
  <2>1. CASE k <= z
    <3>1. w - k \in Nat /\ w - k >= l /\ k \in 1..z
      BY <1>2, <1>5, <2>1
    <3>2. DigitAt(n, base, digits, w - k) = "0"
      BY <1>2, <3>1, ZerosBefore
    <3> QED BY <1>5, <1>8, <1>9, <1>11, <2>1, <3>1, <3>2
  <2>2. CASE ~(k <= z)
    <3>1. k - z \in 1..l /\ l - (k - z) + 1 \in 1..l /\ (l - (k - z) + 1) - 1 = w - k
      BY <1>2, <1>5, <2>2
    <3>2. rev[k - z] = b[l - (k - z) + 1]
      BY <1>10, <3>1
    <3>3. \A j \in 1..l : b[j] = DigitAt(n, base, digits, j - 1)
      BY <1>1 DEF Holds, l
    <3>4. b[l - (k - z) + 1] = DigitAt(n, base, digits, w - k)
      BY <3>1, <3>3
    <3>5. (pad \o rev)[k] = rev[k - z]
      BY <1>5, <1>11, <2>2
    <3> QED BY <1>8, <3>2, <3>4, <3>5
  <2> QED BY <2>1, <2>2
<1>13. pad \o rev = num
  <2>1. pad \o rev \in Seq(Chars) /\ num \in Seq(Chars) /\ Len(pad \o rev) = Len(num)
        /\ \A k \in 1..Len(pad \o rev) : (pad \o rev)[k] = num[k]
    BY <1>5, <1>8, <1>11, <1>12
  <2> DEFINE s == pad \o rev
  <2> HIDE DEF s
  <2>2. s \in Seq(Chars) /\ num \in Seq(Chars) /\ Len(s) = Len(num) /\ \A k \in 1..Len(s) : s[k] = num[k]
    BY <2>1 DEF s
  <2>3. s = num
    BY <2>2, SeqEqual
  <2> QED BY <2>3 DEF s
<1> QED BY <1>4, <1>6, <1>8, <1>13 DEF b, num

-----------------------------------------------------------------------------
(* A flattened sequence is its first part and the flattened rest.          *)
LEMMA Joins ==
  ASSUME NEW S, NEW s \in Seq(S), NEW t \in Seq(S)
  PROVE  s \o t \in Seq(S)
BY ConcatProperties, Zenon

(* It makes no difference in which order they are joined.                  *)
LEMMA JoinedTwice ==
  ASSUME NEW S
  PROVE  \A s, t, u \in Seq(S) : (s \o t) \o u = s \o (t \o u)
<1> SUFFICES ASSUME NEW s \in Seq(S), NEW t \in Seq(S), NEW u \in Seq(S)
             PROVE  (s \o t) \o u = s \o (t \o u)
  OBVIOUS
<1> QED BY ConcatAssociative

Flat(ss) == CHOOSE f : f = [i \in 1..Len(ss) |-> IF i = 1 THEN ss[i] ELSE f[i - 1] \o ss[i]]

(* The parts are joined one by one.                                        *)
LEMMA FlatRule ==
  ASSUME NEW S, NEW ss \in Seq(Seq(S)), ss # <<>>
  PROVE  /\ FlattenSeq(ss) = Flat(ss)[Len(ss)] /\ Len(ss) \in Nat \ {0}
         /\ Flat(ss)[1] = ss[1]
         /\ \A i \in 1..Len(ss) : i # 1 => Flat(ss)[i] = Flat(ss)[i - 1] \o ss[i]
         /\ \A i \in 1..Len(ss) : Flat(ss)[i] \in Seq(S)
<1> DEFINE n == Len(ss)
           D == 1..n
           V == Seq(S)
           Body(g, i) == IF i = 1 THEN ss[i] ELSE g[i - 1] \o ss[i]
           F == [g \in [D -> V] |-> [i \in D |-> Body(g, i)]]
           Eq(f) == f = [i \in D |-> IF i = 1 THEN ss[i] ELSE f[i - 1] \o ss[i]]
<1>1. n \in Nat \ {0} /\ \A i \in D : ss[i] \in V
  <2>1. n \in Nat /\ \A i \in 1..n : ss[i] \in Seq(S)
    OBVIOUS
  <2>2. n # 0
    OBVIOUS
  <2> QED BY <2>1, <2>2
<1>2. FlattenSeq(ss) = (CHOOSE f : Eq(f))[n]
  <2>1. Len(ss) # 0
    BY <1>1
  <2> QED BY <2>1 DEF FlattenSeq
<1> HIDE DEF n, V
<1>a. D \in SUBSET Nat /\ 1 \in D /\ \A i \in D : i \in Nat /\ (i # 1 => i - 1 \in D /\ i - 1 < i)
  BY <1>1
<1> HIDE DEF D
<1>3. \A s, t \in V : s \o t \in V
  BY Joins DEF V
<1>4. F \in [[D -> V] -> [D -> V]]
  <2>1. ASSUME NEW g \in [D -> V], NEW i \in D PROVE Body(g, i) \in V
    <3>1. i # 1 => g[i - 1] \in V
      BY <1>a
    <3> QED BY <1>1, <1>3, <3>1
  <2> HIDE DEF Body
  <2> QED BY <2>1
<1>5. PICK e : e \in [D -> V] /\ e = F[e]
  <2>1. ASSUME NEW g \in [D -> V], NEW h \in [D -> V], NEW p \in D,
               \A q \in D : q < p => g[q] = h[q]
        PROVE  F[g][p] = F[h][p]
    <3>1. p # 1 => g[p - 1] = h[p - 1]
      BY <1>a, <2>1
    <3>2. Body(g, p) = Body(h, p)
      BY <3>1
    <3> HIDE DEF Body
    <3> QED BY <3>2
  <2>2. D \in SUBSET Nat /\ V # {}
    BY <1>1, <1>a
  <2> HIDE DEF F
  <2>3. Lower(D, V, F)
    BY <1>4, <2>1, <2>2 DEF Lower
  <2> QED BY <2>3, NumberRec
<1>6. Eq(e)
  BY <1>5
<1> DEFINE f == CHOOSE x : Eq(x)
<1>7. Eq(f)
  <2> HIDE DEF Eq
  <2> QED BY <1>6
<1>8. Flat(ss) = f
  BY DEF Flat, D, n
<1> HIDE DEF f
<1>9. f[1] = ss[1] /\ \A i \in D : i # 1 => f[i] = f[i - 1] \o ss[i]
  BY <1>a, <1>7
<1>10. \A i \in D : f[i] \in V
  <2> DEFINE G == {i \in Nat : i \in D => f[i] \in V}
  <2>1. ASSUME NEW i \in Nat, \A k \in Nat : k < i => k \in G PROVE i \in G
    <3> SUFFICES ASSUME i \in D PROVE f[i] \in V
      OBVIOUS
    <3>1. CASE i = 1
      BY <1>1, <1>9, <3>1
    <3>2. CASE i # 1
      <4>1. i - 1 \in D /\ i - 1 < i /\ i - 1 \in Nat
        BY <1>a, <3>2
      <4>2. f[i - 1] \in V /\ ss[i] \in V
        BY <1>1, <2>1, <4>1
      <4> QED BY <1>3, <1>9, <3>2, <4>2
    <3> QED BY <3>1, <3>2
  <2>2. G \in SUBSET Nat
    OBVIOUS
  <2> HIDE DEF G
  <2>3. G = Nat
    BY <2>1, <2>2, AllNumbers
  <2> QED BY <1>a, <2>3 DEF G
<1>11. FlattenSeq(ss) = f[n]
  BY <1>2 DEF f
<1> QED BY <1>1, <1>8, <1>9, <1>10, <1>11 DEF D, V, n

(* The first part stands before the others.                                *)
LEMMA FlattenFirst ==
  ASSUME NEW S, NEW ss \in Seq(Seq(S)), ss # <<>>
  PROVE  /\ FlattenSeq(ss) = ss[1] \o FlattenSeq(Tail(ss))
         /\ FlattenSeq(ss) \in Seq(S)
<1> DEFINE t == Tail(ss)
           n == Len(ss)
           f == Flat(ss)
           g == Flat(t)
<1>c. \A x, y, z \in Seq(S) : (x \o y) \o z = x \o (y \o z)
  <2> HIDE DEF f, g, t, n
  <2> QED BY JoinedTwice
<1>1. /\ FlattenSeq(ss) = f[n] /\ n \in Nat \ {0} /\ f[1] = ss[1]
      /\ \A i \in 1..n : i # 1 => f[i] = f[i - 1] \o ss[i]
      /\ \A i \in 1..n : f[i] \in Seq(S)
  BY FlatRule
<1>2. FlattenSeq(ss) \in Seq(S) /\ ss[1] \in Seq(S)
  <2>1. n \in 1..n /\ 1 \in 1..n
    BY <1>1
  <2> HIDE DEF f
  <2> QED BY <1>1, <2>1
<1>3. t \in Seq(Seq(S)) /\ Len(t) = n - 1 /\ \A i \in 1..(n - 1) : t[i] = ss[i + 1]
  OBVIOUS
<1>b. t = <<>> <=> n = 1
  <2> DEFINE V == Seq(S)
  <2> HIDE DEF V, t, n, f
  <2>1. t \in Seq(V) /\ Len(t) = n - 1 /\ n \in Nat \ {0}
    BY <1>1, <1>3 DEF V
  <2>2. t = <<>> <=> Len(t) = 0
    BY <2>1
  <2> QED BY <2>1, <2>2
<1>4. CASE n = 1
  <2>1. t = <<>>
    BY <1>4, <1>b
  <2>2. FlattenSeq(t) = <<>>
    <3>1. Len(t) = 0
      BY <1>3, <1>4
    <3> QED BY <2>1, <3>1 DEF FlattenSeq
  <2>3. ss[1] \o <<>> = ss[1]
    BY <1>2, ConcatEmptySeq
  <2> HIDE DEF f
  <2> QED BY <1>1, <1>2, <1>4, <2>2, <2>3
<1>5. CASE n # 1
  <2>1. t # <<>>
    BY <1>5, <1>b
  <2>2. /\ FlattenSeq(t) = g[n - 1] /\ g[1] = t[1]
        /\ \A i \in 1..(n - 1) : i # 1 => g[i] = g[i - 1] \o t[i]
        /\ \A i \in 1..(n - 1) : g[i] \in Seq(S)
    BY <1>3, <2>1, FlatRule
  <2> HIDE DEF f, g, t
  <2> DEFINE G == {i \in Nat : i \in 1..(n - 1) => f[i + 1] = ss[1] \o g[i]}
  <2>3. ASSUME NEW i \in Nat, \A k \in Nat : k < i => k \in G PROVE i \in G
    <3> SUFFICES ASSUME i \in 1..(n - 1) PROVE f[i + 1] = ss[1] \o g[i]
      OBVIOUS
    <3>1. f[i + 1] = f[i] \o ss[i + 1] /\ t[i] = ss[i + 1] /\ t[i] \in Seq(S)
      <4>1. i + 1 \in 1..n /\ i + 1 # 1 /\ (i + 1) - 1 = i
        BY <1>1
      <4>2. ss[i + 1] \in Seq(S)
        BY <4>1
      <4> QED BY <1>1, <1>3, <4>1, <4>2
    <3>2. CASE i = 1
      BY <1>1, <2>2, <3>1, <3>2
    <3>3. CASE i # 1
      <4>1. i - 1 \in 1..(n - 1) /\ i - 1 < i /\ i - 1 \in Nat /\ (i - 1) + 1 = i
        BY <1>1, <3>3
      <4>2. f[i] = ss[1] \o g[i - 1]
        BY <2>3, <4>1
      <4>3. g[i] = g[i - 1] \o t[i] /\ g[i - 1] \in Seq(S)
        BY <2>2, <3>3, <4>1
      <4>4. (ss[1] \o g[i - 1]) \o t[i] = ss[1] \o (g[i - 1] \o t[i])
        <5>1. ss[1] \in Seq(S) /\ g[i - 1] \in Seq(S) /\ t[i] \in Seq(S)
          BY <1>2, <3>1, <4>3
        <5>2. PICK x \in Seq(S), y \in Seq(S), z \in Seq(S) : x = ss[1] /\ y = g[i - 1] /\ z = t[i]
          BY <5>1
        <5>3. (x \o y) \o z = x \o (y \o z)
          BY <1>c
        <5> QED BY <5>2, <5>3
      <4> QED BY <3>1, <4>2, <4>3, <4>4
    <3> QED BY <3>2, <3>3
  <2>4. G \in SUBSET Nat
    OBVIOUS
  <2> HIDE DEF G
  <2>5. G = Nat
    BY <2>3, <2>4, AllNumbers
  <2>6. n - 1 \in Nat /\ n - 1 \in 1..(n - 1) /\ (n - 1) + 1 = n
    <3>1. n \in Nat \ {0}
      BY <1>1
    <3> HIDE DEF n
    <3> QED BY <1>5, <3>1
  <2>7. f[n] = ss[1] \o g[n - 1]
    BY <2>5, <2>6 DEF G
  <2> QED BY <1>1, <1>2, <2>2, <2>7 DEF t
<1> QED BY <1>2, <1>4, <1>5

Mapped(f, c) == FlattenSeq([k \in DOMAIN c |-> f[c[k]]])

(* The same for what a function makes of the elements of a sequence.       *)
LEMMA FlattenMap ==
  ASSUME NEW A, NEW S, NEW f \in [A -> Seq(S)], NEW call \in Seq(A)
  PROVE  /\ Mapped(f, call) \in Seq(S)
         /\ Mapped(f, <<>>) = <<>>
         /\ call # <<>> => /\ Head(call) \in A /\ Tail(call) \in Seq(A)
                           /\ Mapped(f, call) = f[Head(call)] \o Mapped(f, Tail(call))
<1> DEFINE m(c) == [k \in DOMAIN c |-> f[c[k]]]
<1>0. m(<<>>) = <<>> /\ FlattenSeq(<<>>) = <<>>
  <2>1. m(<<>>) = <<>>
    OBVIOUS
  <2>2. FlattenSeq(<<>>) = <<>>
    <3>1. Len(<<>>) = 0
      OBVIOUS
    <3> QED BY <3>1 DEF FlattenSeq
  <2> QED BY <2>1, <2>2
<1>a. FlattenSeq(m(<<>>)) = <<>> /\ <<>> \in Seq(S)
  <2>1. <<>> \in Seq(S)
    OBVIOUS
  <2> QED BY <1>0, <2>1, Zenon
<1>1. ASSUME NEW c \in Seq(A)
      PROVE  m(c) \in Seq(Seq(S)) /\ Len(m(c)) = Len(c) /\ \A k \in 1..Len(c) : m(c)[k] = f[c[k]]
  <2>1. Len(c) \in Nat /\ DOMAIN c = 1..Len(c) /\ \A k \in 1..Len(c) : c[k] \in A
    OBVIOUS
  <2>2. \A k \in 1..Len(c) : f[c[k]] \in Seq(S)
    BY <2>1
  <2> DEFINE V == Seq(S)
             r == [k \in 1..Len(c) |-> f[c[k]]]
  <2>3. r \in Seq(V) /\ Len(r) = Len(c) /\ \A k \in 1..Len(c) : r[k] = f[c[k]]
    <3> HIDE DEF V
    <3>1. \A k \in 1..Len(c) : f[c[k]] \in V
      BY <2>2 DEF V
    <3> QED BY <2>1, <3>1
  <2> QED BY <2>1, <2>3
<1>2. CASE call = <<>>
  BY <1>a, <1>2 DEF Mapped
<1>3. CASE call # <<>>
  <2>1. Head(call) \in A /\ Tail(call) \in Seq(A) /\ Len(call) \in Nat \ {0} /\ Head(call) = call[1]
        /\ Len(Tail(call)) = Len(call) - 1 /\ \A k \in 1..(Len(call) - 1) : Tail(call)[k] = call[k + 1]
    BY <1>3
  <2> DEFINE ss == m(call)
             tt == m(Tail(call))
  <2>2. ss \in Seq(Seq(S)) /\ Len(ss) = Len(call) /\ \A k \in 1..Len(call) : ss[k] = f[call[k]]
    BY <1>1
  <2>3. tt \in Seq(Seq(S)) /\ Len(tt) = Len(call) - 1 /\ \A k \in 1..(Len(call) - 1) : tt[k] = f[call[k + 1]]
    BY <1>1, <2>1
  <2> HIDE DEF ss, tt
  <2> DEFINE V == Seq(S)
  <2>4. ss # <<>> /\ ss[1] = f[Head(call)]
    BY <2>1, <2>2
  <2>5. Tail(ss) = tt
    <3> HIDE DEF V
    <3>0. ss \in Seq(V) /\ tt \in Seq(V)
      BY <2>2, <2>3 DEF V
    <3>1. Tail(ss) \in Seq(V) /\ Len(Tail(ss)) = Len(tt) /\ \A k \in 1..Len(tt) : Tail(ss)[k] = ss[k + 1]
      BY <2>1, <2>2, <2>3, <2>4, <3>0
    <3>2. \A k \in 1..Len(tt) : k + 1 \in 1..Len(call) /\ k \in 1..(Len(call) - 1)
      BY <2>1, <2>3
    <3>3. \A k \in 1..Len(tt) : Tail(ss)[k] = tt[k]
      BY <2>2, <2>3, <3>1, <3>2
    <3> QED BY <3>0, <3>1, <3>3, SeqEqual
  <2>6. FlattenSeq(ss) = ss[1] \o FlattenSeq(tt) /\ FlattenSeq(ss) \in Seq(S)
    BY <2>2, <2>4, <2>5, FlattenFirst
  <2> QED BY <1>a, <2>1, <2>4, <2>6 DEF ss, tt, Mapped
<1> QED BY <1>2, <1>3

-----------------------------------------------------------------------------
(* Digits and what a directive is made of.                                 *)
LEMMA DigitFacts ==
  /\ Digit \in Seq(Chars) /\ Len(Digit) = 10 /\ Digit[1] = "0" /\ Digit[2] = "1"
  /\ \A d \in ToSet(Digit) : /\ IsDigit(d) /\ Number(d) \in 0..9 /\ (Number(d) = 0 => d = "0")
                             /\ d \in Literals
  /\ "0" \in ToSet(Digit)
  /\ \A c \in {"l", "h", "%"} \cup Conversions : ~IsDigit(c) /\ c # "0"
<1>1. Len(Digit) = 10 /\ Digit[1] = "0" /\ Digit[2] = "1" /\ DOMAIN Digit = 1..10
  BY DEF Digit
<1>2. \A i \in 1..10 : Digit[i] \in {"0", "1", "2", "3", "4", "5", "6", "7", "8", "9"}
  BY DEF Digit
<1>3. \A i \in 1..10 : Digit[i] \in Literals
  BY <1>2 DEF Literals
<1>4. Digit \in Seq(Chars)
  <2>1. Digit = [i \in 1..10 |-> Digit[i]]
    BY DEF Digit
  <2>2. \A i \in 1..10 : Digit[i] \in Chars
    BY <1>3 DEF Chars
  <2>3. [i \in 1..10 |-> Digit[i]] \in Seq(Chars)
    BY <2>2
  <2> QED BY <2>1, <2>3, Zenon
<1>5. ASSUME NEW d \in ToSet(Digit)
      PROVE  IsDigit(d) /\ Number(d) \in 0..9 /\ (Number(d) = 0 => d = "0") /\ d \in Literals
  <2>1. PICK i \in 1..10 : d = Digit[i]
    BY <1>1 DEF ToSet
  <2> DEFINE j == CHOOSE k \in 1..10 : Digit[k] = d
  <2>2. j \in 1..10 /\ Digit[j] = d
    BY <2>1
  <2>3. Number(d) = j - 1
    BY DEF Number
  <2> HIDE DEF j
  <2>4. Number(d) = 0 => d = "0"
    BY <1>1, <2>2, <2>3
  <2> QED BY <1>3, <2>1, <2>2, <2>3, <2>4 DEF IsDigit
<1>6. "0" \in ToSet(Digit)
  BY <1>1 DEF ToSet
<1>7. \A c \in {"l", "h", "%"} \cup Conversions : ~IsDigit(c) /\ c # "0"
  BY <1>2 DEF IsDigit, Conversions
<1> QED BY <1>1, <1>4, <1>5, <1>6, <1>7

(* The digits for base 10, 16 and 2.                                       *)
LEMMA BaseFacts ==
  /\ Base(2, Digit) /\ Base(10, Digit)
  /\ \A cap \in BOOLEAN : Base(16, HexDigit(cap)) /\ HexDigit(cap)[1] = "0"
<1>1. Base(2, Digit) /\ Base(10, Digit)
  BY DigitFacts DEF Base
<1>2. ASSUME NEW cap \in BOOLEAN PROVE Base(16, HexDigit(cap)) /\ HexDigit(cap)[1] = "0"
  <2> DEFINE six == IF cap THEN <<"A", "B", "C", "D", "E", "F">> ELSE <<"a", "b", "c", "d", "e", "f">>
  <2>1. six \in Seq(Chars) /\ Len(six) = 6
    <3>1. {"A", "B", "C", "D", "E", "F", "a", "b", "c", "d", "e", "f"} \subseteq Chars
      BY DEF Chars, Literals
    <3>2. <<"A", "B", "C", "D", "E", "F">> \in Seq(Chars) /\ <<"a", "b", "c", "d", "e", "f">> \in Seq(Chars)
      BY <3>1
    <3> QED BY <3>2
  <2> HIDE DEF six
  <2>2. Digit \in Seq(Chars) /\ Len(Digit) = 10 /\ Digit[1] = "0"
    BY DigitFacts
  <2>3. /\ Digit \o six \in Seq(Chars) /\ Len(Digit \o six) = Len(Digit) + Len(six)
        /\ \A k \in 1..Len(Digit) + Len(six) :
             (Digit \o six)[k] = IF k <= Len(Digit) THEN Digit[k] ELSE six[k - Len(Digit)]
    BY <2>1, <2>2, ConcatProperties, Zenon
  <2>4. Len(Digit \o six) = 16 /\ (Digit \o six)[1] = "0"
    BY <2>1, <2>2, <2>3
  <2>5. HexDigit(cap) = Digit \o six
    BY DEF HexDigit, six
  <2> QED BY <2>3, <2>4, <2>5 DEF Base
<1> QED BY <1>1, <1>2

(* The modifiers of a directive, and what they ask for.                    *)
LongMod(mods) == Head(mods \o <<"">>) = "l"
ZerosMod(mods) == IF "0" \in ToSet(mods) THEN Number(Last(mods)) ELSE 0
Directives == {d \in AllPieces : d.kind = "dir"}

(* There are six kinds of modifiers.                                       *)
LEMMA ShapeOfMods ==
  ASSUME NEW mods, mods \in NumberMods \cup {<<"h">>} \cup {<<d>> : d \in ToSet(Digit) \ {"0"}}
  PROVE  \/ mods = <<>> /\ ~LongMod(mods) /\ ZerosMod(mods) = 0
         \/ mods = <<"l">> /\ LongMod(mods) /\ ZerosMod(mods) = 0
         \/ mods = <<"h">> /\ ~LongMod(mods) /\ ZerosMod(mods) = 0
         \/ \E d \in ToSet(Digit) : d # "0" /\ mods = <<d>> /\ ~LongMod(mods) /\ ZerosMod(mods) = 0
         \/ \E d \in ToSet(Digit) : mods = <<"0", d>> /\ ~LongMod(mods) /\ ZerosMod(mods) = Number(d)
         \/ \E d \in ToSet(Digit) : mods = <<"l", "0", d>> /\ LongMod(mods) /\ ZerosMod(mods) = Number(d)
<1>0. \A d \in ToSet(Digit) : d # "l"
  BY DigitFacts
<1>1. CASE mods = <<>>
  BY <1>1 DEF LongMod, ZerosMod, ToSet
<1>2. CASE mods = <<"l">>
  BY <1>2 DEF LongMod, ZerosMod, ToSet
<1>3. CASE mods = <<"h">>
  BY <1>3 DEF LongMod, ZerosMod, ToSet
<1>4. ASSUME NEW d \in ToSet(Digit), d # "0", mods = <<d>>
      PROVE  ~LongMod(mods) /\ ZerosMod(mods) = 0
  BY <1>0, <1>4 DEF LongMod, ZerosMod, ToSet
<1>5. ASSUME NEW d \in ToSet(Digit), mods = <<"0", d>>
      PROVE  ~LongMod(mods) /\ ZerosMod(mods) = Number(d)
  <2>1. "0" \in ToSet(mods) /\ Last(mods) = d
    BY <1>5 DEF ToSet, Last
  <2>2. ~LongMod(mods)
    BY <1>5 DEF LongMod
  <2> QED BY <2>1, <2>2 DEF ZerosMod
<1>6. ASSUME NEW d \in ToSet(Digit), mods = <<"l", "0", d>>
      PROVE  LongMod(mods) /\ ZerosMod(mods) = Number(d)
  <2>1. "0" \in ToSet(mods) /\ Last(mods) = d
    BY <1>6 DEF ToSet, Last
  <2>2. LongMod(mods)
    BY <1>6 DEF LongMod
  <2> QED BY <2>1, <2>2 DEF ZerosMod
<1> QED BY <1>1, <1>2, <1>3, <1>4, <1>5, <1>6 DEF NumberMods

-----------------------------------------------------------------------------
(* The pieces of a call.                                                   *)
LEMMA AllFormed ==
  /\ \A q \in AllPieces : IsPiece(q)
  /\ \A call \in AllCalls : call \in Seq(AllPieces)
  /\ Fatal \in AllCalls
  /\ \A p \in Programs : p \in Seq(AllCalls)
<1> DEFINE All == Programs \cup {<<Fatal>>}
<1>1. ASSUME NEW p \in All
      PROVE  /\ p \in Seq(ToSet(p))
             /\ \A call \in ToSet(p) :
                  call \in Seq(ToSet(call)) /\ \A piece \in ToSet(call) : IsPiece(piece)
  BY FormatAssumption
<1>2. \A q \in AllPieces : IsPiece(q)
  BY <1>1 DEF AllPieces, AllCalls
<1>3. ASSUME NEW call \in AllCalls PROVE call \in Seq(AllPieces)
  <2>1. call \in Seq(ToSet(call))
    BY <1>1 DEF AllCalls
  <2>2. ToSet(call) \subseteq AllPieces
    BY DEF AllPieces
  <2> QED BY <2>1, <2>2
<1>4. Fatal \in AllCalls
  <2>1. Fatal \in ToSet(<<Fatal>>)
    BY DEF ToSet
  <2> QED BY <2>1 DEF AllCalls
<1>5. ASSUME NEW p \in Programs PROVE p \in Seq(AllCalls)
  <2>1. p \in Seq(ToSet(p))
    BY <1>1
  <2>2. ToSet(p) \subseteq AllCalls
    BY DEF AllCalls
  <2> QED BY <2>1, <2>2
<1> QED BY <1>2, <1>3, <1>4, <1>5

(* A piece of text is one character.                                       *)
LEMMA TextFacts ==
  ASSUME NEW q \in AllPieces, q \notin Directives
  PROVE  /\ \E c \in Chars : c # "%" /\ q.chars = <<c>>
         /\ Argument(q) = <<>> /\ Expected(q) = q.chars
<1>1. q.kind # "dir"
  BY DEF Directives
<1>2. q.kind = "text" /\ q.chars[1] # "%" /\ q = Text(q.chars[1])
  BY <1>1, AllFormed DEF IsPiece
<1> DEFINE c == q.chars[1]
<1>3. q.chars = <<c>>
  BY <1>2 DEF Text
<1>4. c \in Chars
  <2>1. DOMAIN q.chars = 1..1
    BY <1>3
  <2>2. c \in ToSet(q.chars)
    BY <2>1 DEF ToSet
  <2> QED BY <2>2 DEF Chars
<1>5. Expected(q) = q.chars
  BY <1>2 DEF Expected
<1> QED BY <1>1, <1>2, <1>3, <1>4, <1>5 DEF Argument

AnyMods == NumberMods \cup {<<"h">>} \cup {<<d>> : d \in ToSet(Digit) \ {"0"}}

(* A directive takes a number or a string, or is a percent sign.           *)
LEMMA DirectiveFacts ==
  ASSUME NEW d \in Directives
  PROVE  /\ d.chars = <<"%">> \o d.mods \o <<d.conv>>
         /\ d.mods \in AnyMods
         /\ d.conv \in Conversions \cup {"%"}
         /\ Argument(d) = (IF d.conv = "%" THEN <<>> ELSE <<d.arg>>)
         /\ \/ d.conv = "%" /\ d.mods = <<>>
            \/ TakesNumber(d.conv, d.mods) /\ d.arg.num \in 0..(LONG - 1)
            \/ TakesString(d.conv, d.mods, d.arg.str) /\ d.arg.str \in Seq(Chars)
<1>1. d \in AllPieces /\ d.kind = "dir"
  BY DEF Directives
<1>2. IsPiece(d)
  BY <1>1, AllFormed
<1>3. /\ d = Directive(d.mods, d.conv, d.arg)
      /\ \/ d.conv = "%" /\ d.mods = <<>>
         \/ d.arg.num \in 0..(LONG - 1) /\ TakesNumber(d.conv, d.mods)
         \/ d.arg.str \in Seq(ToSet(d.arg.str)) /\ TakesString(d.conv, d.mods, d.arg.str)
  BY <1>1, <1>2 DEF IsPiece
<1>4. d.chars = <<"%">> \o d.mods \o <<d.conv>>
  <2>1. PICK m, c, a : m = d.mods /\ c = d.conv /\ a = d.arg
    OBVIOUS
  <2>2. d = Directive(m, c, a)
    BY <1>3, <2>1
  <2>3. Directive(m, c, a).chars = <<"%">> \o m \o <<c>>
    BY DEF Directive
  <2> QED BY <2>1, <2>2, <2>3, Zenon
<1>5. d.mods \in AnyMods
  BY <1>3 DEF TakesNumber, TakesString, AnyMods, NumberMods
<1>6. d.conv \in Conversions \cup {"%"}
  BY <1>3 DEF TakesNumber, TakesString, Conversions
<1>7. d.arg.str \in Seq(ToSet(d.arg.str)) => d.arg.str \in Seq(Chars)
  <2>1. ToSet(d.arg.str) \subseteq Chars
    BY <1>1 DEF Chars
  <2> QED BY <2>1
<1> QED BY <1>1, <1>3, <1>4, <1>5, <1>6, <1>7 DEF Argument

-----------------------------------------------------------------------------
(* What a directive prints is what is due for it.                          *)
LEMMA Ranges ==
  INT \in Nat \ {0} /\ LONG \in Nat \ {0} /\ INT <= LONG
<1> DEFINE i == 4 * BYTE
           j == 8 * BYTE
<1>1. i \in Nat /\ j \in Nat /\ i < j /\ 2 \in Nat \ {0}
  BY PortAssumption
<1> HIDE DEF i, j
<1>2. INT = Power(2, i) /\ LONG = Power(2, j)
  BY DEF INT, LONG, i, j
<1>3. Power(2, i) < Power(2, j)
  BY <1>1, PowerGrows
<1>4. Power(2, i) \in Nat \ {0} /\ Power(2, j) \in Nat \ {0}
  BY <1>1, PowerRule
<1> QED BY <1>2, <1>3, <1>4

(* The flags of a directive when its conversion is reached.                *)
Flags(f, d) ==
  /\ f.number_size = (IF LongMod(d.mods) THEN 8 ELSE IF d.mods = <<"h">> THEN 2 ELSE 4)
  /\ f.leading_zeros = ZerosMod(d.mods)
  /\ f.string_length = (IF d.conv = "s" /\ d.mods # <<>> THEN Number(d.mods[1]) ELSE 0)
  /\ d.conv # "%" => f.args[1] = d.arg

RangeOf(d) == IF LongMod(d.mods) THEN LONG ELSE INT

(* Half a range is a number again.                                         *)
LEMMA HalfRange ==
  ASSUME NEW d
  PROVE  RangeOf(d) \in Nat /\ RangeOf(d) > 1 /\ RangeOf(d) % 2 = 0
<1>1. ASSUME NEW k \in Nat, k # 0
      PROVE  Power(2, k) \in Nat /\ Power(2, k) > 1 /\ Power(2, k) % 2 = 0
  <2>1. k - 1 \in Nat /\ (k - 1) + 1 = k /\ 2 \in Nat \ {0}
    BY <1>1
  <2>2. Power(2, k) = 2 * Power(2, k - 1) /\ Power(2, k - 1) \in Nat \ {0}
    BY <2>1, PowerRule
  <2>3. \A p \in Nat \ {0} : 2 * p \in Nat /\ 2 * p > 1 /\ (2 * p) % 2 = 0
    OBVIOUS
  <2> QED BY <2>2, <2>3
<1>2. 4 * BYTE \in Nat /\ 4 * BYTE # 0 /\ 8 * BYTE \in Nat /\ 8 * BYTE # 0
  BY PortAssumption
<1> QED BY <1>1, <1>2 DEF RangeOf, INT, LONG

(* next_int takes the argument with the width of the directive.            *)
LEMMA ArgumentTaken ==
  ASSUME NEW d \in Directives, NEW f, Flags(f, d), TakesNumber(d.conv, d.mods),
         d.arg.num \in 0..(LONG - 1)
  PROVE  /\ next_int(f) = d.arg.num % RangeOf(d)
         /\ next_int(f) \in 0..(RangeOf(d) - 1)
         /\ next_int(f) \in Nat /\ next_int(f) < LONG
         /\ (IF f.number_size > 4 THEN LONG ELSE INT) = RangeOf(d)
         /\ RangeOf(d) \in Nat \ {0} /\ RangeOf(d) <= LONG
         /\ ZerosMod(d.mods) \in Nat
<1>1. RangeOf(d) \in Nat \ {0} /\ RangeOf(d) <= LONG /\ LONG \in Nat
  BY Ranges DEF RangeOf
<1>2. (IF f.number_size > 4 THEN LONG ELSE INT) = RangeOf(d)
  BY DEF Flags, RangeOf
<1>3. f.args[1] = d.arg
  BY DEF Flags, TakesNumber
<1>4. next_int(f) = d.arg.num % RangeOf(d)
  BY <1>2, <1>3 DEF next_int
<1>5. \A n \in Nat, r \in Nat \ {0} : n % r \in 0..(r - 1)
  OBVIOUS
<1>6. d.arg.num \in Nat
  BY <1>1
<1>7. d.arg.num % RangeOf(d) \in 0..(RangeOf(d) - 1)
  BY <1>1, <1>5, <1>6
<1>8. next_int(f) \in Nat /\ next_int(f) < LONG
  BY <1>1, <1>4, <1>7
<1>9. ZerosMod(d.mods) \in Nat
  <2>1. d.mods \in AnyMods
    BY DirectiveFacts
  <2>2. \A c \in ToSet(Digit) : Number(c) \in Nat
    BY DigitFacts
  <2> QED BY <2>1, <2>2, ShapeOfMods DEF AnyMods
<1> QED BY <1>1, <1>2, <1>4, <1>7, <1>8, <1>9

(* %u and %x.                                                              *)
LEMMA UnsignedDue ==
  ASSUME NEW d \in Directives, NEW f, Flags(f, d), TakesNumber(d.conv, d.mods),
         d.arg.num \in 0..(LONG - 1), d.conv \in {"u", "x", "X"}
  PROVE  Converted(f, d.conv) = Expected(d) /\ Expected(d) \in Seq(Chars)
<1> DEFINE n == next_int(f)
           zeros == ZerosMod(d.mods)
<1>1. n = d.arg.num % RangeOf(d) /\ n \in Nat /\ n < LONG /\ zeros \in Nat /\ f.leading_zeros = zeros
  BY ArgumentTaken DEF Flags
<1>2. d.kind # "text"
  BY DEF Directives
<1> HIDE DEF n, zeros
<1>3. CASE d.conv = "u"
  <2>1. Converted(f, d.conv) = Padded(zeros, Buffer(n, 10, Digit))
    BY <1>1, <1>3 DEF Converted, print_unsigned, n
  <2>2. Expected(d) = Numeral(n, 10, Digit, zeros)
    BY <1>1, <1>2, <1>3 DEF Expected, RangeOf, LongMod, ZerosMod, zeros
  <2>3. Base(10, Digit) /\ Digit[1] = "0"
    BY BaseFacts, DigitFacts
  <2>4. /\ Padded(zeros, Buffer(n, 10, Digit)) = Numeral(n, 10, Digit, zeros)
        /\ Numeral(n, 10, Digit, zeros) \in Seq(Chars)
    BY <1>1, <2>3, NumeralPrinted
  <2> QED BY <2>1, <2>2, <2>4
<1>4. CASE d.conv \in {"x", "X"}
  <2> DEFINE digits == HexDigit(d.conv = "X")
  <2>1. Converted(f, d.conv) = Padded(zeros, Buffer(n, 16, digits))
    BY <1>1, <1>4 DEF Converted, print_hex, n
  <2>2. Expected(d) = Numeral(n, 16, digits, zeros)
    BY <1>1, <1>2, <1>4 DEF Expected, RangeOf, LongMod, ZerosMod, zeros
  <2>3. Base(16, digits) /\ digits[1] = "0"
    BY BaseFacts
  <2> HIDE DEF digits
  <2>4. /\ Padded(zeros, Buffer(n, 16, digits)) = Numeral(n, 16, digits, zeros)
        /\ Numeral(n, 16, digits, zeros) \in Seq(Chars)
    BY <1>1, <2>3, NumeralPrinted
  <2> QED BY <2>1, <2>2, <2>4
<1> QED BY <1>3, <1>4

(* %d, whose argument is negative from half the range on.                  *)
LEMMA SignedDue ==
  ASSUME NEW d \in Directives, NEW f, Flags(f, d), TakesNumber(d.conv, d.mods),
         d.arg.num \in 0..(LONG - 1), d.conv = "d"
  PROVE  Converted(f, d.conv) = Expected(d) /\ Expected(d) \in Seq(Chars)
<1> DEFINE n == next_int(f)
           zeros == ZerosMod(d.mods)
           range == RangeOf(d)
           half == range \div 2
<1>1. /\ n = d.arg.num % range /\ n \in 0..(range - 1) /\ n \in Nat /\ n < LONG
      /\ (IF f.number_size > 4 THEN LONG ELSE INT) = range
      /\ range \in Nat \ {0} /\ range <= LONG /\ zeros \in Nat /\ f.leading_zeros = zeros
  BY ArgumentTaken DEF Flags
<1>2. d.kind # "text"
  BY DEF Directives
<1>3. Base(10, Digit) /\ Digit[1] = "0"
  BY BaseFacts, DigitFacts
<1>4. Signed(f) = IF n >= half THEN n - range ELSE n
  BY <1>1 DEF Signed
<1>5. Converted(f, d.conv) = print_decimal(zeros, Signed(f))
  BY <1>1 DEF Converted
<1>6. Expected(d) = IF n < half THEN Numeral(n, 10, Digit, zeros)
                    ELSE <<"-">> \o Numeral(range - n, 10, Digit, zeros)
  BY <1>1, <1>2 DEF Expected, RangeOf, LongMod, ZerosMod
<1>7. LONG \in Nat /\ half \in Nat
  BY <1>1, Ranges
<1> HIDE DEF n, zeros, range, half
<1>8. CASE n < half
  <2>1. Signed(f) = n
    BY <1>1, <1>4, <1>7, <1>8
  <2>2. Converted(f, d.conv) = Padded(zeros, Buffer(n, 10, Digit))
    BY <1>1, <1>5, <2>1 DEF print_decimal, print_unsigned
  <2>3. /\ Padded(zeros, Buffer(n, 10, Digit)) = Numeral(n, 10, Digit, zeros)
        /\ Numeral(n, 10, Digit, zeros) \in Seq(Chars)
    <3>1. n \in Nat /\ n < LONG /\ zeros \in Nat
      BY <1>1
    <3> QED BY <1>3, <3>1, NumeralPrinted
  <2> QED BY <1>6, <1>8, <2>2, <2>3
<1>9. CASE ~(n < half)
  <2> DEFINE m == range - n
  <2>0. n - range < 0 /\ -(n - range) = m /\ m \in Nat
    BY <1>1
  <2>1. Signed(f) = n - range
    BY <1>1, <1>4, <1>7, <1>9
  <2>2. Converted(f, d.conv) = <<"-">> \o Padded(zeros, Buffer(-(n - range), 10, Digit))
    BY <1>5, <2>0, <2>1 DEF print_decimal, print_unsigned
  <2>a. m \in Nat /\ m < LONG
    <3>1. n # 0
      <4>1. n >= half
        BY <1>1, <1>7, <1>9
      <4>2. range > 1 /\ range % 2 = 0
        BY HalfRange DEF range
      <4>3. half >= 1
        BY <1>1, <4>2 DEF half
      <4> QED BY <4>1, <4>3, <1>1, <1>7
    <3> QED BY <1>1, <1>7, <2>0, <3>1
  <2> HIDE DEF m
  <2>3. /\ Padded(zeros, Buffer(m, 10, Digit)) = Numeral(m, 10, Digit, zeros)
        /\ Numeral(m, 10, Digit, zeros) \in Seq(Chars)
    <3>1. m \in Nat /\ m < LONG /\ zeros \in Nat
      BY <1>1, <2>a
    <3> QED BY <1>3, <3>1, NumeralPrinted
  <2>4. Expected(d) = <<"-">> \o Numeral(m, 10, Digit, zeros)
    BY <1>6, <1>9 DEF m
  <2>5. Converted(f, d.conv) = <<"-">> \o Padded(zeros, Buffer(m, 10, Digit))
    BY <2>0, <2>2 DEF m
  <2>6. "-" \in Chars
    BY DEF Chars, Literals
  <2>7. <<"-">> \o Numeral(m, 10, Digit, zeros) \in Seq(Chars)
    BY <2>3, <2>6, OneBefore
  <2> QED BY <2>3, <2>4, <2>5, <2>7
<1> QED BY <1>8, <1>9

(* %p.                                                                     *)
LEMMA PointerDue ==
  ASSUME NEW d \in Directives, NEW f, Flags(f, d), TakesNumber(d.conv, d.mods),
         d.arg.num \in 0..(LONG - 1), d.conv \in {"p", "P"}
  PROVE  Converted(f, d.conv) = Expected(d) /\ Expected(d) \in Seq(Chars)
<1> DEFINE n == d.arg.num
           digits == HexDigit(d.conv = "P")
           nil == <<"(", "n", "i", "l", ")">>
<1>1. d.kind # "text" /\ f.args[1].num = n
  BY DEF Directives, Flags
<1>2. n \in Nat /\ n < LONG /\ PTR_DIGITS \in Nat
  BY Ranges, PortAssumption DEF PTR_DIGITS
<1>3. Base(16, digits) /\ digits[1] = "0"
  BY BaseFacts
<1>4. Converted(f, d.conv) = IF n = 0 THEN nil ELSE <<"0", "x">> \o Padded(PTR_DIGITS, Buffer(n, 16, digits))
  BY <1>1 DEF Converted, print_ptr, print_hex
<1>5. Expected(d) = IF n = 0 THEN nil ELSE <<"0", "x">> \o Numeral(n, 16, digits, PTR_DIGITS)
  BY <1>1 DEF Expected
<1> HIDE DEF n, digits
<1>6. /\ Padded(PTR_DIGITS, Buffer(n, 16, digits)) = Numeral(n, 16, digits, PTR_DIGITS)
      /\ Numeral(n, 16, digits, PTR_DIGITS) \in Seq(Chars)
  BY <1>2, <1>3, NumeralPrinted
<1>7. {"(", "n", "i", "l", ")", "0", "x"} \subseteq Chars
  BY DEF Chars, Literals
<1>8. nil \in Seq(Chars) /\ <<"0", "x">> \in Seq(Chars)
  BY <1>7
<1> HIDE DEF nil
<1> DEFINE pre == <<"0", "x">>
<1> HIDE DEF pre
<1>9. pre \o Numeral(n, 16, digits, PTR_DIGITS) \in Seq(Chars)
  BY <1>6, <1>8, Joins DEF pre
<1> QED BY <1>4, <1>5, <1>6, <1>8, <1>9 DEF pre

(* The low bits of a number are those of what it leaves modulo a power.    *)
LEMMA LowBits ==
  ASSUME NEW m \in Nat, NEW w \in Nat, NEW k \in 1..w
  PROVE  LET v == m % Power(2, w)
         IN  (m \div Power(2, w - k)) % 2 = (v \div Power(2, w - k)) % 2
<1> DEFINE v == m % Power(2, w)
           big == Power(2, w)
           p == Power(2, w - k)
           h == Power(2, k - 1)
           q == m \div big
           x == v \div p
<1>0. 2 \in Nat \ {0} /\ w - k \in Nat /\ k \in Nat /\ k - 1 \in Nat /\ (k - 1) + 1 = k /\ (w - k) + k = w
  OBVIOUS
<1>1. big \in Nat \ {0} /\ p \in Nat \ {0} /\ h \in Nat \ {0}
  BY <1>0, PowerRule
<1>2. big = p * (2 * h)
  <2>1. Power(2, (w - k) + k) = p * Power(2, k)
    BY <1>0, PowerSum
  <2>2. Power(2, k) = 2 * h
    BY <1>0, PowerRule
  <2> QED BY <1>0, <2>1, <2>2
<1>3. v \in Nat /\ q \in Nat /\ m = q * big + v
  <2>1. \A b \in Nat \ {0} : m % b \in Nat /\ m \div b \in Nat /\ m = (m \div b) * b + (m % b)
    OBVIOUS
  <2> QED BY <1>1, <2>1
<1> HIDE DEF v, big, p, h, q
<1>4. x \in Nat /\ x * p <= v /\ v < x * p + p
  BY <1>1, <1>3
<1> HIDE DEF x
<1> DEFINE y == q * (2 * h) + x
<1>5. y * p = q * big + x * p
  <2>1. q * big = (q * (2 * h)) * p
    BY <1>1, <1>2, <1>3
  <2> DEFINE z == q * (2 * h)
  <2>2. z \in Int
    BY <1>1, <1>3
  <2> HIDE DEF z
  <2>3. (z + x) * p = z * p + x * p
    BY <1>1, <1>4, <2>2
  <2> QED BY <2>1, <2>3 DEF z
<1>6. y \in Int /\ y * p <= m /\ m < y * p + p
  <2>1. q * big \in Int /\ x * p \in Int /\ q * (2 * h) \in Int
    BY <1>1, <1>3, <1>4
  <2>2. y \in Int
    BY <1>4, <2>1
  <2> HIDE DEF y
  <2> QED BY <1>1, <1>3, <1>4, <1>5, <2>1, <2>2
<1>7. m \div p = y
  <2> HIDE DEF y
  <2> QED BY <1>1, <1>6, DivUnique
<1>8. y % 2 = x % 2
  <2>1. q * h \in Nat
    BY <1>1, <1>3
  <2>2. y = 2 * (q * h) + x
    <3>1. q * (2 * h) = 2 * (q * h)
      BY <1>1, <1>3
    <3> QED BY <3>1
  <2>3. \A s, t \in Nat : (2 * s + t) % 2 = t % 2
    OBVIOUS
  <2> HIDE DEF y
  <2> QED BY <1>4, <2>1, <2>2, <2>3
<1> HIDE DEF y
<1>9. (m \div p) % 2 = (v \div p) % 2
  BY <1>7, <1>8 DEF x
<1> QED BY <1>9 DEF v, p

(* %hb: the mask of print_binary takes the bits from the highest on.       *)
LEMMA BinaryDue ==
  ASSUME NEW d \in Directives, NEW f, Flags(f, d), TakesNumber(d.conv, d.mods),
         d.arg.num \in 0..(LONG - 1), d.conv = "b"
  PROVE  Converted(f, d.conv) = Expected(d) /\ Expected(d) \in Seq(Chars)
<1> DEFINE m == next_int(f)
           w == 2 * BYTE
           v == m % Power(2, w)
           P(k) == Power(2, w - k)
           bits == [k \in 1..w |-> IF (m \div P(k)) % 2 = 1 THEN "1" ELSE "0"]
<1>1. m = d.arg.num % RangeOf(d) /\ m \in Nat
  BY ArgumentTaken
<1>2. d.kind # "text" /\ d.mods = <<"h">>
  BY DEF Directives, TakesNumber
<1>3. ~LongMod(d.mods) /\ ZerosMod(d.mods) = 0
  BY <1>2 DEF LongMod, ZerosMod, ToSet
<1>4. f.number_size = 2 /\ f.leading_zeros = 0
  BY <1>2, <1>3 DEF Flags
<1>5. w \in Nat /\ w = BYTE * 2 /\ w < 8 * BYTE /\ 8 * BYTE \in Nat /\ w >= 2
  BY PortAssumption
<1> HIDE DEF m
<1>6. Converted(f, d.conv) = print_binary(2, m)
  BY <1>4 DEF Converted, m
<1>7. print_binary(2, m) = bits
  <2> DEFINE One(k) == \E b \in {BYTE * 2 - 1} : b + 1 >= k /\ (m \div Power(2, b + 1 - k)) % 2 = 1
  <2>1. print_binary(2, m) = [k \in 1..(BYTE * 2) |-> IF One(k) THEN "1" ELSE "0"]
    BY DEF print_binary
  <2>2. \A k \in 1..w : One(k) <=> (m \div P(k)) % 2 = 1
    <3> TAKE k \in 1..w
    <3>1. (BYTE * 2 - 1) + 1 = w /\ w >= k
      BY <1>5, PortAssumption
    <3> HIDE DEF w
    <3>2. (BYTE * 2 - 1) + 1 - k = w - k
      BY <1>5, <3>1, PortAssumption
    <3> QED BY <3>1, <3>2
  <2> HIDE DEF One, w, P
  <2> QED BY <1>5, <2>1, <2>2
<1>8. Expected(d) = Numeral(v, 2, Digit, w)
  BY <1>1, <1>2, <1>3 DEF Expected, RangeOf, LongMod
<1> HIDE DEF w
<1>9. Power(2, w) \in Nat \ {0} /\ \A k \in 1..w : P(k) \in Nat \ {0}
  <2>1. \A k \in 1..w : w - k \in Nat
    BY <1>5
  <2>2. \A j \in Nat : Power(2, j) \in Nat \ {0}
    <3>1. 2 \in Nat \ {0}
      OBVIOUS
    <3> QED BY <3>1, PowerRule
  <2> QED BY <1>5, <2>1, <2>2
<1>10. v \in Nat /\ v < Power(2, w)
  BY <1>1, <1>9
<1> HIDE DEF v
<1>11. v < LONG
  <2>1. Power(2, w) < Power(2, 8 * BYTE)
    BY <1>5, PowerGrows
  <2>2. LONG = Power(2, 8 * BYTE) /\ LONG \in Nat
    BY Ranges DEF LONG
  <2> QED BY <1>9, <1>10, <2>1, <2>2
<1>12. Base(2, Digit) /\ Digit[1] = "0" /\ Digit[2] = "1"
  BY BaseFacts, DigitFacts
<1>13. Length(2, v) \in Nat /\ Length(2, v) <= w
  <2> DEFINE l == Len(Buffer(v, 2, Digit))
  <2>1. Holds(Buffer(v, 2, Digit), v, 2, Digit)
    BY <1>10, <1>12, BufferHolds
  <2>2. l \in Nat /\ LengthIs(2, v, l)
    BY <2>1 DEF Holds
  <2> HIDE DEF l
  <2>3. Length(2, v) = l
    BY <1>10, <1>11, <2>2, LengthFound
  <2>4. l <= w
    <3> SUFFICES ASSUME l > w PROVE FALSE
      BY <1>5, <2>2
    <3>1. l - 1 \in Nat /\ l # 0 /\ (w = l - 1 \/ w < l - 1)
      BY <1>5, <2>2
    <3>2. Power(2, l - 1) <= v
      BY <2>2, <3>1 DEF LengthIs
    <3>3. w = l - 1 \/ Power(2, w) < Power(2, l - 1)
      BY <1>5, <3>1, PowerGrows
    <3>4. Power(2, l - 1) \in Nat
      <4>1. 2 \in Nat \ {0}
        OBVIOUS
      <4> QED BY <3>1, <4>1, PowerType
    <3> QED BY <1>9, <1>10, <3>2, <3>3, <3>4
  <2> QED BY <2>2, <2>3, <2>4
<1>14. Numeral(v, 2, Digit, w) = [k \in 1..w |-> Digit[((v \div P(k)) % 2) + 1]]
  <2> DEFINE u == IF Length(2, v) > w THEN Length(2, v) ELSE w
  <2>1. u = w
    BY <1>5, <1>13
  <2>2. Numeral(v, 2, Digit, w) = [k \in 1..u |-> Digit[((v \div Power(2, u - k)) % 2) + 1]]
    BY DEF Numeral
  <2> HIDE DEF u
  <2> QED BY <2>1, <2>2
<1>15. ASSUME NEW k \in 1..w
       PROVE  Digit[((v \div P(k)) % 2) + 1] = (IF (m \div P(k)) % 2 = 1 THEN "1" ELSE "0")
  <2>1. (m \div P(k)) % 2 = (v \div P(k)) % 2
    BY <1>1, <1>5, LowBits DEF v
  <2>2. P(k) \in Nat \ {0}
    BY <1>9
  <2> HIDE DEF P
  <2> DEFINE b == (v \div P(k)) % 2
  <2>3. b \in {0, 1}
    <3>1. \A n \in Nat, p \in Nat \ {0} : (n \div p) \in Nat
      OBVIOUS
    <3>2. v \div P(k) \in Nat
      BY <1>10, <2>2, <3>1
    <3> QED BY <3>2
  <2> HIDE DEF b
  <2>4. Digit[b + 1] = (IF b = 1 THEN "1" ELSE "0")
    BY <1>12, <2>3
  <2> QED BY <2>1, <2>4 DEF b
<1>16. Numeral(v, 2, Digit, w) = bits
  <2> HIDE DEF P
  <2> QED BY <1>14, <1>15
<1>17. Numeral(v, 2, Digit, w) \in Seq(Chars)
  BY <1>5, <1>10, <1>11, <1>12, NumeralPrinted
<1> HIDE DEF bits
<1> QED BY <1>6, <1>7, <1>8, <1>16, <1>17

(* %s and %c.                                                              *)
LEMMA StringDue ==
  ASSUME NEW d \in Directives, NEW f, Flags(f, d), TakesString(d.conv, d.mods, d.arg.str),
         d.arg.str \in Seq(Chars)
  PROVE  Converted(f, d.conv) = Expected(d) /\ Expected(d) \in Seq(Chars)
<1> DEFINE s == d.arg.str
<1>1. d.kind # "text" /\ d.conv \in {"s", "c"} /\ f.args[1].str = s
  BY DEF Directives, TakesString, Flags
<1>2. CASE d.conv = "c"
  BY <1>1, <1>2 DEF Converted, Expected
<1>3. CASE d.conv = "s" /\ d.mods = <<>>
  <2>1. f.string_length = 0
    BY <1>3 DEF Flags
  <2> QED BY <1>1, <1>3, <2>1 DEF Converted, Expected, print_string
<1>4. CASE d.conv = "s" /\ d.mods # <<>>
  <2> DEFINE n == Number(d.mods[1])
  <2>1. PICK c \in ToSet(Digit) : c # "0" /\ d.mods = <<c>> /\ Number(c) <= Len(s)
    BY <1>4 DEF TakesString
  <2>2. n \in Nat /\ n # 0 /\ n <= Len(s)
    BY <2>1, DigitFacts
  <2>3. f.string_length = n
    BY <1>4 DEF Flags
  <2>4. Expected(d) = [k \in 1..n |-> s[k]]
    BY <1>1, <1>4 DEF Expected
  <2>5. Converted(f, d.conv) = print_string(n, s)
    BY <1>1, <1>4, <2>3 DEF Converted
  <2> HIDE DEF n, s
  <2>6. Converted(f, d.conv) = SubSeq(s, 1, n)
    BY <2>2, <2>5 DEF print_string
  <2>7. s \in Seq(Chars)
    BY DEF s
  <2>8. SubSeq(s, 1, n) = [k \in 1..n |-> s[k]] /\ SubSeq(s, 1, n) \in Seq(Chars)
    BY <2>2, <2>7
  <2> QED BY <2>4, <2>6, <2>8
<1> QED BY <1>1, <1>2, <1>3, <1>4

(* All of them.                                                            *)
LEMMA ConvertedIsDue ==
  ASSUME NEW d \in Directives, NEW f, Flags(f, d)
  PROVE  Converted(f, d.conv) = Expected(d) /\ Expected(d) \in Seq(Chars)
<1>1. CASE d.conv = "%"
  <2>1. d.kind # "text"
    BY DEF Directives
  <2>2. "%" \in Chars
    BY DEF Chars, Literals
  <2>3. Converted(f, d.conv) = <<"%">> /\ Expected(d) = <<"%">>
    BY <1>1, <2>1 DEF Converted, Expected
  <2> QED BY <2>2, <2>3
<1>2. CASE TakesNumber(d.conv, d.mods) /\ d.arg.num \in 0..(LONG - 1)
  <2>1. d.conv \in {"u", "x", "X", "d", "p", "P", "b"}
    BY <1>2 DEF TakesNumber
  <2> QED BY <1>2, <2>1, UnsignedDue, SignedDue, PointerDue, BinaryDue
<1>3. CASE TakesString(d.conv, d.mods, d.arg.str) /\ d.arg.str \in Seq(Chars)
  BY <1>3, StringDue
<1> QED BY <1>1, <1>2, <1>3, DirectiveFacts

-----------------------------------------------------------------------------
(* Scanning a format.                                                      *)
Parts == {"fmt", "args", "mode", "out", "number_size", "leading_zeros", "string_length"}
Frame(f, fm, as, mode, out, size, zeros, len) ==
  /\ DOMAIN f = Parts
  /\ f.fmt = fm /\ f.args = as /\ f.mode = mode /\ f.out = out
  /\ f.number_size = size /\ f.leading_zeros = zeros /\ f.string_length = len

(* Outside a directive.                                                    *)
LEMMA ScanText ==
  ASSUME NEW f, NEW fm, NEW as, NEW out, NEW size, NEW zeros, NEW len, NEW c,
         Frame(f, fm, as, "text", out, size, zeros, len)
  PROVE  /\ c # "%" => Frame(Scanned(f, c), fm, as, "text", <<c>>, size, zeros, len)
         /\ c = "%" => Frame(Scanned(f, c), fm, as, "mod", out, 4, 0, 0)
<1>1. f.mode = "text"
  BY DEF Frame
<1>2. CASE c # "%"
  <2>1. Scanned(f, c) = [f EXCEPT !.out = <<c>>]
    BY <1>1, <1>2 DEF Scanned
  <2> QED BY <1>2, <2>1 DEF Frame, Parts
<1>3. CASE c = "%"
  <2>1. Scanned(f, c) = [f EXCEPT !.mode = "mod", !.number_size = 4,
                                  !.leading_zeros = 0, !.string_length = 0]
    BY <1>1, <1>3 DEF Scanned
  <2> QED BY <1>3, <2>1 DEF Frame, Parts
<1> QED BY <1>2, <1>3

(* The modifiers for the size.                                             *)
LEMMA ScanSize ==
  ASSUME NEW f, NEW fm, NEW as, NEW out, NEW zeros, NEW len,
         Frame(f, fm, as, "mod", out, 4, zeros, len)
  PROVE  /\ Frame(Scanned(f, "l"), fm, as, "mod", out, 8, zeros, len)
         /\ Frame(Scanned(f, "h"), fm, as, "mod", out, 2, zeros, len)
<1>1. ~IsDigit("l") /\ ~IsDigit("h")
  BY DigitFacts
<1>2. f.mode = "mod" /\ f.number_size = 4 /\ 4 < 8 /\ 4 > 1 /\ 2 * 4 = 8 /\ 4 \div 2 = 2
  BY DEF Frame
<1>3. Scanned(f, "l") = [f EXCEPT !.mode = "mod", !.number_size = 8]
  BY <1>1, <1>2 DEF Scanned
<1>4. Scanned(f, "h") = [f EXCEPT !.mode = "mod", !.number_size = 2]
  BY <1>1, <1>2 DEF Scanned
<1>5. Frame(Scanned(f, "l"), fm, as, "mod", out, 8, zeros, len)
  BY <1>3 DEF Frame, Parts
<1>6. Frame(Scanned(f, "h"), fm, as, "mod", out, 2, zeros, len)
  BY <1>4 DEF Frame, Parts
<1> QED BY <1>5, <1>6

(* The 0 before a width.                                                   *)
LEMMA ScanZero ==
  ASSUME NEW f, NEW fm, NEW as, NEW out, NEW size, NEW zeros, NEW len,
         Frame(f, fm, as, "mod", out, size, zeros, len)
  PROVE  Frame(Scanned(f, "0"), fm, as, "zeros", out, size, zeros, len)
<1>1. f.mode = "mod"
  BY DEF Frame
<1>2. Scanned(f, "0") = [f EXCEPT !.mode = "zeros"]
  BY <1>1 DEF Scanned
<1> QED BY <1>2 DEF Frame, Parts

(* A digit of the width, or of the length of a string.                     *)
LEMMA ScanDigit ==
  ASSUME NEW f, NEW fm, NEW as, NEW out, NEW size, NEW mode,
         NEW c \in ToSet(Digit), Frame(f, fm, as, mode, out, size, 0, 0)
  PROVE  /\ mode = "zeros" => Frame(Scanned(f, c), fm, as, "zeros", out, size, Number(c), 0)
         /\ mode = "mod" /\ c # "0" => Frame(Scanned(f, c), fm, as, "mod", out, size, 0, Number(c))
<1>1. IsDigit(c) /\ Number(c) \in 0..9 /\ c # "l" /\ c # "h"
  BY DigitFacts
<1>2. 10 * 0 + Number(c) = Number(c)
  BY <1>1
<1>3. f.mode = mode /\ f.string_length = 0 /\ f.leading_zeros = 0 /\ "zeros" # "text" /\ "mod" # "text"
  BY DEF Frame
<1>4. CASE mode = "zeros"
  <2>0. 10 * f.leading_zeros + Number(c) = Number(c)
    BY <1>2, <1>3
  <2>1. Scanned(f, c) = [f EXCEPT !.leading_zeros = 10 * f.leading_zeros + Number(c)]
    BY <1>1, <1>3, <1>4 DEF Scanned
  <2> QED BY <1>4, <2>0, <2>1 DEF Frame, Parts
<1>5. CASE mode = "mod" /\ c # "0"
  <2>0. 10 * f.string_length + Number(c) = Number(c)
    BY <1>2, <1>3
  <2>1. Scanned(f, c) = [f EXCEPT !.string_length = 10 * f.string_length + Number(c)]
    BY <1>1, <1>3, <1>5 DEF Scanned
  <2> QED BY <1>5, <2>0, <2>1 DEF Frame, Parts
<1> QED BY <1>4, <1>5

(* The character that ends a directive.                                    *)
LEMMA ScanConversion ==
  ASSUME NEW f, NEW fm, NEW as, NEW mode \in {"mod", "zeros"}, NEW out, NEW size, NEW zeros, NEW len,
         NEW c \in Conversions \cup {"%"}, Frame(f, fm, as, mode, out, size, zeros, len)
  PROVE  Frame(Scanned(f, c), fm, IF c = "%" THEN as ELSE Tail(as), "text", Converted(f, c),
               size, zeros, len)
<1>1. ~IsDigit(c) /\ c # "0"
  BY DigitFacts
<1>2. c # "l" /\ c # "h" /\ (c \in Conversions <=> c # "%")
  BY DEF Conversions
<1>3. f.mode = mode /\ f.args = as
  BY DEF Frame
<1> DEFINE o == Converted(f, c)
           t == IF c = "%" THEN as ELSE Tail(as)
<1>4. Scanned(f, c) = [f EXCEPT !.mode = "text", !.out = o, !.args = t]
  BY <1>1, <1>2, <1>3 DEF Scanned
<1> HIDE DEF o, t
<1>5. Frame(Scanned(f, c), fm, t, "text", o, size, zeros, len)
  BY <1>4 DEF Frame, Parts
<1> QED BY <1>5 DEF o, t

(* The step to the next character.                                         *)
LEMMA FormatMoved ==
  ASSUME NEW f, NEW fm, NEW as, NEW mode, NEW out, NEW size, NEW zeros, NEW len,
         Frame(f, fm, as, mode, out, size, zeros, len)
  PROVE  Frame([f EXCEPT !.fmt = Tail(@)], Tail(fm), as, mode, out, size, zeros, len)
BY DEF Frame, Parts

(* The flags when the conversion is reached, and the states before: at the *)
(* first modifier, behind the l or behind the 0.                           *)
Final(d, size, zeros, len) ==
  /\ size = (IF LongMod(d.mods) THEN 8 ELSE IF d.mods = <<"h">> THEN 2 ELSE 4)
  /\ zeros = ZerosMod(d.mods)
  /\ len = (IF d.conv = "s" /\ d.mods # <<>> THEN Number(d.mods[1]) ELSE 0)
Scanning(d, left, mode, size, zeros, len) ==
  \/ left = <<>> /\ mode \in {"mod", "zeros"} /\ Final(d, size, zeros, len)
  \/ left # <<>> /\ left = d.mods /\ mode = "mod" /\ size = 4 /\ zeros = 0 /\ len = 0
  \/ \E x \in ToSet(Digit) :
       /\ d.mods = <<"l", "0", x>> /\ left = <<"0", x>>
       /\ mode = "mod" /\ size = 8 /\ zeros = 0 /\ len = 0
  \/ \E x \in ToSet(Digit) :
       /\ d.mods \in {<<"0", x>>, <<"l", "0", x>>} /\ left = <<x>>
       /\ mode = "zeros" /\ size = (IF LongMod(d.mods) THEN 8 ELSE 4) /\ zeros = 0 /\ len = 0

(* The modifiers of a directive, and which of them belong to a string.     *)
LEMMA ModsOfDirective ==
  ASSUME NEW d \in Directives
  PROVE  \/ d.mods = <<>> /\ ~LongMod(d.mods) /\ ZerosMod(d.mods) = 0
         \/ d.mods = <<"l">> /\ d.conv # "s" /\ LongMod(d.mods) /\ ZerosMod(d.mods) = 0
         \/ d.mods = <<"h">> /\ d.conv # "s" /\ ~LongMod(d.mods) /\ ZerosMod(d.mods) = 0
         \/ \E x \in ToSet(Digit) : /\ x # "0" /\ d.mods = <<x>> /\ d.conv = "s"
                                    /\ ~LongMod(d.mods) /\ ZerosMod(d.mods) = 0
         \/ \E x \in ToSet(Digit) : /\ d.mods = <<"0", x>> /\ d.conv # "s"
                                    /\ ~LongMod(d.mods) /\ ZerosMod(d.mods) = Number(x)
         \/ \E x \in ToSet(Digit) : /\ d.mods = <<"l", "0", x>> /\ d.conv # "s"
                                    /\ LongMod(d.mods) /\ ZerosMod(d.mods) = Number(x)
<1> DEFINE m == d.mods
<1>1. \/ d.conv = "%" /\ m = <<>>
      \/ d.conv # "s" /\ m \in NumberMods \cup {<<"h">>}
      \/ m = <<>>
      \/ d.conv = "s" /\ \E x \in ToSet(Digit) : x # "0" /\ m = <<x>>
  BY DirectiveFacts DEF TakesNumber, TakesString, NumberMods
<1>2. \A x \in ToSet(Digit) : x # "l" /\ x # "h"
  <2>1. ~IsDigit("l") /\ ~IsDigit("h") /\ \A x \in ToSet(Digit) : IsDigit(x)
    BY DigitFacts
  <2> QED BY <2>1
<1>3. \A x, y, z : /\ <<x>> # <<>> /\ <<x>>[1] = x /\ <<x, y>> # <<z>> /\ <<"l", x, y>> # <<z>>
                   /\ <<"l">>[1] = "l" /\ <<"h">>[1] = "h"
                   /\ <<x, y>> # <<>> /\ <<"l", x, y>> # <<>>
  OBVIOUS
<1>4. ASSUME NEW x \in ToSet(Digit), x # "0", m = <<x>>
      PROVE  d.conv = "s"
  <2>1. m \notin NumberMods \cup {<<"h">>}
    BY <1>2, <1>3, <1>4 DEF NumberMods
  <2> QED BY <1>1, <1>3, <1>4, <2>1
<1>5. ASSUME m \in {<<"l">>, <<"h">>}
      PROVE  d.conv # "s"
  BY <1>1, <1>2, <1>3, <1>5
<1>6. ASSUME NEW x \in ToSet(Digit), m = <<"0", x>> \/ m = <<"l", "0", x>>
      PROVE  d.conv # "s"
  BY <1>1, <1>3, <1>6
<1>7. m \in NumberMods \cup {<<"h">>} \cup {<<x>> : x \in ToSet(Digit) \ {"0"}}
  BY DirectiveFacts DEF AnyMods
<1> HIDE DEF m
<1> QED BY <1>4, <1>5, <1>6, <1>7, ShapeOfMods DEF m

(* A modifier takes printk to the next state of the directive.             *)
LEMMA ScanModifier ==
  ASSUME NEW d \in Directives, NEW left, left # <<>>, NEW mode, NEW size, NEW zeros, NEW len,
         Scanning(d, left, mode, size, zeros, len),
         NEW f, NEW fm, NEW as, Frame(f, fm, as, mode, <<>>, size, zeros, len)
  PROVE  \E m, s, z, l : /\ Frame(Scanned(f, left[1]), fm, as, m, <<>>, s, z, l)
                         /\ Scanning(d, Tail(left), m, s, z, l)
<1> DEFINE Goal == \E m, s, z, l : /\ Frame(Scanned(f, left[1]), fm, as, m, <<>>, s, z, l)
                                   /\ Scanning(d, Tail(left), m, s, z, l)
<1>0. \A x, y, z : /\ <<x>>[1] = x /\ Tail(<<x>>) = <<>> /\ <<x, y>>[1] = x /\ Tail(<<x, y>>) = <<y>>
                   /\ <<x, y, z>>[1] = x /\ Tail(<<x, y, z>>) = <<y, z>> /\ <<x>> # <<>> /\ <<x, y>> # <<>>
                   /\ <<x, y, z>> # <<>> /\ <<x, y>> # <<z>>
  OBVIOUS
<1>4. \A c, w, m, s, z, l : left[1] = c /\ Tail(left) = w
                              /\ Frame(Scanned(f, c), fm, as, m, <<>>, s, z, l) /\ Scanning(d, w, m, s, z, l)
                            => Goal
  BY Zenon
<1> HIDE DEF Goal
<1>1. ASSUME left = d.mods /\ mode = "mod" /\ size = 4 /\ zeros = 0 /\ len = 0
      PROVE  Goal
  <2>0. Frame(f, fm, as, "mod", <<>>, 4, 0, 0)
    BY <1>1
  <2>1. CASE d.mods = <<"l">> /\ d.conv # "s" /\ LongMod(d.mods) /\ ZerosMod(d.mods) = 0
    <3>1. Frame(Scanned(f, "l"), fm, as, "mod", <<>>, 8, 0, 0)
      BY <2>0, ScanSize
    <3>2. Final(d, 8, 0, 0)
      BY <2>1 DEF Final
    <3>3. Scanning(d, <<>>, "mod", 8, 0, 0)
      BY <3>2 DEF Scanning
    <3>4. left[1] = "l" /\ Tail(left) = <<>>
      BY <1>0, <1>1, <2>1
    <3> QED BY <1>4, <3>4, <3>1, <3>3, Zenon
  <2>2. CASE d.mods = <<"h">> /\ d.conv # "s" /\ ~LongMod(d.mods) /\ ZerosMod(d.mods) = 0
    <3>1. Frame(Scanned(f, "h"), fm, as, "mod", <<>>, 2, 0, 0)
      BY <2>0, ScanSize
    <3>2. Final(d, 2, 0, 0)
      BY <2>2 DEF Final
    <3>3. Scanning(d, <<>>, "mod", 2, 0, 0)
      BY <3>2 DEF Scanning
    <3>4. left[1] = "h" /\ Tail(left) = <<>>
      BY <1>0, <1>1, <2>2
    <3> QED BY <1>4, <3>4, <3>1, <3>3, Zenon
  <2>3. ASSUME NEW x \in ToSet(Digit), x # "0", d.mods = <<x>>, d.conv = "s",
               ~LongMod(d.mods), ZerosMod(d.mods) = 0
        PROVE  Goal
    <3>1. Frame(Scanned(f, x), fm, as, "mod", <<>>, 4, 0, Number(x))
      BY <2>0, <2>3, ScanDigit
    <3>2. Final(d, 4, 0, Number(x))
      <4>1. d.mods # <<"h">>
        <5>1. ~IsDigit("h") /\ IsDigit(x)
          BY DigitFacts
        <5>2. x # "h"
          BY <5>1
        <5> QED BY <2>3, <5>2
      <4> QED BY <1>0, <2>3, <4>1 DEF Final
    <3>3. Scanning(d, <<>>, "mod", 4, 0, Number(x))
      BY <3>2 DEF Scanning
    <3>4. left[1] = x /\ Tail(left) = <<>>
      BY <1>0, <1>1, <2>3
    <3> QED BY <1>4, <3>4, <3>1, <3>3, Zenon
  <2>4. ASSUME NEW x \in ToSet(Digit), d.mods = <<"0", x>>, ~LongMod(d.mods)
        PROVE  Goal
    <3>1. Frame(Scanned(f, "0"), fm, as, "zeros", <<>>, 4, 0, 0)
      BY <2>0, ScanZero
    <3>2. Scanning(d, <<x>>, "zeros", 4, 0, 0)
      BY <2>4 DEF Scanning
    <3>4. left[1] = "0" /\ Tail(left) = <<x>>
      BY <1>0, <1>1, <2>4
    <3> QED BY <1>4, <3>4, <3>1, <3>2, Zenon
  <2>5. ASSUME NEW x \in ToSet(Digit), d.mods = <<"l", "0", x>>
        PROVE  Goal
    <3>1. Frame(Scanned(f, "l"), fm, as, "mod", <<>>, 8, 0, 0)
      BY <2>0, ScanSize
    <3>2. Scanning(d, <<"0", x>>, "mod", 8, 0, 0)
      BY <2>5 DEF Scanning
    <3>4. left[1] = "l" /\ Tail(left) = <<"0", x>>
      BY <1>0, <1>1, <2>5
    <3> QED BY <1>4, <3>4, <3>1, <3>2, Zenon
  <2>6. d.mods # <<>>
    BY <1>1
  <2> QED BY <2>1, <2>2, <2>3, <2>4, <2>5, <2>6, ModsOfDirective, Zenon
<1>2. ASSUME NEW x \in ToSet(Digit), d.mods = <<"l", "0", x>>, left = <<"0", x>>,
             mode = "mod", size = 8, zeros = 0, len = 0
      PROVE  Goal
  <2>1. Frame(Scanned(f, "0"), fm, as, "zeros", <<>>, 8, 0, 0)
    BY <1>2, ScanZero
  <2>2. LongMod(d.mods)
    BY <1>2 DEF LongMod
  <2>3. Scanning(d, <<x>>, "zeros", 8, 0, 0)
    BY <1>2, <2>2 DEF Scanning
  <2>5. left[1] = "0" /\ Tail(left) = <<x>>
    BY <1>0, <1>2
  <2> QED BY <1>4, <2>5, <2>1, <2>3, Zenon
<1>3. ASSUME NEW x \in ToSet(Digit), d.mods \in {<<"0", x>>, <<"l", "0", x>>}, left = <<x>>,
             mode = "zeros", size = (IF LongMod(d.mods) THEN 8 ELSE 4), zeros = 0, len = 0
      PROVE  Goal
  <2>1. Frame(Scanned(f, x), fm, as, "zeros", <<>>, size, Number(x), 0)
    BY <1>3, ScanDigit
  <2>2. ZerosMod(d.mods) = Number(x) /\ d.conv # "s" /\ d.mods # <<"h">>
    <3>1. \A y, z : /\ <<"0", x>> # <<y>> /\ <<"l", "0", x>> # <<y>> /\ <<"0", x>> # <<"l", y, z>>
                    /\ <<"0", x>> # <<>> /\ <<"l", "0", x>> # <<>>
                    /\ (<<"0", x>> = <<"0", y>> => x = y)
                    /\ (<<"l", "0", x>> = <<"l", "0", y>> => x = y)
                    /\ <<"l", "0", x>> # <<"0", y>>
      OBVIOUS
    <3> QED BY <1>3, <3>1, ModsOfDirective
  <2>3. Final(d, size, Number(x), 0)
    BY <1>3, <2>2 DEF Final
  <2>4. Scanning(d, <<>>, "zeros", size, Number(x), 0)
    BY <2>3 DEF Scanning
  <2>5. left[1] = x /\ Tail(left) = <<>>
    BY <1>0, <1>3
  <2> QED BY <1>4, <2>5, <2>1, <2>4, Zenon
<1>5. Goal
  <2>1. CASE left # <<>> /\ left = d.mods /\ mode = "mod" /\ size = 4 /\ zeros = 0 /\ len = 0
    BY <1>1, <2>1
  <2>2. CASE \E x \in ToSet(Digit) :
               /\ d.mods = <<"l", "0", x>> /\ left = <<"0", x>>
               /\ mode = "mod" /\ size = 8 /\ zeros = 0 /\ len = 0
    BY <1>2, <2>2, Zenon
  <2>3. CASE \E x \in ToSet(Digit) :
               /\ d.mods \in {<<"0", x>>, <<"l", "0", x>>} /\ left = <<x>>
               /\ mode = "zeros" /\ size = (IF LongMod(d.mods) THEN 8 ELSE 4) /\ zeros = 0 /\ len = 0
    BY <1>3, <2>3, Zenon
  <2> QED BY <2>1, <2>2, <2>3, Zenon DEF Scanning
<1> QED BY <1>5 DEF Goal

-----------------------------------------------------------------------------
(* The pieces of a call: what its format, its arguments and its output     *)
(* are from its first piece and the ones behind it.                        *)
Args == {q.arg : q \in AllPieces}

(* What a directive adds to the format, to the arguments and to the        *)
(* output.                                                                 *)
LEMMA DirectiveParts ==
  ASSUME NEW d \in Directives
  PROVE  /\ d \in AllPieces /\ d.mods \in Seq(Chars) /\ d.conv \in Chars
         /\ d.chars \in Seq(Chars) /\ Argument(d) \in Seq(Args) /\ Expected(d) \in Seq(Chars)
         /\ \A s \in Seq(Chars) : d.chars \o s = <<"%">> \o (d.mods \o (<<d.conv>> \o s))
<1>1. d \in AllPieces
  BY DEF Directives
<1>2. d.conv \in Chars /\ "%" \in Chars /\ "l" \in Chars /\ "h" \in Chars /\ "0" \in Chars
  BY DirectiveFacts DEF Conversions, Chars, Literals
<1>3. \A x \in ToSet(Digit) : x \in Chars
  BY DigitFacts DEF Chars
<1>4. d.mods \in Seq(Chars)
  <2>1. \A x \in Chars : /\ <<>> \in Seq(Chars) /\ <<x>> \in Seq(Chars) /\ <<"0", x>> \in Seq(Chars)
                        /\ <<"l", "0", x>> \in Seq(Chars)
    BY <1>2
  <2> QED BY <1>2, <1>3, <2>1, ModsOfDirective
<1>5. <<"%">> \in Seq(Chars) /\ <<d.conv>> \in Seq(Chars)
  BY <1>2
<1>6. d.chars = (<<"%">> \o d.mods) \o <<d.conv>>
  BY DirectiveFacts
<1>7. <<"%">> \o d.mods \in Seq(Chars)
  BY <1>4, <1>5, Joins
<1>8. d.chars \in Seq(Chars)
  BY <1>5, <1>6, <1>7, Joins
<1>9. Argument(d) \in Seq(Args)
  <2>1. d.arg \in Args
    BY <1>1 DEF Args
  <2>2. <<>> \in Seq(Args) /\ <<d.arg>> \in Seq(Args)
    BY <2>1
  <2> QED BY <2>2, DirectiveFacts
<1>10. Expected(d) \in Seq(Chars)
  <2> DEFINE f == [number_size |-> IF LongMod(d.mods) THEN 8 ELSE IF d.mods = <<"h">> THEN 2 ELSE 4,
                   leading_zeros |-> ZerosMod(d.mods),
                   string_length |-> IF d.conv = "s" /\ d.mods # <<>> THEN Number(d.mods[1]) ELSE 0,
                   args |-> <<d.arg>>]
  <2>1. Flags(f, d)
    BY DEF Flags
  <2> HIDE DEF f
  <2> QED BY <2>1, ConvertedIsDue
<1>11. ASSUME NEW s \in Seq(Chars)
       PROVE  d.chars \o s = <<"%">> \o (d.mods \o (<<d.conv>> \o s))
  <2>0. \A r, t, u \in Seq(Chars) : (r \o t) \o u = r \o (t \o u) /\ t \o u \in Seq(Chars)
    BY JoinedTwice, Joins
  <2>1. ((<<"%">> \o d.mods) \o <<d.conv>>) \o s = (<<"%">> \o d.mods) \o (<<d.conv>> \o s)
    BY <1>5, <1>7, <1>11, <2>0, Zenon
  <2>2. <<d.conv>> \o s \in Seq(Chars)
    BY <1>5, <1>11, <2>0, Zenon
  <2>3. (<<"%">> \o d.mods) \o (<<d.conv>> \o s) = <<"%">> \o (d.mods \o (<<d.conv>> \o s))
    <3> DEFINE a == <<"%">>
               b == d.mods
               c == <<d.conv>> \o s
    <3>1. a \in Seq(Chars) /\ b \in Seq(Chars) /\ c \in Seq(Chars)
      BY <1>4, <1>5, <2>2
    <3> HIDE DEF a, b, c
    <3>2. (a \o b) \o c = a \o (b \o c)
      BY <2>0, <3>1
    <3> QED BY <3>2 DEF a, b, c
  <2> QED BY <1>6, <2>1, <2>3
<1> QED BY <1>1, <1>2, <1>4, <1>8, <1>9, <1>10, <1>11

(* The same for any piece.                                                 *)
LEMMA PieceParts ==
  ASSUME NEW q \in AllPieces
  PROVE  q.chars \in Seq(Chars) /\ q.chars # <<>> /\ Argument(q) \in Seq(Args) /\ Expected(q) \in Seq(Chars)
<1>1. CASE q \notin Directives
  <2>1. PICK c \in Chars : q.chars = <<c>>
    BY <1>1, TextFacts
  <2>2. <<c>> \in Seq(Chars) /\ <<c>> # <<>> /\ <<>> \in Seq(Args)
    OBVIOUS
  <2> QED BY <1>1, <2>1, <2>2, TextFacts
<1>2. CASE q \in Directives
  <2>1. q.chars \in Seq(Chars) /\ Argument(q) \in Seq(Args) /\ Expected(q) \in Seq(Chars)
    BY <1>2, DirectiveParts
  <2>2. q.chars = (<<"%">> \o q.mods) \o <<q.conv>>
    BY <1>2, DirectiveFacts
  <2>3. <<"%">> \o q.mods \in Seq(Chars) /\ <<q.conv>> \in Seq(Chars) /\ q.conv \in Chars
    <3>1. q.mods \in Seq(Chars) /\ q.conv \in Chars /\ "%" \in Chars
      BY <1>2, DirectiveParts DEF Chars, Literals
    <3>2. <<"%">> \in Seq(Chars)
      BY <3>1
    <3> QED BY <3>1, <3>2, Joins
  <2>4. \A s, t \in Seq(Chars) : Len(s \o t) = Len(s) + Len(t) /\ Len(s) \in Nat
    BY ConcatProperties, LenProperties
  <2>5. Len(q.chars) = Len(<<"%">> \o q.mods) + 1 /\ Len(<<"%">> \o q.mods) \in Nat
    BY <2>2, <2>3, <2>4
  <2>6. q.chars # <<>>
    BY <2>5
  <2> QED BY <2>1, <2>6
<1> QED BY <1>1, <1>2

(* And for a call.                                                         *)
LEMMA CallParts ==
  ASSUME NEW call \in Seq(AllPieces)
  PROVE  /\ Format(call) \in Seq(Chars) /\ Arguments(call) \in Seq(Args) /\ Reference(call) \in Seq(Chars)
         /\ call = <<>> => Format(call) = <<>> /\ Arguments(call) = <<>> /\ Reference(call) = <<>>
         /\ call # <<>> =>
              /\ Head(call) \in AllPieces /\ Tail(call) \in Seq(AllPieces)
              /\ Format(call) = Head(call).chars \o Format(Tail(call))
              /\ Arguments(call) = Argument(Head(call)) \o Arguments(Tail(call))
              /\ Reference(call) = Expected(Head(call)) \o Reference(Tail(call))
<1> DEFINE chars == [q \in AllPieces |-> q.chars]
           argument == [q \in AllPieces |-> Argument(q)]
           expected == [q \in AllPieces |-> Expected(q)]
<1>1. /\ chars \in [AllPieces -> Seq(Chars)]
      /\ argument \in [AllPieces -> Seq(Args)]
      /\ expected \in [AllPieces -> Seq(Chars)]
  BY PieceParts
<1>2. /\ \A q \in AllPieces : chars[q] = q.chars
      /\ \A q \in AllPieces : argument[q] = Argument(q)
      /\ \A q \in AllPieces : expected[q] = Expected(q)
  OBVIOUS
<1> HIDE DEF chars, argument, expected
<1>3. ASSUME NEW c \in Seq(AllPieces)
      PROVE  Format(c) = Mapped(chars, c) /\ Arguments(c) = Mapped(argument, c) /\ Reference(c) = Mapped(expected, c)
  <2>0. \A k \in DOMAIN c : c[k] \in AllPieces
    BY ElementOfSeq
  <2>1. [k \in DOMAIN c |-> c[k].chars] = [k \in DOMAIN c |-> chars[c[k]]]
    BY <1>2, <2>0
  <2>2. [k \in DOMAIN c |-> Argument(c[k])] = [k \in DOMAIN c |-> argument[c[k]]]
    BY <1>2, <2>0
  <2>3. [k \in DOMAIN c |-> Expected(c[k])] = [k \in DOMAIN c |-> expected[c[k]]]
    BY <1>2, <2>0
  <2> QED BY <2>1, <2>2, <2>3, Zenon DEF Format, Arguments, Reference, Mapped
<1>4. ASSUME NEW S, NEW f \in [AllPieces -> Seq(S)]
      PROVE  /\ Mapped(f, call) \in Seq(S) /\ Mapped(f, <<>>) = <<>>
             /\ call # <<>> => /\ Head(call) \in AllPieces /\ Tail(call) \in Seq(AllPieces)
                               /\ Mapped(f, call) = f[Head(call)] \o Mapped(f, Tail(call))
  BY FlattenMap
<1> QED BY <1>1, <1>2, <1>3, <1>4

-----------------------------------------------------------------------------
(* The inductive invariant.  What is due is what has been said, what is    *)
(* ready to be put and what the pieces still to be scanned are to print;   *)
(* the format holds these pieces and the arguments are theirs.             *)
AtPiece(rest) ==
  \E out \in Seq(Chars) : \E size, zeros, len :
    /\ Frame(ctx, Format(rest), Arguments(rest), "text", out, size, zeros, len)
    /\ due = said \o (out \o Reference(rest))
(* In the middle of a directive, with left of its modifiers to be scanned. *)
InDirective(rest) ==
  \E d \in Directives, left \in Seq(Chars) : \E mode, size, zeros, len :
    /\ Frame(ctx, left \o (<<d.conv>> \o Format(rest)), Argument(d) \o Arguments(rest),
             mode, <<>>, size, zeros, len)
    /\ Scanning(d, left, mode, size, zeros, len)
    /\ due = said \o (Expected(d) \o Reference(rest))
ScanInv ==
  /\ program \in Programs /\ made \in 0..Len(program)
  /\ said \in Seq(Chars)
  /\ polled \in BOOLEAN /\ (polled = TRUE => ctx.out # <<>>)
  /\ \E rest \in Seq(AllPieces) : AtPiece(rest) \/ InDirective(rest)

(* A sequence behind its first element.                                    *)
LEMMA FirstAndRest ==
  ASSUME NEW S
  PROVE  /\ \A c \in S, s \in Seq(S) : /\ <<c>> \o s \in Seq(S) /\ <<c>> \o s # <<>>
                                       /\ Head(<<c>> \o s) = c /\ Tail(<<c>> \o s) = s
         /\ \A s \in Seq(S) : s # <<>> => /\ s[1] \in S /\ Head(s) = s[1] /\ Tail(s) \in Seq(S)
                                          /\ s = <<s[1]>> \o Tail(s)
         /\ \A s \in Seq(S) : <<>> \o s = s /\ s \o <<>> = s
<1>1. ASSUME NEW c \in S, NEW s \in Seq(S)
      PROVE  /\ <<c>> \o s \in Seq(S) /\ <<c>> \o s # <<>>
             /\ Head(<<c>> \o s) = c /\ Tail(<<c>> \o s) = s
  <2> DEFINE t == <<c>> \o s
  <2>1. /\ t \in Seq(S) /\ Len(t) = Len(s) + 1 /\ Len(s) \in Nat /\ t[1] = c
        /\ \A k \in 1..Len(t) : k # 1 => t[k] = s[k - 1] /\ k - 1 \in 1..Len(s)
    BY OneBefore
  <2> HIDE DEF t
  <2>2. t # <<>> /\ Head(t) = c /\ Tail(t) \in Seq(S) /\ Len(Tail(t)) = Len(s)
        /\ \A k \in 1..Len(s) : Tail(t)[k] = t[k + 1]
    BY <2>1
  <2>3. \A k \in 1..Len(s) : t[k + 1] = s[k]
    <3> SUFFICES ASSUME NEW k \in 1..Len(s) PROVE t[k + 1] = s[k]
      OBVIOUS
    <3>1. k + 1 \in 1..Len(t) /\ k + 1 # 1 /\ (k + 1) - 1 = k
      BY <2>1
    <3> QED BY <2>1, <3>1
  <2>4. Tail(t) = s
    BY <2>2, <2>3, SeqEqual
  <2> QED BY <2>1, <2>2, <2>4 DEF t
<1>2. ASSUME NEW s \in Seq(S), s # <<>>
      PROVE  /\ s[1] \in S /\ Head(s) = s[1] /\ Tail(s) \in Seq(S)
             /\ s = <<s[1]>> \o Tail(s)
  <2>1. /\ s[1] \in S /\ Head(s) = s[1] /\ Tail(s) \in Seq(S) /\ Len(s) \in Nat \ {0}
        /\ Len(Tail(s)) = Len(s) - 1
        /\ \A k \in 1..(Len(s) - 1) : Tail(s)[k] = s[k + 1]
    BY <1>2
  <2> DEFINE r == Tail(s)
             t == <<s[1]>> \o r
  <2>2. /\ t \in Seq(S) /\ Len(t) = Len(r) + 1 /\ Len(r) \in Nat /\ t[1] = s[1]
        /\ \A k \in 1..Len(t) : k # 1 => t[k] = r[k - 1] /\ k - 1 \in 1..Len(r)
    BY <2>1, OneBefore
  <2> HIDE DEF t
  <2>3. \A k \in 1..Len(t) : t[k] = s[k]
    <3> SUFFICES ASSUME NEW k \in 1..Len(t), k # 1 PROVE t[k] = s[k]
      BY <2>2
    <3>1. k - 1 \in 1..(Len(s) - 1) /\ (k - 1) + 1 = k
      BY <2>1, <2>2
    <3>2. r[k - 1] = s[k]
      BY <2>1, <3>1
    <3> QED BY <2>2, <3>2
  <2>4. Len(t) = Len(s)
    BY <2>1, <2>2
  <2>5. t = s
    BY <2>2, <2>3, <2>4, SeqEqual
  <2> QED BY <2>1, <2>5 DEF t
<1>3. ASSUME NEW s \in Seq(S)
      PROVE  <<>> \o s = s /\ s \o <<>> = s
  BY ConcatEmptySeq
<1> QED BY <1>1, <1>2, <1>3

(* Sequences of characters.                                                *)
LEMMA CharSeqs ==
  /\ \A r, s, t \in Seq(Chars) : (r \o s) \o t = r \o (s \o t)
  /\ \A r, s \in Seq(Chars) : r \o s \in Seq(Chars)
  /\ <<>> \in Seq(Chars) /\ \A c \in Chars : <<c>> \in Seq(Chars)
<1>1. <<>> \in Seq(Chars) /\ \A c \in Chars : <<c>> \in Seq(Chars)
  OBVIOUS
<1>2. \A r, s, t \in Seq(Chars) : (r \o s) \o t = r \o (s \o t)
  BY JoinedTwice
<1>3. \A r, s \in Seq(Chars) : r \o s \in Seq(Chars)
  BY Joins
<1> QED BY <1>1, <1>2, <1>3

(* A call that begins.                                                     *)
LEMMA EnterFrame ==
  ASSUME NEW call \in AllCalls
  PROVE  /\ call \in Seq(AllPieces)
         /\ Frame(Enter(call), Format(call), Arguments(call), "text", <<>>, 4, 0, 0)
         /\ Reference(call) \in Seq(Chars)
<1>1. call \in Seq(AllPieces)
  BY AllFormed
<1>2. Frame(Enter(call), Format(call), Arguments(call), "text", <<>>, 4, 0, 0)
  BY DEF Enter, Frame, Parts
<1> QED BY <1>1, <1>2, CallParts

(* Nothing is printed and nothing is due in the beginning.                 *)
LEMMA InitScanInv == Init => ScanInv
<1> SUFFICES ASSUME Init PROVE ScanInv
  OBVIOUS
<1>1. program \in Programs /\ made = 0 /\ ctx = Enter(<<>>) /\ polled = FALSE /\ said = <<>> /\ due = <<>>
  BY DEF Init
<1>2. program \in Seq(AllCalls)
  BY <1>1, AllFormed
<1>3. made \in 0..Len(program)
  BY <1>1, <1>2
<1>4. <<>> \in Seq(AllPieces) /\ <<>> \in Seq(Chars)
  OBVIOUS
<1>5. Frame(ctx, Format(<<>>), Arguments(<<>>), "text", <<>>, 4, 0, 0)
  BY <1>1 DEF Enter, Frame, Parts
<1>6. Reference(<<>>) = <<>>
  BY <1>4, CallParts
<1>7. due = said \o (<<>> \o Reference(<<>>))
  <2>1. <<>> \o <<>> = <<>>
    OBVIOUS
  <2> QED BY <1>1, <1>6, <2>1
<1>8. AtPiece(<<>>)
  BY <1>4, <1>5, <1>7 DEF AtPiece
<1> QED BY <1>1, <1>3, <1>4, <1>8 DEF ScanInv

(* Where the context and the output stay as they are.                      *)
LEMMA ScanAlone ==
  ASSUME ScanInv, program' = program, made' = made, ctx' = ctx, said' = said, due' = due,
         polled' \in BOOLEAN, polled' = TRUE => ctx.out # <<>>
  PROVE  ScanInv'
<1>1. \A rest : AtPiece(rest) => AtPiece(rest)'
  BY DEF AtPiece
<1>2. \A rest : InDirective(rest) => InDirective(rest)'
  BY DEF InDirective
<1> QED BY <1>1, <1>2 DEF ScanInv

(* A call begins with a format of its own.                                 *)
LEMMA EnterScanInv ==
  ASSUME ScanInv, NEW call \in AllCalls, program' = program, made' \in 0..Len(program),
         ctx' = Enter(call), said' = said, due' = said \o Reference(call), polled' = FALSE
  PROVE  ScanInv'
<1>1. said \in Seq(Chars) /\ <<>> \in Seq(Chars)
  BY DEF ScanInv
<1>2. /\ call \in Seq(AllPieces) /\ Reference(call) \in Seq(Chars)
      /\ Frame(Enter(call), Format(call), Arguments(call), "text", <<>>, 4, 0, 0)
  BY EnterFrame
<1>3. <<>> \o Reference(call) = Reference(call)
  BY <1>2, FirstAndRest
<1>4. due' = said' \o (<<>> \o Reference(call))
  BY <1>3
<1>5. Frame(ctx', Format(call), Arguments(call), "text", <<>>, 4, 0, 0)
  BY <1>2
<1>6. AtPiece(call)'
  BY <1>1, <1>4, <1>5 DEF AtPiece
<1> QED BY <1>1, <1>2, <1>6 DEF ScanInv

(* Between calls nothing is left to print.                                 *)
LEMMA NothingLeft ==
  ASSUME ScanInv, ~Working
  PROVE  said = due /\ polled = FALSE
<1>0. ctx.fmt = <<>> /\ ctx.out = <<>> /\ said \in Seq(Chars)
  BY DEF Working, ScanInv
<1>1. PICK rest \in Seq(AllPieces) : AtPiece(rest) \/ InDirective(rest)
  BY DEF ScanInv
<1>2. Format(rest) \in Seq(Chars) /\ Reference(rest) \in Seq(Chars)
  BY CallParts
<1>3. CASE AtPiece(rest)
  <2>1. ctx.fmt = Format(rest) /\ \E out : ctx.out = out /\ due = said \o (out \o Reference(rest))
    BY <1>3 DEF AtPiece, Frame
  <2>2. rest = <<>>
    <3> SUFFICES ASSUME rest # <<>> PROVE FALSE
      OBVIOUS
    <3>1. Head(rest) \in AllPieces /\ Tail(rest) \in Seq(AllPieces)
          /\ Format(rest) = Head(rest).chars \o Format(Tail(rest))
      BY CallParts
    <3>2. Head(rest).chars \in Seq(Chars) /\ Head(rest).chars # <<>> /\ Format(Tail(rest)) \in Seq(Chars)
      BY <3>1, PieceParts, CallParts
    <3>3. \A s, t \in Seq(Chars) : s # <<>> => s \o t # <<>>
      <4>1. \A s, t \in Seq(Chars) : Len(s \o t) = Len(s) + Len(t) /\ Len(s) \in Nat /\ (s # <<>> => Len(s) # 0)
        BY ConcatProperties, LenProperties, EmptySeq
      <4>2. Len(<<>>) = 0
        OBVIOUS
      <4> QED BY <4>1, <4>2
    <3> QED BY <1>0, <2>1, <3>1, <3>2, <3>3
  <2>3. Reference(rest) = <<>>
    BY <2>2, CallParts
  <2>4. due = said \o (<<>> \o <<>>)
    BY <1>0, <2>1, <2>3
  <2>5. <<>> \o <<>> = <<>> /\ said \o <<>> = said
    BY <1>0, FirstAndRest
  <2> QED BY <1>0, <2>4, <2>5 DEF ScanInv
<1>4. CASE InDirective(rest)
  <2>1. PICK d \in Directives, left \in Seq(Chars) : ctx.fmt = left \o (<<d.conv>> \o Format(rest))
    BY <1>4 DEF InDirective, Frame
  <2>2. d.conv \in Chars /\ <<d.conv>> \in Seq(Chars)
    <3>1. d.conv \in Chars
      BY DirectiveParts
    <3> QED BY <3>1
  <2>3. <<d.conv>> \o Format(rest) \in Seq(Chars) /\ Len(<<d.conv>> \o Format(rest)) = Len(Format(rest)) + 1
        /\ Len(Format(rest)) \in Nat
    BY <1>2, <2>2, OneBefore
  <2>4. \A s, t \in Seq(Chars) : Len(s \o t) = Len(s) + Len(t) /\ Len(s) \in Nat
    BY ConcatProperties, LenProperties
  <2>5. Len(ctx.fmt) # 0
    BY <2>1, <2>3, <2>4
  <2>6. Len(<<>>) = 0
    OBVIOUS
  <2> QED BY <1>0, <2>5, <2>6
<1> QED BY <1>1, <1>3, <1>4

(* A character goes from what is ready to what has been said.              *)
LEMMA PutcScanInv ==
  ASSUME ScanInv, putc
  PROVE  ScanInv'
<1>0. /\ said' = Append(said, Head(ctx.out)) /\ ctx' = [ctx EXCEPT !.out = Tail(@)]
      /\ polled' = FALSE /\ program' = program /\ made' = made /\ due' = due
      /\ ctx.out # <<>> /\ said \in Seq(Chars)
  BY DEF putc, ScanInv
<1>1. PICK rest \in Seq(AllPieces) : AtPiece(rest) \/ InDirective(rest)
  BY DEF ScanInv
<1>2. ~InDirective(rest)
  BY <1>0 DEF InDirective, Frame
<1>3. PICK out, size, zeros, len :
        /\ out \in Seq(Chars)
        /\ Frame(ctx, Format(rest), Arguments(rest), "text", out, size, zeros, len)
        /\ due = said \o (out \o Reference(rest))
  BY <1>1, <1>2 DEF AtPiece
<1>4. ctx.out = out /\ out # <<>> /\ out \in Seq(Chars)
  BY <1>0, <1>3 DEF Frame
<1> DEFINE c == out[1]
           o == Tail(out)
           r == Reference(rest)
<1>5. c \in Chars /\ Head(out) = c /\ o \in Seq(Chars) /\ out = <<c>> \o o /\ r \in Seq(Chars)
  BY <1>4, FirstAndRest, CallParts
<1> HIDE DEF c, o, r
<1>6. Frame(ctx', Format(rest), Arguments(rest), "text", o, size, zeros, len)
  BY <1>0, <1>3 DEF Frame, Parts, o
<1>7. said' = said \o <<c>> /\ said' \in Seq(Chars)
  <2>1. said' = Append(said, c)
    BY <1>0, <1>4, <1>5
  <2> QED BY <1>0, <1>5, <2>1, AppendIsConcat
<1>8. due' = said' \o (o \o r)
  <2> DEFINE p == <<c>>
  <2>1. p \in Seq(Chars)
    BY <1>5
  <2>2. due = said \o ((p \o o) \o r)
    BY <1>3, <1>5 DEF r
  <2> HIDE DEF p
  <2>3. (p \o o) \o r = p \o (o \o r) /\ o \o r \in Seq(Chars)
    BY <1>5, <2>1, CharSeqs
  <2>4. \A x \in Seq(Chars) : (said \o p) \o x = said \o (p \o x)
    BY <1>0, <2>1, CharSeqs
  <2>5. said' = said \o p
    BY <1>7 DEF p
  <2> QED BY <1>0, <2>2, <2>3, <2>4, <2>5
<1>9. AtPiece(rest)'
  BY <1>5, <1>6, <1>8 DEF AtPiece, r
<1> QED BY <1>0, <1>1, <1>7, <1>9 DEF ScanInv

(* printk at a character between two pieces: text, or the % of a directive.*)
LEMMA PrintkAtPiece ==
  ASSUME ScanInv, printk, NEW rest \in Seq(AllPieces), AtPiece(rest)
  PROVE  \E more \in Seq(AllPieces) : AtPiece(more)' \/ InDirective(more)'
<1>0. /\ ctx.out = <<>> /\ ctx.fmt # <<>> /\ said' = said /\ due' = due /\ said \in Seq(Chars)
      /\ ctx' = [Scanned(ctx, Head(ctx.fmt)) EXCEPT !.fmt = Tail(@)]
  BY DEF printk, ScanInv
<1>1. PICK out, size, zeros, len :
        /\ out \in Seq(Chars)
        /\ Frame(ctx, Format(rest), Arguments(rest), "text", out, size, zeros, len)
        /\ due = said \o (out \o Reference(rest))
  BY DEF AtPiece
<1>2. out = <<>> /\ ctx.fmt = Format(rest)
  BY <1>0, <1>1 DEF Frame
<1>3. rest # <<>>
  BY <1>0, <1>2, CallParts
<1> DEFINE q == Head(rest)
           more == Tail(rest)
           f == Format(more)
           a == Arguments(more)
           r == Reference(more)
<1>4. /\ q \in AllPieces /\ more \in Seq(AllPieces)
      /\ Format(rest) = q.chars \o f /\ Arguments(rest) = Argument(q) \o a
      /\ Reference(rest) = Expected(q) \o r
  BY <1>3, CallParts
<1>5. f \in Seq(Chars) /\ a \in Seq(Args) /\ r \in Seq(Chars)
  BY <1>4, CallParts
<1>6. Expected(q) \in Seq(Chars)
  BY <1>4, PieceParts
<1> HIDE DEF q, more, f, a, r
<1>7. due = said \o (Expected(q) \o r)
  <2>1. <<>> \o Reference(rest) = Reference(rest)
    <3>1. Reference(rest) \in Seq(Chars)
      BY CallParts
    <3> QED BY <3>1, FirstAndRest
  <2> QED BY <1>1, <1>2, <1>4, <2>1
<1>8. CASE q \notin Directives
  <2>1. PICK c \in Chars : c # "%" /\ q.chars = <<c>> /\ Argument(q) = <<>> /\ Expected(q) = <<c>>
    BY <1>4, <1>8, TextFacts
  <2>2. ctx.fmt = <<c>> \o f /\ Arguments(rest) = a
    <3>1. <<>> \o a = a
      BY <1>5, FirstAndRest
    <3> QED BY <1>2, <1>4, <2>1, <3>1
  <2>3. Head(<<c>> \o f) = c /\ Tail(<<c>> \o f) = f
    BY <1>5, FirstAndRest
  <2>4. Frame(ctx, <<c>> \o f, a, "text", <<>>, size, zeros, len)
    BY <1>1, <1>2, <2>2
  <2>5. Frame(Scanned(ctx, c), <<c>> \o f, a, "text", <<c>>, size, zeros, len)
    BY <2>1, <2>4, ScanText
  <2>6. Frame(ctx', f, a, "text", <<c>>, size, zeros, len)
    <3>1. ctx' = [Scanned(ctx, c) EXCEPT !.fmt = Tail(@)]
      BY <1>0, <2>2, <2>3
    <3>2. Frame([Scanned(ctx, c) EXCEPT !.fmt = Tail(@)], Tail(<<c>> \o f), a, "text", <<c>>, size, zeros, len)
      BY <2>5, FormatMoved
    <3> QED BY <2>3, <3>1, <3>2
  <2>7. <<c>> \in Seq(Chars) /\ due' = said' \o (<<c>> \o r)
    BY <1>0, <1>7, <2>1
  <2>8. AtPiece(more)'
    BY <2>6, <2>7 DEF AtPiece, f, a, r
  <2> QED BY <1>4, <2>8
<1>9. CASE q \in Directives
  <2>1. /\ q.mods \in Seq(Chars) /\ q.conv \in Chars
        /\ q.chars \o f = <<"%">> \o (q.mods \o (<<q.conv>> \o f))
    BY <1>5, <1>9, DirectiveParts
  <2> DEFINE t == q.mods \o (<<q.conv>> \o f)
             g == <<"%">> \o t
             b == Argument(q) \o a
  <2>2. t \in Seq(Chars) /\ "%" \in Chars
    <3>1. <<q.conv>> \in Seq(Chars)
      BY <2>1, CharSeqs
    <3>2. <<q.conv>> \o f \in Seq(Chars)
      BY <1>5, <3>1, CharSeqs
    <3>3. t \in Seq(Chars)
      BY <2>1, <3>2, CharSeqs
    <3> QED BY <3>3 DEF Chars, Literals
  <2>3. Head(g) = "%" /\ Tail(g) = t
    <3> HIDE DEF t
    <3> QED BY <2>2, FirstAndRest
  <2>4. ctx.fmt = g /\ Frame(ctx, g, b, "text", <<>>, size, zeros, len)
    BY <1>1, <1>2, <1>4, <2>1
  <2> HIDE DEF t, g, b
  <2>5. Frame(Scanned(ctx, "%"), g, b, "mod", <<>>, 4, 0, 0)
    BY <2>4, ScanText
  <2>6. Frame(ctx', t, b, "mod", <<>>, 4, 0, 0)
    <3>1. ctx' = [Scanned(ctx, "%") EXCEPT !.fmt = Tail(@)]
      BY <1>0, <2>3, <2>4
    <3>2. Frame([Scanned(ctx, "%") EXCEPT !.fmt = Tail(@)], Tail(g), b, "mod", <<>>, 4, 0, 0)
      BY <2>5, FormatMoved
    <3> QED BY <2>3, <3>1, <3>2
  <2>7. Scanning(q, q.mods, "mod", 4, 0, 0)
    <3>1. CASE q.mods # <<>>
      BY <3>1 DEF Scanning
    <3>2. CASE q.mods = <<>>
      <4>1. ~LongMod(q.mods) /\ ZerosMod(q.mods) = 0
        <5>1. \A x, y : <<"l">> # <<>> /\ <<"h">> # <<>> /\ <<x>> # <<>> /\ <<"0", x>> # <<>> /\ <<"l", "0", x>> # <<>>
          OBVIOUS
        <5> QED BY <1>9, <3>2, <5>1, ModsOfDirective
      <4>2. q.mods # <<"h">>
        <5>1. <<>> # <<"h">>
          OBVIOUS
        <5> QED BY <3>2, <5>1
      <4>3. Final(q, 4, 0, 0)
        BY <3>2, <4>1, <4>2 DEF Final
      <4> QED BY <3>2, <4>3 DEF Scanning
    <3> QED BY <3>1, <3>2
  <2>8. due' = said' \o (Expected(q) \o r)
    BY <1>0, <1>7
  <2>9. InDirective(more)'
    BY <1>9, <2>1, <2>6, <2>7, <2>8 DEF InDirective, f, a, r, t, b
  <2> QED BY <1>4, <2>9
<1> QED BY <1>8, <1>9

(* printk inside a directive: a modifier, or the conversion.               *)
LEMMA PrintkInDirective ==
  ASSUME ScanInv, printk, NEW rest \in Seq(AllPieces), InDirective(rest)
  PROVE  \E more \in Seq(AllPieces) : AtPiece(more)' \/ InDirective(more)'
<1>0. /\ said' = said /\ due' = due /\ said \in Seq(Chars)
      /\ ctx' = [Scanned(ctx, Head(ctx.fmt)) EXCEPT !.fmt = Tail(@)]
  BY DEF printk, ScanInv
<1>1. PICK d \in Directives, left \in Seq(Chars) : \E mode, size, zeros, len :
        /\ Frame(ctx, left \o (<<d.conv>> \o Format(rest)), Argument(d) \o Arguments(rest),
                 mode, <<>>, size, zeros, len)
        /\ Scanning(d, left, mode, size, zeros, len)
        /\ due = said \o (Expected(d) \o Reference(rest))
  BY DEF InDirective
<1> DEFINE f == Format(rest)
           a == Arguments(rest)
           r == Reference(rest)
           t == <<d.conv>> \o f
           b == Argument(d) \o a
<1>2. PICK mode, size, zeros, len :
        /\ Frame(ctx, left \o t, b, mode, <<>>, size, zeros, len)
        /\ Scanning(d, left, mode, size, zeros, len)
        /\ due = said \o (Expected(d) \o r)
  BY <1>1, Zenon
<1>3. f \in Seq(Chars) /\ a \in Seq(Args) /\ r \in Seq(Chars)
  BY CallParts
<1>4. d.conv \in Chars /\ d.conv \in Conversions \cup {"%"} /\ Expected(d) \in Seq(Chars)
  BY DirectiveFacts, DirectiveParts
<1>5. t \in Seq(Chars) /\ Head(t) = d.conv /\ Tail(t) = f
  <2> HIDE DEF f
  <2> QED BY <1>3, <1>4, FirstAndRest
<1>6. due' = said' \o (Expected(d) \o r)
  BY <1>0, <1>2
<1>7. CASE left # <<>>
  <2> DEFINE c == left[1]
             w == Tail(left)
  <2>1. c \in Chars /\ w \in Seq(Chars) /\ left = <<c>> \o w
    BY <1>7, FirstAndRest
  <2> HIDE DEF f, a, r, t, b, w
  <2>2. PICK m, s, z, l :
          /\ Frame(Scanned(ctx, c), left \o t, b, m, <<>>, s, z, l)
          /\ Scanning(d, w, m, s, z, l)
    BY <1>2, <1>7, ScanModifier DEF w
  <2> HIDE DEF c
  <2>3. left \o t = <<c>> \o (w \o t) /\ w \o t \in Seq(Chars)
    <3> DEFINE p == <<c>>
    <3>1. p \in Seq(Chars) /\ w \in Seq(Chars) /\ t \in Seq(Chars)
      BY <1>5, <2>1
    <3>2. left = p \o w
      BY <2>1
    <3> HIDE DEF p
    <3>3. (p \o w) \o t = p \o (w \o t) /\ w \o t \in Seq(Chars)
      BY <3>1, CharSeqs
    <3> QED BY <3>2, <3>3 DEF p
  <2>4. Head(left \o t) = c /\ Tail(left \o t) = w \o t
    <3> DEFINE x == w \o t
    <3>1. x \in Seq(Chars) /\ left \o t = <<c>> \o x
      BY <2>3
    <3> HIDE DEF x
    <3>2. Head(<<c>> \o x) = c /\ Tail(<<c>> \o x) = x
      BY <2>1, <3>1, FirstAndRest
    <3> QED BY <3>1, <3>2 DEF x
  <2>5. ctx.fmt = left \o t
    BY <1>2 DEF Frame
  <2>6. Frame(ctx', w \o t, b, m, <<>>, s, z, l)
    <3>1. ctx' = [Scanned(ctx, c) EXCEPT !.fmt = Tail(@)]
      BY <1>0, <2>4, <2>5
    <3>2. Frame([Scanned(ctx, c) EXCEPT !.fmt = Tail(@)], Tail(left \o t), b, m, <<>>, s, z, l)
      BY <2>2, FormatMoved
    <3> QED BY <2>4, <3>1, <3>2
  <2>7. InDirective(rest)'
    BY <1>6, <2>1, <2>2, <2>6 DEF InDirective, f, a, r, t, b
  <2> QED BY <2>7
<1>8. CASE left = <<>>
  <2>1. left \o t = t
    <3> HIDE DEF t
    <3>1. <<>> \o t = t
      BY <1>5, FirstAndRest
    <3> QED BY <1>8, <3>1
  <2>2. mode \in {"mod", "zeros"} /\ Final(d, size, zeros, len)
    <3>1. ~\E x \in ToSet(Digit) : left = <<"0", x>> \/ left = <<x>>
      <4>1. \A x : <<"0", x>> # <<>> /\ <<x>> # <<>>
        OBVIOUS
      <4> QED BY <1>8, <4>1
    <3> QED BY <1>2, <1>8, <3>1 DEF Scanning
  <2> DEFINE c == d.conv
             o == Converted(ctx, c)
             as == IF c = "%" THEN b ELSE Tail(b)
  <2>3. b = (IF c = "%" THEN a ELSE <<d.arg>> \o a)
    <3>1. <<>> \o a = a
      BY <1>3, FirstAndRest
    <3> HIDE DEF a
    <3> QED BY <3>1, DirectiveFacts
  <2>4. as = a /\ (c # "%" => b[1] = d.arg)
    <3>1. d.arg \in Args
      BY DirectiveParts DEF Args
    <3> HIDE DEF a
    <3>2. Tail(<<d.arg>> \o a) = a /\ (<<d.arg>> \o a)[1] = d.arg
      BY <1>3, <3>1, FirstAndRest, OneBefore
    <3> HIDE DEF b
    <3> QED BY <2>3, <3>2
  <2> HIDE DEF f, a, r, t, b
  <2>5. Frame(ctx, t, b, mode, <<>>, size, zeros, len)
    BY <1>2, <2>1
  <2>6. Flags(ctx, d)
    <3>1. /\ ctx.number_size = size /\ ctx.leading_zeros = zeros /\ ctx.string_length = len
          /\ ctx.args = b
      BY <2>5 DEF Frame
    <3> QED BY <2>2, <2>4, <3>1 DEF Final, Flags
  <2>7. o = Expected(d)
    BY <2>6, ConvertedIsDue
  <2> HIDE DEF o, as
  <2>8. Frame(Scanned(ctx, c), t, as, "text", o, size, zeros, len)
    BY <1>4, <2>2, <2>5, ScanConversion DEF o, as
  <2>9. ctx.fmt = t
    BY <2>5 DEF Frame
  <2>10. Frame(ctx', f, a, "text", o, size, zeros, len)
    <3>1. ctx' = [Scanned(ctx, c) EXCEPT !.fmt = Tail(@)]
      BY <1>0, <1>5, <2>9
    <3>2. Frame([Scanned(ctx, c) EXCEPT !.fmt = Tail(@)], Tail(t), as, "text", o, size, zeros, len)
      BY <2>8, FormatMoved
    <3> QED BY <1>5, <2>4, <3>1, <3>2
  <2>11. AtPiece(rest)'
    BY <1>4, <1>6, <2>7, <2>10 DEF AtPiece, f, a, r
  <2> QED BY <2>11
<1> QED BY <1>7, <1>8

(* Every step of printk.                                                   *)
LEMMA PrintkScanInv ==
  ASSUME ScanInv, printk
  PROVE  ScanInv'
<1>1. /\ ctx.out = <<>> /\ program' = program /\ made' = made /\ said' = said /\ polled' = polled
  BY DEF printk
<1>2. polled = FALSE
  BY <1>1 DEF ScanInv
<1>3. \E more \in Seq(AllPieces) : AtPiece(more)' \/ InDirective(more)'
  BY PrintkAtPiece, PrintkInDirective DEF ScanInv
<1> QED BY <1>1, <1>2, <1>3 DEF ScanInv

(* The log says what the calls are to print, for every program of calls,   *)
(* every value of an argument, every width of a byte and every place where *)
(* a last message may cut another one short.                               *)
THEOREM LogSaysWhatIsDue == Spec => []PrintsWhatIsDue
<1>1. ScanInv /\ [Next]_vars => ScanInv'
  <2> SUFFICES ASSUME ScanInv, [Next]_vars PROVE ScanInv'
    OBVIOUS
  <2>0. program \in Programs /\ made \in 0..Len(program) /\ polled \in BOOLEAN /\ said \in Seq(Chars)
        /\ (polled = TRUE => ctx.out # <<>>)
    BY DEF ScanInv
  <2>1. CASE printk
    BY <2>1, PrintkScanInv
  <2>2. CASE init_serial
    BY <2>0, <2>2, ScanAlone DEF init_serial
  <2>3. CASE Poll
    BY <2>0, <2>3, ScanAlone DEF Poll
  <2>4. CASE putc
    BY <2>4, PutcScanInv
  <2>5. CASE NextCall
    <3>1. said = due /\ polled = FALSE
      BY <2>5, NothingLeft DEF NextCall
    <3>2. program \in Seq(AllCalls)
      BY <2>0, AllFormed
    <3>3. made' \in 1..Len(program) /\ program[made'] \in AllCalls
      BY <2>0, <2>5, <3>2 DEF NextCall
    <3>4. /\ ctx' = Enter(program[made']) /\ due' = said \o Reference(program[made'])
          /\ program' = program /\ said' = said /\ polled' = FALSE /\ made' \in 0..Len(program)
      BY <2>5, <3>1, <3>3 DEF NextCall
    <3> DEFINE call == program[made']
    <3>5. call \in AllCalls /\ ctx' = Enter(call) /\ due' = said \o Reference(call)
      BY <3>3, <3>4
    <3> HIDE DEF call
    <3> QED BY <3>4, <3>5, EnterScanInv
  <2>6. CASE Load
    BY <2>0, <2>6, ScanAlone DEF Load
  <2>7. CASE Send
    BY <2>0, <2>7, ScanAlone DEF Send
  <2>8. CASE Trap
    BY <2>0, <2>8, AllFormed, EnterScanInv DEF Trap
  <2>9. CASE UNCHANGED vars
    BY <2>0, <2>9, ScanAlone DEF vars
  <2> QED BY <2>1, <2>2, <2>3, <2>4, <2>5, <2>6, <2>7, <2>8, <2>9 DEF Next, Kernel, Port
<1>2. ScanInv => PrintsWhatIsDue
  <2> SUFFICES ASSUME ScanInv PROVE PrintsWhatIsDue
    OBVIOUS
  <2>1. \E x \in Seq(Chars) : due = said \o x
    <3>1. PICK rest \in Seq(AllPieces) : AtPiece(rest) \/ InDirective(rest)
      BY DEF ScanInv
    <3>2. Reference(rest) \in Seq(Chars)
      BY CallParts
    <3>3. ASSUME AtPiece(rest) PROVE \E x \in Seq(Chars) : due = said \o x
      BY <3>2, <3>3, CharSeqs DEF AtPiece
    <3>4. ASSUME InDirective(rest) PROVE \E x \in Seq(Chars) : due = said \o x
      <4>1. \A d \in Directives : Expected(d) \in Seq(Chars)
        BY DirectiveParts
      <4>2. PICK d \in Directives : due = said \o (Expected(d) \o Reference(rest))
        BY <3>4 DEF InDirective
      <4> QED BY <3>2, <4>1, <4>2, CharSeqs
    <3> QED BY <3>1, <3>3, <3>4
  <2>2. said \in Seq(Chars)
    BY DEF ScanInv
  <2>3. IsPrefix(said, due)
    <3>1. PICK x \in Seq(Chars) : due = said \o x
      BY <2>1
    <3>2. /\ Len(said \o x) = Len(said) + Len(x) /\ Len(said) \in Nat /\ Len(x) \in Nat
          /\ said \o x \in Seq(Chars)
          /\ \A k \in 1..Len(said) : (said \o x)[k] = said[k]
      BY <2>2
    <3>3. SubSeq(said \o x, 1, Len(said)) = said
      BY <2>2, <3>2
    <3> QED BY <3>1, <3>2, <3>3 DEF IsPrefix
  <2>4. ~Working => said = due
    BY NothingLeft
  <2> QED BY <2>3, <2>4 DEF PrintsWhatIsDue
<1> QED BY InitScanInv, <1>1, <1>2, PTL DEF Spec
=============================================================================
