----------------------------- MODULE Ps7Proofs -----------------------------
(***************************************************************************)
(* What Ps7Init promises, for every poll limit and any number of calls.    *)
(*                                                                         *)
(* The proof has two halves.  The first is about the tables alone: what    *)
(* each of them writes, in which order, and what it leaves alone (the      *)
(* shapes below), established for the tables of the three silicon versions *)
(* from the pieces they are put together of: those of version 1 by name,   *)
(* those of the other two by comparison.  The second is about their        *)
(* interpretation: an invariant says what is true of the registers and of  *)
(* the hardware once ps7_init has passed a given instruction, and it is    *)
(* kept by every step because of the shape of the table under way.         *)
(***************************************************************************)
EXTENDS Ps7Init, Ps7Silicon1, SequenceTheorems, TLAPS

-----------------------------------------------------------------------------
(* Instructions and tables.                                                  *)

Opcodes == {"EXIT", "WRITE", "MASKWRITE", "MASKPOLL"}

(* A write that changes something, and the values it writes.                 *)
Sets(ins, reg) == /\ ins.opcode = "MASKWRITE" /\ ins.reg = reg
                  /\ ins.fields # NoFields

(* A table is a sequence of instructions that ends with its only EXIT.       *)
WellFormed(t) ==
  /\ Len(t) \in Nat \ {0} /\ DOMAIN t = 1..Len(t)
  /\ \A k \in 1..Len(t) :
       /\ t[k].opcode \in Opcodes
       /\ t[k].opcode = "EXIT" <=> k = Len(t)
       /\ t[k].opcode = "MASKWRITE" =>
            \A f \in DOMAIN t[k].fields : t[k].fields[f] \in Nat

(* It writes registers of the SLCR between its first instruction, which      *)
(* gives the key, and instruction l, which takes it away.                    *)
KeyedUpTo(t, l) ==
  /\ l \in 2..(Len(t) - 1) /\ t[1] = Unlock /\ t[l] = Lock
  /\ \A k \in 1..Len(t) :
       /\ t[k].opcode = "WRITE" => k \in {1, l}
       /\ t[k].opcode = "MASKWRITE" /\ IsSlcr(t[k].reg) => k < l

NoKeys(t) == \A k \in 1..Len(t) : /\ t[k].opcode # "WRITE"
                                  /\ t[k].opcode = "MASKWRITE" => ~IsSlcr(t[k].reg)

(* It sets no register but those of R.                                       *)
SetsOnly(t, R) == \A k \in 1..Len(t) : \A reg \in Registers : Sets(t[k], reg) => reg \in R

(* It touches only the blocks of B.                                          *)
WritesOnly(t, B) == \A k \in 1..Len(t) : t[k].opcode = "MASKWRITE" => t[k].reg[1] \in B

BuffersStayOn(t) ==
  \A k \in 1..Len(t) : Sets(t[k], SLCR(\hB48)) => t[k].fields["IBUF_DISABLE_MODE"] = 0

(* The last word on the transmit pin of the UART.                            *)
UartTx == EMIT_MASKWRITE(MIO(47), [TRI_ENABLE |-> 0, L0_SEL |-> 0, L3_SEL |-> 7])

LastOnPin(t, k) == /\ k \in 1..Len(t) /\ t[k] = UartTx
                   /\ \A l \in (k + 1)..Len(t) : ~Sets(t[l], MIO(47))

Pads == {SLCR(\hB48), SLCR(\hB50), SLCR(\hB70), MIO(46), MIO(47)}

(* The pins: the buffers of the pads stay on.                                *)
MioShape(t) ==
  /\ WellFormed(t) /\ KeyedUpTo(t, Len(t) - 1) /\ WritesOnly(t, {"SLCR"})
  /\ SetsOnly(t, Pads) /\ BuffersStayOn(t)
  /\ \E k \in 1..Len(t) : LastOnPin(t, k)

(* The row of a PLL starts at instruction First[p].                          *)
First == [ARM |-> 2, DDR |-> 10, IO |-> 18]

PollOf == [ARM |-> "ARM_PLL_LOCK", DDR |-> "DDR_PLL_LOCK", IO |-> "IO_PLL_LOCK"]

Row(t, p, n) ==
  LET b == First[p]
  IN /\ t[b+1] = EMIT_MASKWRITE(Ctrl[p], [PLL_FDIV |-> n])
     /\ t[b+2] = EMIT_MASKWRITE(Ctrl[p], [PLL_BYPASS_FORCE |-> 1])
     /\ t[b+3] = EMIT_MASKWRITE(Ctrl[p], [PLL_RESET |-> 1])
     /\ t[b+4] = EMIT_MASKWRITE(Ctrl[p], [PLL_RESET |-> 0])
     /\ t[b+5] = EMIT_MASKPOLL(SLCR(\h10C), PollOf[p])
     /\ t[b+6] = EMIT_MASKWRITE(Ctrl[p], [PLL_BYPASS_FORCE |-> 0])
     /\ \A k \in 1..Len(t) : Sets(t[k], Ctrl[p]) => k \in {b+1, b+2, b+3, b+4, b+6}

(* The two clocks of the DDR.                                                *)
DdrClocksOn == EMIT_MASKWRITE(SLCR(\h124), [DDR_3XCLKACT |-> 1, DDR_2XCLKACT |-> 1])

(* The PLLs, and then the clocks of the DDR made of the second.              *)
PllShape(t) ==
  /\ WellFormed(t) /\ Len(t) = 26 /\ KeyedUpTo(t, 25) /\ WritesOnly(t, {"SLCR"})
  /\ SetsOnly(t, PllCtrls \cup {SLCR(\h124)})
  /\ \A p \in Plls : \E n \in Nat \ {RomDivider} : Row(t, p, n)
  /\ t[17] = DdrClocksOn /\ \A k \in 1..26 : Sets(t[k], SLCR(\h124)) => k = 17

(* The clocks of the buses of the UART and of the flash memory.              *)
PeripheralClocksOn ==
  EMIT_MASKWRITE(SLCR(\h12C), [UART0_CPU_1XCLKACT |-> 1, LQSPI_CPU_1XCLKACT |-> 1])

(* The clocks: each of two registers is written once.                        *)
ClockShape(t) ==
  /\ WellFormed(t) /\ Len(t) = 15 /\ KeyedUpTo(t, 14) /\ WritesOnly(t, {"SLCR"})
  /\ SetsOnly(t, {SLCR(\h128), SLCR(\h154), SLCR(\h12C)})
  /\ t[7] = EMIT_MASKWRITE(SLCR(\h154), [CLKACT0 |-> 1, CLKACT1 |-> 0])
  /\ t[12] = PeripheralClocksOn
  /\ \A k \in 1..15 : /\ Sets(t[k], SLCR(\h154)) => k = 7
                      /\ Sets(t[k], SLCR(\h12C)) => k = 12

(* The DDR controller is in reset from the first write to the last but one.  *)
DdrShape(t) ==
  LET n == Len(t)
  IN /\ WellFormed(t) /\ n \in Nat /\ n > 4 /\ NoKeys(t) /\ WritesOnly(t, {"DDRC"})
     /\ SetsOnly(t, {DDRC(\h000)})
     /\ t[1] = SoftReset(0)
     /\ t[n-3] = EMIT_MASKPOLL(SLCR(\hB74), "DONE")
     /\ t[n-2] = SoftReset(1)
     /\ t[n-1] = EMIT_MASKPOLL(DDRC(\h054), "ddrc_reg_operating_mode")
     /\ \A k \in 1..n : Sets(t[k], DDRC(\h000)) => k \in {1, n-2}
     /\ \A k \in 1..n : t[k].opcode = "MASKWRITE" /\ k # n-2 => k < n-3

(* The terminations of the pads, and the UART after its baud rate.           *)
PeripheralsShape(t) ==
  /\ WellFormed(t) /\ Len(t) = 13 /\ KeyedUpTo(t, 6)
  /\ WritesOnly(t, {"SLCR", "UART0", "QSPI", "DEVCFG"})
  /\ SetsOnly(t, {SLCR(\hB48), SLCR(\hB50), UART0(\h00)})
  /\ t[9] = EMIT_MASKWRITE(UART0(\h00), [TXEN |-> 1, TXDIS |-> 0])
  /\ \A k \in 1..13 : Sets(t[k], UART0(\h00)) => k = 9

(* The level shifters first, the reset of the fabric after them.             *)
PostConfigShape(t) ==
  /\ WellFormed(t) /\ KeyedUpTo(t, 6) /\ WritesOnly(t, {"SLCR", "AFI0"})
  /\ SetsOnly(t, {SLCR(\h900), SLCR(\h240)})
  /\ t[2] = EMIT_MASKWRITE(SLCR(\h900), [USER_LVL_EN |-> 1])
  /\ \A k \in 1..Len(t) : /\ Sets(t[k], SLCR(\h900)) => k = 2
                          /\ Sets(t[k], SLCR(\h240)) => k > 2

(* The trace components: no register that anybody here reads.                *)
DebugShape(t) == /\ WellFormed(t) /\ SetsOnly(t, {})
                 /\ \A k \in 1..Len(t) : t[k].opcode # "MASKWRITE"

(* The five of ps7_init, and all.                                            *)
InitTablesShape(ts) ==
  /\ Len(ts) = 5 /\ DOMAIN ts = 1..5
  /\ MioShape(ts[1]) /\ PllShape(ts[2]) /\ ClockShape(ts[3])
  /\ DdrShape(ts[4]) /\ PeripheralsShape(ts[5])

TablesShape == /\ InitTablesShape(InitTables)
               /\ PostConfigShape(PostConfigTable) /\ DebugShape(DebugTable)

-----------------------------------------------------------------------------
(* Registers.                                                                *)

(* The PLLs, their registers, and where their rows start.                    *)
LEMMA PllFacts ==
  /\ Plls = {"ARM", "DDR", "IO"}
  /\ Ctrl["ARM"] = SLCR(\h100) /\ Ctrl["DDR"] = SLCR(\h104) /\ Ctrl["IO"] = SLCR(\h108)
  /\ First["ARM"] = 2 /\ First["DDR"] = 10 /\ First["IO"] = 18
  BY DEF Plls, Ctrl, First

(* Registers have different names.                                           *)
LEMMA CtrlNames ==
  /\ \A o : SLCR(o) \in PllCtrls => o \in {\h100, \h104, \h108}
  /\ \A o : DDRC(o) \notin PllCtrls /\ UART0(o) \notin PllCtrls
<1>1. \A o : SLCR(o) \in PllCtrls => o \in {\h100, \h104, \h108}
  BY PllFacts DEF SLCR, PllCtrls
<1>2. \A o : DDRC(o) \notin PllCtrls /\ UART0(o) \notin PllCtrls
  BY PllFacts DEF SLCR, DDRC, UART0, PllCtrls
<1> QED BY <1>1, <1>2

-----------------------------------------------------------------------------
(* How tables are put together.                                              *)

(* Two sequences of instructions, one after the other.                       *)
LEMMA Joined ==
  ASSUME NEW S, NEW s \in Seq(S), NEW r \in Seq(S)
  PROVE  /\ s \o r \in Seq(S) /\ Len(s \o r) = Len(s) + Len(r)
         /\ Len(s) \in Nat /\ Len(r) \in Nat
         /\ \A k \in 1..Len(s) : (s \o r)[k] = s[k]
         /\ \A k \in 1..Len(r) : (s \o r)[Len(s) + k] = r[k]
<1>1. Len(s) \in Nat /\ Len(r) \in Nat
  OBVIOUS
<1>2. s \o r \in Seq(S) /\ Len(s \o r) = Len(s) + Len(r)
  BY ConcatProperties
<1>3. \A k \in 1..(Len(s) + Len(r)) :
        (s \o r)[k] = IF k <= Len(s) THEN s[k] ELSE r[k - Len(s)]
  BY ConcatProperties
<1>4. \A k \in 1..Len(s) : (s \o r)[k] = s[k]
  BY <1>1, <1>3
<1>5. ASSUME NEW k \in 1..Len(r)
      PROVE  (s \o r)[Len(s) + k] = r[k]
  <2>1. Len(s) + k \in 1..(Len(s) + Len(r)) /\ ~(Len(s) + k <= Len(s)) /\ Len(s) + k - Len(s) = k
    BY <1>1
  <2> QED BY <1>3, <2>1
<1> QED BY <1>1, <1>2, <1>4, <1>5

(* Writes that change nothing anybody reads.                                 *)
Configs(block) == {EMIT_MASKWRITE(<<block, o>>, NoFields) : o \in Nat}

(* Such a write sets nothing.                                                *)
LEMMA ConfigsFacts ==
  ASSUME NEW block, NEW ins \in Configs(block)
  PROVE  /\ ins.opcode = "MASKWRITE" /\ ins.reg[1] = block /\ ins.fields = NoFields
         /\ \A f \in DOMAIN ins.fields : ins.fields[f] \in Nat
         /\ \A reg : ~Sets(ins, reg)
<1>1. ins.opcode = "MASKWRITE" /\ ins.reg[1] = block /\ ins.fields = NoFields
  BY DEF Configs, EMIT_MASKWRITE
<1>2. DOMAIN NoFields = {}
  BY DEF NoFields
<1> QED BY <1>1, <1>2 DEF Sets

(* A list of registers to configure makes as many of them.                   *)
LEMMA ConfigSeq ==
  ASSUME NEW block, NEW offsets \in Seq(Nat)
  PROVE  Config(block, offsets) \in Seq(Configs(block))
         /\ Len(Config(block, offsets)) = Len(offsets)
<1>1. DOMAIN offsets = 1..Len(offsets) /\ Len(offsets) \in Nat
      /\ \A k \in 1..Len(offsets) : offsets[k] \in Nat
  OBVIOUS
<1>2. \A k \in 1..Len(offsets) : EMIT_MASKWRITE(<<block, offsets[k]>>, NoFields) \in Configs(block)
  BY <1>1 DEF Configs
<1>3. Config(block, offsets) = [k \in 1..Len(offsets) |->
                                  EMIT_MASKWRITE(<<block, offsets[k]>>, NoFields)]
  BY <1>1 DEF Config
<1> QED BY <1>1, <1>2, <1>3

(* The offsets of consecutive registers are numbers.                         *)
LEMMA FromSeq ==
  ASSUME NEW a \in Nat, NEW b \in Nat, a <= b
  PROVE  From(a, b) \in Seq(Nat)
<1>1. (b - a) \div 4 + 1 \in Nat
  OBVIOUS
<1>2. \A k \in 1..((b - a) \div 4 + 1) : a + 4 * (k - 1) \in Nat
  BY <1>1
<1> QED BY <1>1, <1>2 DEF From

(* A list of pins makes a write for each.                                    *)
LEMMA PinsSeq ==
  ASSUME NEW a \in Nat, NEW b \in Nat, a <= b, NEW fields
  PROVE  Pins(a, b, fields) \in Seq({EMIT_MASKWRITE(MIO(pin), fields) : pin \in a..b})
<1> DEFINE n == b - a + 1
           S == {EMIT_MASKWRITE(MIO(pin), fields) : pin \in a..b}
           write(k) == EMIT_MASKWRITE(MIO(a + k - 1), fields)
<1>1. n \in Nat
  OBVIOUS
<1>2. \A k \in 1..n : a + k - 1 \in a..b
  BY <1>1
<1>3. \A k \in 1..n : write(k) \in S
  BY <1>2
<1>4. Pins(a, b, fields) = [k \in 1..n |-> write(k)]
  BY DEF Pins
<1> HIDE DEF n, S, write
<1>5. [k \in 1..n |-> write(k)] \in Seq(S)
  BY ONLY <1>1, <1>3
<1> QED BY <1>4, <1>5 DEF S

(* A table made of its parts: the keys around the body, and EXIT.            *)
Plain(S) == \A ins \in S :
  /\ ins.opcode \in {"MASKWRITE", "MASKPOLL"}
  /\ ins.opcode = "MASKWRITE" => \A f \in DOMAIN ins.fields : ins.fields[f] \in Nat

(* Where the keys are, and what is between them.                             *)
LEMMA UnlockedSeq ==
  ASSUME NEW S, NEW body \in Seq(S)
  PROVE  /\ Unlocked(body) \in Seq(S \cup {Unlock, Lock}) /\ Len(body) \in Nat
         /\ Len(Unlocked(body)) = Len(body) + 2
         /\ Unlocked(body)[1] = Unlock /\ Unlocked(body)[Len(body) + 2] = Lock
         /\ \A k \in 1..Len(body) : Unlocked(body)[k + 1] = body[k]
<1> DEFINE T == S \cup {Unlock, Lock}
<1>1. body \in Seq(T) /\ <<Unlock>> \in Seq(T) /\ <<Lock>> \in Seq(T)
  <2>1. body \in Seq(T)
    BY SeqMonotonic
  <2> QED BY <2>1
<1>2. Len(<<Unlock>>) = 1 /\ <<Unlock>>[1] = Unlock /\ Len(<<Lock>>) = 1 /\ <<Lock>>[1] = Lock
  OBVIOUS
<1> HIDE DEF T
<1>3. /\ <<Unlock>> \o body \in Seq(T) /\ Len(<<Unlock>> \o body) = 1 + Len(body)
      /\ Len(body) \in Nat /\ (<<Unlock>> \o body)[1] = Unlock
      /\ \A k \in 1..Len(body) : (<<Unlock>> \o body)[1 + k] = body[k]
  BY <1>1, <1>2, Joined
<1> DEFINE u == <<Unlock>> \o body
<1> HIDE DEF u
<1>4. /\ u \o <<Lock>> \in Seq(T) /\ Len(u \o <<Lock>>) = Len(body) + 2
      /\ \A k \in 1..Len(u) : (u \o <<Lock>>)[k] = u[k]
      /\ (u \o <<Lock>>)[Len(body) + 2] = Lock
  <2>1. u \in Seq(T) /\ Len(u) = 1 + Len(body) /\ Len(body) \in Nat
    BY <1>3 DEF u
  <2>2. /\ u \o <<Lock>> \in Seq(T) /\ Len(u \o <<Lock>>) = Len(u) + 1
        /\ \A k \in 1..Len(u) : (u \o <<Lock>>)[k] = u[k]
        /\ (u \o <<Lock>>)[Len(u) + 1] = Lock
    BY <1>1, <1>2, <2>1, Joined
  <2>3. Len(u) + 1 = Len(body) + 2
    BY <2>1
  <2> QED BY <2>2, <2>3
<1>5. Unlocked(body) = u \o <<Lock>>
  BY DEF Unlocked, u
<1>6. \A k \in 1..Len(body) : k + 1 \in 1..Len(u) /\ u[k + 1] = body[k]
  BY <1>3 DEF u
<1>7. u[1] = Unlock /\ 1 \in 1..Len(u)
  BY <1>3 DEF u
<1> QED BY <1>3, <1>4, <1>5, <1>6, <1>7 DEF T

(* The instructions of a table are what it is put together of.               *)
LEMMA ElementIn ==
  ASSUME NEW S, NEW s \in Seq(S)
  PROVE  \A k \in 1..Len(s) : s[k] \in S
  OBVIOUS

(* A list of four has four elements.                                         *)
LEMMA FourOf ==
  ASSUME NEW C, NEW c \in Seq(C), Len(c) = 4
  PROVE  \E c1 \in C, c2 \in C, c3 \in C, c4 \in C : c = <<c1, c2, c3, c4>>
<1>1. c[1] \in C /\ c[2] \in C /\ c[3] \in C /\ c[4] \in C
  <2>1. \A k \in 1..Len(c) : c[k] \in C
    BY ElementIn
  <2> QED BY ONLY <2>1, Len(c) = 4
<1>2. c = <<c[1], c[2], c[3], c[4]>>
  OBVIOUS
<1> QED BY <1>1, <1>2

(* A list of one has one.                                                    *)
LEMMA OneOf ==
  ASSUME NEW C, NEW c \in Seq(C), Len(c) = 1
  PROVE  \E c1 \in C : c = <<c1>>
<1>1. c[1] \in C
  BY ElementIn
<1>2. c = <<c[1]>>
  OBVIOUS
<1> QED BY <1>1, <1>2

Around(t, body) ==
  /\ WellFormed(t) /\ Len(t) = Len(body) + 3 /\ Len(body) \in Nat
  /\ KeyedUpTo(t, Len(t) - 1)
  /\ t[1] = Unlock /\ t[Len(body) + 2] = Lock /\ t[Len(body) + 3] = EMIT_EXIT
  /\ \A k \in 1..Len(body) : t[k + 1] = body[k]

(* A table of writes and polls between the keys is well formed.              *)
LEMMA TableOf ==
  ASSUME NEW S, Plain(S), NEW body \in Seq(S), NEW t, t = Unlocked(body) \o <<EMIT_EXIT>>
  PROVE  Around(t, body)
<1> DEFINE u == Unlocked(body)
           T == S \cup {Unlock, Lock, EMIT_EXIT}
           n == Len(body)
<1>1. u \in Seq(S \cup {Unlock, Lock}) /\ n \in Nat /\ Len(u) = n + 2 /\ u[1] = Unlock
      /\ u[n + 2] = Lock /\ \A k \in 1..n : u[k + 1] = body[k]
  BY UnlockedSeq
<1>2. u \in Seq(T) /\ <<EMIT_EXIT>> \in Seq(T)
  <2>1. u \in Seq(T)
    BY <1>1, SeqMonotonic
  <2> QED BY <2>1
<1>3. \A k \in 1..n : body[k] \in S
  OBVIOUS
<1>4. t = u \o <<EMIT_EXIT>>
  OBVIOUS
<1>5. Len(<<EMIT_EXIT>>) = 1 /\ <<EMIT_EXIT>>[1] = EMIT_EXIT
  OBVIOUS
<1> HIDE DEF u, T
<1>6. /\ t \in Seq(T) /\ Len(t) = Len(u) + 1 /\ t[Len(u) + 1] = EMIT_EXIT
      /\ \A k \in 1..Len(u) : t[k] = u[k]
  <2> DEFINE e == <<EMIT_EXIT>>
  <2>1. u \in Seq(T) /\ e \in Seq(T)
    BY <1>2
  <2>4. Len(e) = 1 /\ e[1] = EMIT_EXIT /\ t = u \o e
    BY <1>4, <1>5
  <2> HIDE DEF e
  <2>2. /\ u \o e \in Seq(T) /\ Len(u \o e) = Len(u) + Len(e)
        /\ \A k \in 1..Len(u) : (u \o e)[k] = u[k]
        /\ \A k \in 1..Len(e) : (u \o e)[Len(u) + k] = e[k]
    BY ONLY <2>1, Joined
  <2>3. 1 \in 1..Len(e)
    BY <2>4
  <2> QED BY <2>4, <2>2, <2>3
<1> HIDE DEF n
<1>7. /\ Len(t) = n + 3 /\ t[n + 3] = EMIT_EXIT /\ t[1] = Unlock /\ t[n + 2] = Lock
      /\ DOMAIN t = 1..(n + 3)
  BY <1>1, <1>6
<1>8. \A k \in 1..n : t[k + 1] = body[k]
  BY <1>1, <1>6
<1>9. \A k \in 1..(n + 3) : \/ k = 1 /\ t[k] = Unlock
                            \/ k = n + 2 /\ t[k] = Lock
                            \/ k = n + 3 /\ t[k] = EMIT_EXIT
                            \/ k \in 2..(n + 1) /\ t[k] \in S
  <2> TAKE k \in 1..(n + 3)
  <2>1. CASE k \in 2..(n + 1)
    <3>1. k - 1 \in 1..n /\ (k - 1) + 1 = k
      BY <1>1, <2>1
    <3> QED BY <1>3, <1>8, <2>1, <3>1
  <2>2. CASE k \notin 2..(n + 1)
    <3>1. k \in {1, n + 2, n + 3}
      <4>1. n \in Nat /\ k \in Nat /\ k >= 1 /\ k <= n + 3
        BY <1>1
      <4>2. ~(2 <= k /\ k <= n + 1)
        BY <2>2, <4>1
      <4> QED BY <4>1, <4>2
    <3>2. k = 1 => t[k] = Unlock
      BY <1>7
    <3>3. k = n + 2 => t[k] = Lock
      BY <1>7
    <3>4. k = n + 3 => t[k] = EMIT_EXIT
      BY <1>7
    <3>5. k = 1 \/ k = n + 2 \/ k = n + 3
      BY <3>1
    <3> QED BY ONLY <3>2, <3>3, <3>4, <3>5
  <2> QED BY <2>1, <2>2
<1>10. /\ Unlock.opcode = "WRITE" /\ Lock.opcode = "WRITE" /\ EMIT_EXIT.opcode = "EXIT"
  BY DEF Unlock, Lock, EMIT_WRITE, EMIT_EXIT
<1>11. \A ins \in S : /\ ins.opcode \in {"MASKWRITE", "MASKPOLL"}
                      /\ ins.opcode = "MASKWRITE" =>
                           \A f \in DOMAIN ins.fields : ins.fields[f] \in Nat
  BY DEF Plain
<1>12. WellFormed(t)
  <2>1. \A k \in 1..(n + 3) : t[k].opcode \in Opcodes /\ (t[k].opcode = "EXIT" <=> k = n + 3)
    <3> TAKE k \in 1..(n + 3)
    <3>1. n + 3 # 1 /\ n + 3 # n + 2 /\ n + 3 \notin 2..(n + 1)
      BY <1>1
    <3>2. CASE t[k] \in S /\ k \in 2..(n + 1)
      BY <1>11, <3>1, <3>2 DEF Opcodes
    <3>3. CASE t[k] \notin S \/ k \notin 2..(n + 1)
      BY <1>9, <1>10, <3>1, <3>3 DEF Opcodes
    <3> QED BY <3>2, <3>3
  <2>2. \A k \in 1..(n + 3) : t[k].opcode = "MASKWRITE" =>
          \A f \in DOMAIN t[k].fields : t[k].fields[f] \in Nat
    BY <1>9, <1>10, <1>11
  <2>3. n + 3 \in Nat \ {0}
    BY <1>1
  <2> QED BY <1>7, <2>1, <2>2, <2>3 DEF WellFormed
<1>13. KeyedUpTo(t, n + 2)
  <2>1. n + 2 \in 2..(Len(t) - 1)
    BY <1>1, <1>7
  <2>2. \A k \in 1..(n + 3) : /\ t[k].opcode = "WRITE" => k \in {1, n + 2}
                              /\ t[k].opcode = "MASKWRITE" => k < n + 2
    <3> TAKE k \in 1..(n + 3)
    <3>1. CASE t[k] \in {Unlock, Lock, EMIT_EXIT} /\ k \in {1, n + 2, n + 3}
      BY <1>7, <1>10, <3>1
    <3>2. CASE t[k] \in S /\ k \in 2..(n + 1)
      <4>1. t[k].opcode # "WRITE"
        BY <1>11, <3>2
      <4>2. k < n + 2
        BY <1>1, <3>2
      <4> QED BY <4>1, <4>2
    <3> QED BY <1>9, <3>1, <3>2
  <2> QED BY <1>7, <2>1, <2>2 DEF KeyedUpTo
<1>14. Len(t) - 1 = n + 2
  BY <1>1, <1>7
<1> QED BY <1>1, <1>7, <1>8, <1>12, <1>13, <1>14 DEF n, Around

(* What a masked write sets.                                                 *)
LEMMA SetsOf ==
  /\ \A reg, fields, r : Sets(EMIT_MASKWRITE(reg, fields), r) <=>
                            r = reg /\ fields # NoFields
  /\ \A reg, fields : EMIT_MASKWRITE(reg, fields).opcode = "MASKWRITE"
                      /\ EMIT_MASKWRITE(reg, fields).reg = reg
                      /\ EMIT_MASKWRITE(reg, fields).fields = fields
  /\ \A reg, status, r : ~Sets(EMIT_MASKPOLL(reg, status), r)
                         /\ EMIT_MASKPOLL(reg, status).opcode = "MASKPOLL"
  /\ \A reg, fields, r : ~Sets(EMIT_WRITE(reg, fields), r)
                         /\ EMIT_WRITE(reg, fields).opcode = "WRITE"
  /\ \A r : ~Sets(Unlock, r) /\ ~Sets(Lock, r) /\ ~Sets(EMIT_EXIT, r)
  /\ Unlock.opcode = "WRITE" /\ Lock.opcode = "WRITE" /\ EMIT_EXIT.opcode = "EXIT"
<1>1. \A reg, fields, r : Sets(EMIT_MASKWRITE(reg, fields), r) <=>
                            r = reg /\ fields # NoFields
  BY DEF Sets, EMIT_MASKWRITE
<1>2. \A reg, fields : EMIT_MASKWRITE(reg, fields).opcode = "MASKWRITE"
                      /\ EMIT_MASKWRITE(reg, fields).reg = reg
                      /\ EMIT_MASKWRITE(reg, fields).fields = fields
  BY DEF EMIT_MASKWRITE
<1>3. \A reg, status, r : ~Sets(EMIT_MASKPOLL(reg, status), r)
                         /\ EMIT_MASKPOLL(reg, status).opcode = "MASKPOLL"
  BY DEF Sets, EMIT_MASKPOLL
<1>4. \A reg, fields, r : ~Sets(EMIT_WRITE(reg, fields), r)
                         /\ EMIT_WRITE(reg, fields).opcode = "WRITE"
  BY DEF Sets, EMIT_WRITE
<1>5. /\ \A r : ~Sets(Unlock, r) /\ ~Sets(Lock, r) /\ ~Sets(EMIT_EXIT, r)
      /\ Unlock.opcode = "WRITE" /\ Lock.opcode = "WRITE" /\ EMIT_EXIT.opcode = "EXIT"
  BY DEF Sets, Unlock, Lock, EMIT_WRITE, EMIT_EXIT
<1> QED BY <1>1, <1>2, <1>3, <1>4, <1>5

(* Masked writes to the SLCR.                                                *)
InSlcr(S) == \A ins \in S : ins.opcode = "MASKWRITE" => ins.reg[1] = "SLCR"
-----------------------------------------------------------------------------
(* The PLLs.                                                                 *)

(* The three silicon versions have the same table.                           *)
LEMMA SamePll ==
  /\ Silicon1!ps7_pll_init_data = ps7_pll_init_data
  /\ Silicon2!ps7_pll_init_data = ps7_pll_init_data
  /\ Silicon3!ps7_pll_init_data = ps7_pll_init_data
<1>1. Silicon1!ps7_pll_init_data = ps7_pll_init_data
  BY DEF ps7_pll_init_data, ArmPllInit, DdrPllInit, IoPllInit, PLL_INIT, Unlocked,
         Unlock, Lock, EMIT_WRITE, EMIT_MASKWRITE, EMIT_MASKPOLL, EMIT_EXIT, SLCR,
         Config, NoFields, Silicon1!ps7_pll_init_data, Silicon1!ArmPllInit,
         Silicon1!DdrPllInit, Silicon1!IoPllInit, Silicon1!PLL_INIT, Silicon1!Unlocked,
         Silicon1!Unlock, Silicon1!Lock, Silicon1!EMIT_WRITE, Silicon1!EMIT_MASKWRITE,
         Silicon1!EMIT_MASKPOLL, Silicon1!EMIT_EXIT, Silicon1!SLCR, Silicon1!Config,
         Silicon1!NoFields
<1>2. Silicon2!ps7_pll_init_data = ps7_pll_init_data
  BY DEF ps7_pll_init_data, ArmPllInit, DdrPllInit, IoPllInit, PLL_INIT, Unlocked,
         Unlock, Lock, EMIT_WRITE, EMIT_MASKWRITE, EMIT_MASKPOLL, EMIT_EXIT, SLCR,
         Config, NoFields, Silicon2!ps7_pll_init_data, Silicon2!ArmPllInit,
         Silicon2!DdrPllInit, Silicon2!IoPllInit, Silicon2!PLL_INIT, Silicon2!Unlocked,
         Silicon2!Unlock, Silicon2!Lock, Silicon2!EMIT_WRITE, Silicon2!EMIT_MASKWRITE,
         Silicon2!EMIT_MASKPOLL, Silicon2!EMIT_EXIT, Silicon2!SLCR, Silicon2!Config,
         Silicon2!NoFields
<1>3. Silicon3!ps7_pll_init_data = ps7_pll_init_data
  BY DEF ps7_pll_init_data, ArmPllInit, DdrPllInit, IoPllInit, PLL_INIT, Unlocked,
         Unlock, Lock, EMIT_WRITE, EMIT_MASKWRITE, EMIT_MASKPOLL, EMIT_EXIT, SLCR,
         Config, NoFields, Silicon3!ps7_pll_init_data, Silicon3!ArmPllInit,
         Silicon3!DdrPllInit, Silicon3!IoPllInit, Silicon3!PLL_INIT, Silicon3!Unlocked,
         Silicon3!Unlock, Silicon3!Lock, Silicon3!EMIT_WRITE, Silicon3!EMIT_MASKWRITE,
         Silicon3!EMIT_MASKPOLL, Silicon3!EMIT_EXIT, Silicon3!SLCR, Silicon3!Config,
         Silicon3!NoFields
<1> QED BY <1>1, <1>2, <1>3

(* The row of a PLL: its instructions, and the one register they set.        *)
RowOf(r, ctrl, fdiv, lock) ==
  /\ r \in Seq({r[k] : k \in 1..7}) /\ Len(r) = 7
  /\ r[2] = EMIT_MASKWRITE(SLCR(ctrl), [PLL_FDIV |-> fdiv])
  /\ r[3] = EMIT_MASKWRITE(SLCR(ctrl), [PLL_BYPASS_FORCE |-> 1])
  /\ r[4] = EMIT_MASKWRITE(SLCR(ctrl), [PLL_RESET |-> 1])
  /\ r[5] = EMIT_MASKWRITE(SLCR(ctrl), [PLL_RESET |-> 0])
  /\ r[6] = EMIT_MASKPOLL(SLCR(\h10C), lock)
  /\ r[7] = EMIT_MASKWRITE(SLCR(ctrl), [PLL_BYPASS_FORCE |-> 0])
  /\ Plain({r[k] : k \in 1..7}) /\ InSlcr({r[k] : k \in 1..7})
  /\ \A k \in 1..7 : \A reg : Sets(r[k], reg) =>
       reg = SLCR(ctrl) /\ k \in {2, 3, 4, 5, 7}

(* The macro makes such a row.                                               *)
LEMMA RowFacts ==
  ASSUME NEW ctrl, NEW cfg, NEW fdiv \in Nat, NEW lock
  PROVE  RowOf(PLL_INIT(ctrl, cfg, fdiv, lock), ctrl, fdiv, lock)
<1> DEFINE r == PLL_INIT(ctrl, cfg, fdiv, lock)
<1> DEFINE e1 == EMIT_MASKWRITE(SLCR(cfg), NoFields)
           e2 == EMIT_MASKWRITE(SLCR(ctrl), [PLL_FDIV |-> fdiv])
           e3 == EMIT_MASKWRITE(SLCR(ctrl), [PLL_BYPASS_FORCE |-> 1])
           e4 == EMIT_MASKWRITE(SLCR(ctrl), [PLL_RESET |-> 1])
           e5 == EMIT_MASKWRITE(SLCR(ctrl), [PLL_RESET |-> 0])
           e6 == EMIT_MASKPOLL(SLCR(\h10C), lock)
           e7 == EMIT_MASKWRITE(SLCR(ctrl), [PLL_BYPASS_FORCE |-> 0])
<1>1. r = <<e1, e2, e3, e4, e5, e6, e7>>
  BY DEF PLL_INIT
<1>2. /\ \A reg : ~Sets(e1, reg) /\ ~Sets(e6, reg)
      /\ e1.opcode = "MASKWRITE" /\ e1.reg = SLCR(cfg) /\ e1.fields = NoFields
      /\ e6.opcode = "MASKPOLL"
  BY SetsOf
<1>3. /\ \A reg : Sets(e2, reg) => reg = SLCR(ctrl)
      /\ e2.opcode = "MASKWRITE" /\ e2.reg = SLCR(ctrl) /\ e2.fields = [PLL_FDIV |-> fdiv]
  BY SetsOf
<1>4. /\ \A reg : Sets(e3, reg) => reg = SLCR(ctrl)
      /\ e3.opcode = "MASKWRITE" /\ e3.reg = SLCR(ctrl) /\ e3.fields = [PLL_BYPASS_FORCE |-> 1]
  BY SetsOf
<1>5. /\ \A reg : Sets(e4, reg) => reg = SLCR(ctrl)
      /\ e4.opcode = "MASKWRITE" /\ e4.reg = SLCR(ctrl) /\ e4.fields = [PLL_RESET |-> 1]
  BY SetsOf
<1>6. /\ \A reg : Sets(e5, reg) => reg = SLCR(ctrl)
      /\ e5.opcode = "MASKWRITE" /\ e5.reg = SLCR(ctrl) /\ e5.fields = [PLL_RESET |-> 0]
  BY SetsOf
<1>7. /\ \A reg : Sets(e7, reg) => reg = SLCR(ctrl)
      /\ e7.opcode = "MASKWRITE" /\ e7.reg = SLCR(ctrl) /\ e7.fields = [PLL_BYPASS_FORCE |-> 0]
  BY SetsOf
<1>8. SLCR(cfg)[1] = "SLCR" /\ SLCR(ctrl)[1] = "SLCR"
  BY DEF SLCR
<1>9. Plain({e1, e2, e3, e4, e5, e6, e7})
  <2>1. \A f \in DOMAIN NoFields : NoFields[f] \in Nat
    BY DEF NoFields
  <2>2. /\ \A f \in DOMAIN [PLL_FDIV |-> fdiv] : [PLL_FDIV |-> fdiv][f] \in Nat
        /\ \A n \in {0, 1} : \A f \in DOMAIN [PLL_RESET |-> n] : [PLL_RESET |-> n][f] \in Nat
        /\ \A n \in {0, 1} : \A f \in DOMAIN [PLL_BYPASS_FORCE |-> n] :
             [PLL_BYPASS_FORCE |-> n][f] \in Nat
    OBVIOUS
  <2> HIDE DEF e1, e2, e3, e4, e5, e6, e7
  <2> QED BY <1>2, <1>3, <1>4, <1>5, <1>6, <1>7, <2>1, <2>2 DEF Plain
<1> HIDE DEF r, e1, e2, e3, e4, e5, e6, e7
<1>10. InSlcr({e1, e2, e3, e4, e5, e6, e7})
  BY <1>2, <1>3, <1>4, <1>5, <1>6, <1>7, <1>8 DEF InSlcr
<1>11. /\ r[1] = e1 /\ r[2] = e2 /\ r[3] = e3 /\ r[4] = e4 /\ r[5] = e5 /\ r[6] = e6
       /\ r[7] = e7 /\ Len(r) = 7 /\ r \in Seq({e1, e2, e3, e4, e5, e6, e7})
  BY <1>1
<1>12. {r[k] : k \in 1..7} = {e1, e2, e3, e4, e5, e6, e7}
  BY <1>11
<1>13. \A k \in 1..7 : \A reg : Sets(r[k], reg) => reg = SLCR(ctrl) /\ k \in {2, 3, 4, 5, 7}
  <2> TAKE k \in 1..7
  <2>1. k \in {1, 2, 3, 4, 5, 6, 7}
    OBVIOUS
  <2> QED BY <2>1, <1>2, <1>3, <1>4, <1>5, <1>6, <1>7, <1>11
<1>14. RowOf(r, ctrl, fdiv, lock)
  BY <1>9, <1>10, <1>11, <1>12, <1>13 DEF RowOf, e2, e3, e4, e5, e6, e7
<1> QED BY <1>14 DEF r

(* The row of a PLL and one more instruction.                                *)
IsLongRow(r, s, S, e) ==
  /\ r \in Seq(S \cup {e}) /\ Len(r) = 8 /\ r[8] = e
  /\ \A k \in 1..7 : r[k] = s[k]

LEMMA LongRow ==
  ASSUME NEW S, NEW s \in Seq(S), Len(s) = 7, NEW e
  PROVE  IsLongRow(s \o <<e>>, s, S, e)
<1> DEFINE T == S \cup {e}
           r == <<e>>
<1>1. s \in Seq(T) /\ r \in Seq(T)
  <2>1. s \in Seq(T)
    BY SeqMonotonic
  <2> QED BY <2>1
<1>2. Len(r) = 1 /\ r[1] = e
  OBVIOUS
<1> HIDE DEF T, r
<1>3. /\ s \o r \in Seq(T) /\ Len(s \o r) = Len(s) + Len(r)
      /\ \A k \in 1..Len(s) : (s \o r)[k] = s[k]
      /\ \A k \in 1..Len(r) : (s \o r)[Len(s) + k] = r[k]
  BY ONLY <1>1, Joined
<1> QED BY <1>2, <1>3 DEF T, r, IsLongRow

(* The body of the table of the PLLs: three rows.                            *)
ThreeRows(body) ==
  \E S : /\ Plain(S) /\ InSlcr(S) /\ body \in Seq(S) /\ Len(body) = 23
         /\ \A k \in 1..7 : /\ body[k] = PLL_INIT(\h100, \h110, \h28, "ARM_PLL_LOCK")[k]
                            /\ body[8 + k] = PLL_INIT(\h104, \h114, \h30, "DDR_PLL_LOCK")[k]
                            /\ body[16 + k] = PLL_INIT(\h108, \h118, \h1E, "IO_PLL_LOCK")[k]
         /\ body[8] = EMIT_MASKWRITE(SLCR(\h120), NoFields) /\ body[16] = DdrClocksOn

(* The table of the PLLs has three of them.                                  *)
LEMMA PllBody == ThreeRows(ArmPllInit \o DdrPllInit \o IoPllInit)
<1> DEFINE a == PLL_INIT(\h100, \h110, \h28, "ARM_PLL_LOCK")
           d == PLL_INIT(\h104, \h114, \h30, "DDR_PLL_LOCK")
           o == PLL_INIT(\h108, \h118, \h1E, "IO_PLL_LOCK")
           x == EMIT_MASKWRITE(SLCR(\h120), NoFields)
           Elements(s) == {s[k] : k \in 1..7}
           A == Elements(a) \cup {x}
           D == Elements(d) \cup {DdrClocksOn}
           O == Elements(o)
           S == A \cup D \cup O
<1>1. ArmPllInit = a \o <<x>> /\ DdrPllInit = d \o <<DdrClocksOn>> /\ IoPllInit = o
  <2>1. Config("SLCR", <<\h120>>) = <<x>>
    BY DEF Config, SLCR
  <2> QED BY <2>1 DEF ArmPllInit, DdrPllInit, IoPllInit, DdrClocksOn
<1>2. a \in Seq(Elements(a)) /\ Len(a) = 7 /\ Plain(Elements(a)) /\ InSlcr(Elements(a))
  <2>1. RowOf(a, \h100, \h28, "ARM_PLL_LOCK")
    BY RowFacts
  <2> HIDE DEF a
  <2> QED BY ONLY <2>1 DEF RowOf
<1>3. d \in Seq(Elements(d)) /\ Len(d) = 7 /\ Plain(Elements(d)) /\ InSlcr(Elements(d))
  <2>1. RowOf(d, \h104, \h30, "DDR_PLL_LOCK")
    BY RowFacts
  <2> HIDE DEF d
  <2> QED BY ONLY <2>1 DEF RowOf
<1>4. o \in Seq(Elements(o)) /\ Len(o) = 7 /\ Plain(Elements(o)) /\ InSlcr(Elements(o))
  <2>1. RowOf(o, \h108, \h1E, "IO_PLL_LOCK")
    BY RowFacts
  <2> HIDE DEF o
  <2> QED BY ONLY <2>1 DEF RowOf
<1>5. Plain({x, DdrClocksOn}) /\ InSlcr({x, DdrClocksOn})
  <2>1. /\ x.opcode = "MASKWRITE" /\ x.fields = NoFields /\ x.reg = SLCR(\h120)
        /\ DdrClocksOn.opcode = "MASKWRITE" /\ DdrClocksOn.reg = SLCR(\h124)
        /\ DdrClocksOn.fields = [DDR_3XCLKACT |-> 1, DDR_2XCLKACT |-> 1]
    BY SetsOf DEF DdrClocksOn
  <2>2. /\ \A f \in DOMAIN NoFields : NoFields[f] \in Nat
        /\ \A f \in DOMAIN [DDR_3XCLKACT |-> 1, DDR_2XCLKACT |-> 1] :
             [DDR_3XCLKACT |-> 1, DDR_2XCLKACT |-> 1][f] \in Nat
    BY DEF NoFields
  <2>3. SLCR(\h120)[1] = "SLCR" /\ SLCR(\h124)[1] = "SLCR"
    BY DEF SLCR
  <2> HIDE DEF x
  <2> QED BY <2>1, <2>2, <2>3 DEF Plain, InSlcr
<1> HIDE DEF a, d, o, x, Elements
<1>6. Plain(S) /\ InSlcr(S)
  BY <1>2, <1>3, <1>4, <1>5 DEF Plain, InSlcr
<1>7. /\ a \o <<x>> \in Seq(A) /\ Len(a \o <<x>>) = 8 /\ (a \o <<x>>)[8] = x
      /\ \A k \in 1..7 : (a \o <<x>>)[k] = a[k]
  <2>1. a \in Seq(Elements(a)) /\ Len(a) = 7
    BY ONLY <1>2
  <2>2. IsLongRow(a \o <<x>>, a, Elements(a), x)
    BY ONLY <2>1, LongRow
  <2> QED BY ONLY <2>2 DEF IsLongRow
<1>8. /\ d \o <<DdrClocksOn>> \in Seq(D) /\ Len(d \o <<DdrClocksOn>>) = 8
      /\ (d \o <<DdrClocksOn>>)[8] = DdrClocksOn
      /\ \A k \in 1..7 : (d \o <<DdrClocksOn>>)[k] = d[k]
  <2>1. d \in Seq(Elements(d)) /\ Len(d) = 7
    BY ONLY <1>3
  <2>2. IsLongRow(d \o <<DdrClocksOn>>, d, Elements(d), DdrClocksOn)
    BY ONLY <2>1, LongRow
  <2> QED BY ONLY <2>2 DEF IsLongRow
<1> DEFINE arm == ArmPllInit
           ddr == DdrPllInit
<1>9. arm \in Seq(S) /\ ddr \in Seq(S) /\ o \in Seq(S)
  <2>1. A \subseteq S /\ D \subseteq S /\ O \subseteq S
    OBVIOUS
  <2>2. arm \in Seq(A) /\ ddr \in Seq(D) /\ o \in Seq(O)
    BY <1>1, <1>4, <1>7, <1>8
  <2> QED BY ONLY <2>1, <2>2, SeqMonotonic
<1>10. /\ Len(arm) = 8 /\ Len(ddr) = 8 /\ arm[8] = x /\ ddr[8] = DdrClocksOn
       /\ \A k \in 1..7 : arm[k] = a[k] /\ ddr[k] = d[k]
  BY <1>1, <1>7, <1>8
<1> HIDE DEF S, arm, ddr
<1>11. /\ arm \o ddr \in Seq(S) /\ Len(arm \o ddr) = Len(arm) + Len(ddr)
       /\ \A k \in 1..Len(arm) : (arm \o ddr)[k] = arm[k]
       /\ \A k \in 1..Len(ddr) : (arm \o ddr)[Len(arm) + k] = ddr[k]
  BY ONLY <1>9, Joined
<1> DEFINE two == arm \o ddr
<1>12. /\ two \in Seq(S) /\ Len(two) = 16
       /\ \A k \in 1..8 : two[k] = arm[k] /\ two[8 + k] = ddr[k]
  BY <1>10, <1>11
<1> HIDE DEF two
<1>13. /\ two \o o \in Seq(S) /\ Len(two \o o) = Len(two) + Len(o)
       /\ \A k \in 1..Len(two) : (two \o o)[k] = two[k]
       /\ \A k \in 1..Len(o) : (two \o o)[Len(two) + k] = o[k]
  <2>1. two \in Seq(S) /\ o \in Seq(S)
    BY <1>9, <1>12
  <2> QED BY ONLY <2>1, Joined
<1> DEFINE body == two \o o
<1>14. /\ Len(body) = 23 /\ body \in Seq(S)
       /\ \A k \in 1..8 : body[k] = arm[k] /\ body[8 + k] = ddr[k]
       /\ \A k \in 1..7 : body[16 + k] = o[k]
  <2>1. \A k \in 1..8 : k \in 1..Len(two) /\ 8 + k \in 1..Len(two)
    BY <1>12
  <2>2. \A k \in 1..8 : body[k] = two[k] /\ body[8 + k] = two[8 + k]
    BY <1>13, <2>1
  <2>3. Len(o) = 7 /\ Len(two) = 16
    BY <1>4, <1>12
  <2>4. Len(body) = 23 /\ \A k \in 1..7 : body[16 + k] = o[k]
    <3>1. Len(body) = 23
      BY <1>13, <2>3
    <3>2. ASSUME NEW k \in 1..7
          PROVE  body[16 + k] = o[k]
      <4>1. k \in 1..Len(o) /\ Len(two) + k = 16 + k
        BY <2>3
      <4> QED BY <1>13, <4>1
    <3> QED BY <3>1, <3>2
  <2> QED BY <1>12, <1>13, <2>2, <2>4
<1>15. body = ArmPllInit \o DdrPllInit \o IoPllInit
  BY <1>1 DEF two, arm, ddr
<1> HIDE DEF body
<1>16. \A k \in 1..7 : body[k] = a[k] /\ body[8 + k] = d[k] /\ body[16 + k] = o[k]
  <2> TAKE k \in 1..7
  <2>1. k \in 1..8
    OBVIOUS
  <2>2. body[k] = arm[k] /\ body[8 + k] = ddr[k] /\ body[16 + k] = o[k]
    BY <1>14, <2>1
  <2> QED BY ONLY <1>10, <2>2
<1>17. body[8] = x /\ body[16] = DdrClocksOn
  <2>1. body[8 + 8] = ddr[8] /\ body[8] = arm[8]
    BY <1>14
  <2> QED BY <1>10, <2>1
<1>18. \E B : /\ Plain(B) /\ InSlcr(B) /\ body \in Seq(B) /\ Len(body) = 23
  BY <1>6, <1>14
<1>19. \E B : /\ Plain(B) /\ InSlcr(B) /\ body \in Seq(B) /\ Len(body) = 23
               /\ \A k \in 1..7 : body[k] = a[k] /\ body[8 + k] = d[k] /\ body[16 + k] = o[k]
               /\ body[8] = x /\ body[16] = DdrClocksOn
  BY <1>16, <1>17, <1>18
<1>20. ThreeRows(body)
  BY <1>19 DEF ThreeRows, a, d, o, x
<1> QED BY ONLY <1>15, <1>20

(* The table of the PLLs has its shape.                                      *)
LEMMA PllTable == PllShape(ps7_pll_init_data)
<1> DEFINE t == ps7_pll_init_data
           body == ArmPllInit \o DdrPllInit \o IoPllInit
           a == PLL_INIT(\h100, \h110, \h28, "ARM_PLL_LOCK")
           d == PLL_INIT(\h104, \h114, \h30, "DDR_PLL_LOCK")
           o == PLL_INIT(\h108, \h118, \h1E, "IO_PLL_LOCK")
           x == EMIT_MASKWRITE(SLCR(\h120), NoFields)
<1>1. t = Unlocked(body) \o <<EMIT_EXIT>>
  BY DEF ps7_pll_init_data
<1>3. /\ RowOf(a, \h100, \h28, "ARM_PLL_LOCK") /\ RowOf(d, \h104, \h30, "DDR_PLL_LOCK")
      /\ RowOf(o, \h108, \h1E, "IO_PLL_LOCK")
  BY RowFacts
<1>4. /\ \A reg : ~Sets(x, reg)
      /\ \A reg : Sets(DdrClocksOn, reg) => reg = SLCR(\h124)
  BY SetsOf DEF DdrClocksOn
<1>22. ThreeRows(body)
  BY PllBody
<1> HIDE DEF t, body
<1>2. PICK S : /\ Plain(S) /\ InSlcr(S) /\ body \in Seq(S) /\ Len(body) = 23
               /\ \A k \in 1..7 : body[k] = a[k] /\ body[8 + k] = d[k] /\ body[16 + k] = o[k]
               /\ body[8] = x /\ body[16] = DdrClocksOn
  BY <1>22 DEF ThreeRows
<1> HIDE DEF a, d, o, x
<1>5. /\ WellFormed(t) /\ Len(t) = Len(body) + 3 /\ KeyedUpTo(t, Len(t) - 1)
      /\ t[1] = Unlock /\ t[Len(body) + 2] = Lock /\ t[Len(body) + 3] = EMIT_EXIT
      /\ \A k \in 1..Len(body) : t[k + 1] = body[k]
  <2>1. Around(t, body)
    BY <1>1, <1>2, TableOf
  <2> QED BY <2>1 DEF Around
<1>6. /\ Len(t) = 26 /\ KeyedUpTo(t, 25) /\ t[25] = Lock /\ t[26] = EMIT_EXIT
      /\ \A k \in 1..23 : t[k + 1] = body[k] /\ body[k] \in S
  <2>1. Len(body) = 23 /\ Len(t) = 26
    BY <1>2, <1>5
  <2>2. KeyedUpTo(t, 25) /\ t[25] = Lock /\ t[26] = EMIT_EXIT
    <3>1. Len(t) - 1 = 25 /\ Len(body) + 2 = 25 /\ Len(body) + 3 = 26
      BY <2>1
    <3> QED BY <1>5, <3>1
  <2>3. \A k \in 1..23 : body[k] \in S
    <3>1. body \in Seq(S)
      BY <1>2
    <3>2. \A k \in 1..Len(body) : body[k] \in S
      BY ONLY <3>1, ElementIn
    <3> QED BY ONLY <2>1, <3>2
  <2> QED BY <1>5, <2>1, <2>2, <2>3
<1>7. \A k \in 1..7 : t[k + 1] = a[k] /\ t[k + 9] = d[k] /\ t[k + 17] = o[k]
  <2> TAKE k \in 1..7
  <2>1. /\ k \in 1..23 /\ 8 + k \in 1..23 /\ 16 + k \in 1..23
        /\ (8 + k) + 1 = k + 9 /\ (16 + k) + 1 = k + 17
    OBVIOUS
  <2>2. t[k + 1] = body[k] /\ t[k + 9] = body[8 + k] /\ t[k + 17] = body[16 + k]
    BY <1>6, <2>1
  <2> QED BY <1>2, <2>2
<1>8. t[9] = x /\ t[17] = DdrClocksOn
  <2>1. t[8 + 1] = body[8] /\ t[16 + 1] = body[16]
    BY <1>6
  <2> QED BY <1>2, <2>1
<1>9. \A k \in 1..26 : \/ k \in {1, 25, 26} /\ t[k] \in {Unlock, Lock, EMIT_EXIT}
                       \/ k = 9 /\ t[k] = x
                       \/ k = 17 /\ t[k] = DdrClocksOn
                       \/ k - 1 \in 1..7 /\ t[k] = a[k - 1]
                       \/ k - 9 \in 1..7 /\ t[k] = d[k - 9]
                       \/ k - 17 \in 1..7 /\ t[k] = o[k - 17]
  <2> TAKE k \in 1..26
  <2>1. CASE k \in {1, 25, 26}
    BY <1>5, <1>6, <2>1
  <2>2. CASE k \in 2..8
    <3>1. k - 1 \in 1..7 /\ (k - 1) + 1 = k
      BY <2>2
    <3> QED BY <1>7, <3>1
  <2>3. CASE k \in 10..16
    <3>1. k - 9 \in 1..7 /\ (k - 9) + 9 = k
      BY <2>3
    <3> QED BY <1>7, <3>1
  <2>4. CASE k \in 18..24
    <3>1. k - 17 \in 1..7 /\ (k - 17) + 17 = k
      BY <2>4
    <3> QED BY <1>7, <3>1
  <2>5. CASE k \in {9, 17}
    BY <1>8, <2>5
  <2>6. k \in {1, 25, 26} \/ k \in 2..8 \/ k \in 10..16 \/ k \in 18..24 \/ k \in {9, 17}
    OBVIOUS
  <2> QED BY <2>1, <2>2, <2>3, <2>4, <2>5, <2>6
<1>10. /\ \A k \in 1..7 : \A reg : Sets(a[k], reg) => reg = SLCR(\h100) /\ k \in {2, 3, 4, 5, 7}
       /\ \A k \in 1..7 : \A reg : Sets(d[k], reg) => reg = SLCR(\h104) /\ k \in {2, 3, 4, 5, 7}
       /\ \A k \in 1..7 : \A reg : Sets(o[k], reg) => reg = SLCR(\h108) /\ k \in {2, 3, 4, 5, 7}
  BY ONLY <1>3 DEF RowOf
<1>11. ASSUME NEW k \in 1..26, NEW reg, Sets(t[k], reg)
       PROVE  \/ reg = SLCR(\h124) /\ k = 17
              \/ reg = SLCR(\h100) /\ k \in {3, 4, 5, 6, 8}
              \/ reg = SLCR(\h104) /\ k \in {11, 12, 13, 14, 16}
              \/ reg = SLCR(\h108) /\ k \in {19, 20, 21, 22, 24}
  <2>1. CASE k \in {1, 25, 26} /\ t[k] \in {Unlock, Lock, EMIT_EXIT}
    BY <1>11, <2>1, SetsOf
  <2>2. CASE k = 9 /\ t[k] = x
    BY <1>4, <1>11, <2>2
  <2>3. CASE k = 17 /\ t[k] = DdrClocksOn
    BY <1>4, <1>11, <2>3
  <2>4. CASE k - 1 \in 1..7 /\ t[k] = a[k - 1]
    <3>1. reg = SLCR(\h100) /\ k - 1 \in {2, 3, 4, 5, 7}
      BY <1>10, <1>11, <2>4
    <3> QED BY <3>1
  <2>5. CASE k - 9 \in 1..7 /\ t[k] = d[k - 9]
    <3>1. reg = SLCR(\h104) /\ k - 9 \in {2, 3, 4, 5, 7}
      BY <1>10, <1>11, <2>5
    <3> QED BY <3>1
  <2>6. CASE k - 17 \in 1..7 /\ t[k] = o[k - 17]
    <3>1. reg = SLCR(\h108) /\ k - 17 \in {2, 3, 4, 5, 7}
      BY <1>10, <1>11, <2>6
    <3> QED BY <3>1
  <2> QED BY <1>9, <2>1, <2>2, <2>3, <2>4, <2>5, <2>6
<1>12. WritesOnly(t, {"SLCR"})
  <2> SUFFICES ASSUME NEW k \in 1..Len(t), t[k].opcode = "MASKWRITE"
               PROVE  t[k].reg[1] = "SLCR"
    BY DEF WritesOnly
  <2>1. k \notin {1, 25, 26}
    BY <1>5, <1>6, SetsOf
  <2>2. k \in 1..26
    BY <1>6
  <2>3. k - 1 \in 1..23 /\ (k - 1) + 1 = k
    BY <2>1, <2>2
  <2>4. t[k] \in S
    BY <1>6, <2>3
  <2> QED BY <1>2, <2>4 DEF InSlcr
<1>13. /\ PllCtrls = {SLCR(\h100), SLCR(\h104), SLCR(\h108)}
       /\ SLCR(\h100) # SLCR(\h104) /\ SLCR(\h100) # SLCR(\h108) /\ SLCR(\h104) # SLCR(\h108)
       /\ SLCR(\h124) \notin PllCtrls
  <2>1. PllCtrls = {SLCR(\h100), SLCR(\h104), SLCR(\h108)}
    BY PllFacts DEF PllCtrls
  <2> QED BY <2>1 DEF SLCR
<1>14. SetsOnly(t, PllCtrls \cup {SLCR(\h124)})
  BY <1>6, <1>11, <1>13 DEF SetsOnly
<1>15. \A k \in 1..26 : Sets(t[k], SLCR(\h124)) => k = 17
  BY <1>11, <1>13
<1>16. \A k \in 1..26 : /\ Sets(t[k], SLCR(\h100)) => k \in {3, 4, 5, 6, 8}
                        /\ Sets(t[k], SLCR(\h104)) => k \in {11, 12, 13, 14, 16}
                        /\ Sets(t[k], SLCR(\h108)) => k \in {19, 20, 21, 22, 24}
  BY <1>11, <1>13
<1>17. Row(t, "ARM", \h28)
  <2>1. t[3] = a[2] /\ t[4] = a[3] /\ t[5] = a[4] /\ t[6] = a[5] /\ t[7] = a[6] /\ t[8] = a[7]
    <3>1. \A k \in 1..7 : t[k + 1] = a[k]
      BY <1>7
    <3> QED BY <3>1
  <2>2. RowOf(a, \h100, \h28, "ARM_PLL_LOCK")
    BY <1>3
  <2> QED BY <1>6, <1>16, <2>1, <2>2, PllFacts DEF Row, RowOf, PollOf
<1>18. Row(t, "DDR", \h30)
  <2>1. t[11] = d[2] /\ t[12] = d[3] /\ t[13] = d[4] /\ t[14] = d[5] /\ t[15] = d[6]
        /\ t[16] = d[7]
    <3>1. \A k \in 1..7 : t[k + 9] = d[k]
      BY <1>7
    <3> QED BY <3>1
  <2>2. RowOf(d, \h104, \h30, "DDR_PLL_LOCK")
    BY <1>3
  <2> QED BY <1>6, <1>16, <2>1, <2>2, PllFacts DEF Row, RowOf, PollOf
<1>19. Row(t, "IO", \h1E)
  <2>1. t[19] = o[2] /\ t[20] = o[3] /\ t[21] = o[4] /\ t[22] = o[5] /\ t[23] = o[6]
        /\ t[24] = o[7]
    <3>1. \A k \in 1..7 : t[k + 17] = o[k]
      BY <1>7
    <3> QED BY <3>1
  <2>2. RowOf(o, \h108, \h1E, "IO_PLL_LOCK")
    BY <1>3
  <2> QED BY <1>6, <1>16, <2>1, <2>2, PllFacts DEF Row, RowOf, PollOf
<1>20. \A p \in Plls : \E n \in Nat \ {RomDivider} : Row(t, p, n)
  <2>1. \h28 \in Nat \ {RomDivider} /\ \h30 \in Nat \ {RomDivider} /\ \h1E \in Nat \ {RomDivider}
    BY DEF RomDivider
  <2> QED BY <1>17, <1>18, <1>19, <2>1, PllFacts
<1>21. PllShape(t)
  BY <1>5, <1>6, <1>8, <1>12, <1>14, <1>15, <1>20 DEF PllShape
<1> QED BY <1>21 DEF t

-----------------------------------------------------------------------------
(* The clocks.                                                               *)

(* The three silicon versions have the same table.                           *)
LEMMA SameClock ==
  /\ Silicon1!ps7_clock_init_data = ps7_clock_init_data
  /\ Silicon2!ps7_clock_init_data = ps7_clock_init_data
  /\ Silicon3!ps7_clock_init_data = ps7_clock_init_data
<1>1. Silicon1!ps7_clock_init_data = ps7_clock_init_data
  BY DEF ps7_clock_init_data, Unlocked, Unlock, Lock, EMIT_WRITE, EMIT_MASKWRITE,
         EMIT_EXIT, SLCR, Config, NoFields, Silicon1!ps7_clock_init_data,
         Silicon1!Unlocked, Silicon1!Unlock, Silicon1!Lock, Silicon1!EMIT_WRITE,
         Silicon1!EMIT_MASKWRITE, Silicon1!EMIT_EXIT, Silicon1!SLCR, Silicon1!Config,
         Silicon1!NoFields
<1>2. Silicon2!ps7_clock_init_data = ps7_clock_init_data
  BY DEF ps7_clock_init_data, Unlocked, Unlock, Lock, EMIT_WRITE, EMIT_MASKWRITE,
         EMIT_EXIT, SLCR, Config, NoFields, Silicon2!ps7_clock_init_data,
         Silicon2!Unlocked, Silicon2!Unlock, Silicon2!Lock, Silicon2!EMIT_WRITE,
         Silicon2!EMIT_MASKWRITE, Silicon2!EMIT_EXIT, Silicon2!SLCR, Silicon2!Config,
         Silicon2!NoFields
<1>3. Silicon3!ps7_clock_init_data = ps7_clock_init_data
  BY DEF ps7_clock_init_data, Unlocked, Unlock, Lock, EMIT_WRITE, EMIT_MASKWRITE,
         EMIT_EXIT, SLCR, Config, NoFields, Silicon3!ps7_clock_init_data,
         Silicon3!Unlocked, Silicon3!Unlock, Silicon3!Lock, Silicon3!EMIT_WRITE,
         Silicon3!EMIT_MASKWRITE, Silicon3!EMIT_EXIT, Silicon3!SLCR, Silicon3!Config,
         Silicon3!NoFields
<1> QED BY <1>1, <1>2, <1>3

(* The twelve instructions between the keys.                                 *)
TwelveAround(body, a, b, d) ==
  /\ body \in Seq(Configs("SLCR") \cup {a, b, d}) /\ Len(body) = 12
  /\ body[1] = a /\ body[6] = b /\ body[11] = d
  /\ \A k \in 1..12 : k \notin {1, 6, 11} => body[k] \in Configs("SLCR")

(* The body of the table of the clocks is such a sequence.                   *)
LEMMA ClockBody ==
  ASSUME NEW a, NEW c \in Seq(Configs("SLCR")), Len(c) = 4, NEW b,
         NEW e \in Seq(Configs("SLCR")), Len(e) = 4, NEW d, NEW f \in Seq(Configs("SLCR")),
         Len(f) = 1
  PROVE  TwelveAround(<<a>> \o c \o <<b>> \o e \o <<d>> \o f, a, b, d)
<1> DEFINE body == <<a>> \o c \o <<b>> \o e \o <<d>> \o f
<1> DEFINE C == Configs("SLCR")
           S == C \cup {a, b, d}
<1>1. PICK c1 \in C, c2 \in C, c3 \in C, c4 \in C : c = <<c1, c2, c3, c4>>
  BY FourOf
<1>2. PICK e1 \in C, e2 \in C, e3 \in C, e4 \in C : e = <<e1, e2, e3, e4>>
  BY FourOf
<1>4. PICK f1 \in C : f = <<f1>>
  BY OneOf
<1> HIDE DEF C
<1>3. body = <<a>> \o <<c1, c2, c3, c4>> \o <<b>> \o <<e1, e2, e3, e4>> \o <<d>> \o <<f1>>
  BY <1>1, <1>2, <1>4
<1> HIDE DEF body
<1>5. /\ body \in Seq(S) /\ Len(body) = 12
      /\ body[1] = a /\ body[6] = b /\ body[11] = d
      /\ \A k \in 1..12 : k \notin {1, 6, 11} => body[k] \in C
  <2>1. /\ <<a>> \in Seq(S) /\ <<c1, c2, c3, c4>> \in Seq(S) /\ <<b>> \in Seq(S)
        /\ <<e1, e2, e3, e4>> \in Seq(S) /\ <<d>> \in Seq(S) /\ <<f1>> \in Seq(S)
    OBVIOUS
  <2>2. body \in Seq(S)
    BY ONLY <1>3, <2>1
  <2>3. Len(body) = 12
    BY ONLY <1>3
  <2>4. /\ body[1] = a /\ body[2] = c1 /\ body[3] = c2 /\ body[4] = c3 /\ body[5] = c4
        /\ body[6] = b /\ body[7] = e1 /\ body[8] = e2 /\ body[9] = e3 /\ body[10] = e4
        /\ body[11] = d /\ body[12] = f1
    BY ONLY <1>3
  <2> QED BY <1>3, <2>2, <2>3, <2>4
<1> QED BY <1>5 DEF body, C, TwelveAround

(* The table of the clocks has its shape.                                    *)
LEMMA ClockTable == ClockShape(ps7_clock_init_data)
<1> DEFINE t == ps7_clock_init_data
           C == Configs("SLCR")
           a == EMIT_MASKWRITE(SLCR(\h128), [CLKACT |-> 1])
           c == Config("SLCR", <<\h138, \h140, \h14C, \h150>>)
           b == EMIT_MASKWRITE(SLCR(\h154), [CLKACT0 |-> 1, CLKACT1 |-> 0])
           e == Config("SLCR", <<\h168, \h170, \h180, \h1C4>>)
           d == PeripheralClocksOn
           f == Config("SLCR", <<\h304>>)
           S == C \cup {a, b, d}
           body == <<a>> \o c \o <<b>> \o e \o <<d>> \o f
<1>1. t = Unlocked(body) \o <<EMIT_EXIT>>
  BY DEF ps7_clock_init_data, PeripheralClocksOn
<1>2. c \in Seq(C) /\ Len(c) = 4
  <2> DEFINE o == <<\h138, \h140, \h14C, \h150>>
  <2>1. o \in Seq(Nat) /\ Len(o) = 4
    OBVIOUS
  <2>2. c = Config("SLCR", o)
    OBVIOUS
  <2> HIDE DEF o, c, C
  <2>3. Config("SLCR", o) \in Seq(Configs("SLCR")) /\ Len(Config("SLCR", o)) = Len(o)
    BY <2>1, ConfigSeq
  <2> QED BY <2>1, <2>2, <2>3 DEF C
<1>3. e \in Seq(C) /\ Len(e) = 4
  <2> DEFINE o == <<\h168, \h170, \h180, \h1C4>>
  <2>1. o \in Seq(Nat) /\ Len(o) = 4
    OBVIOUS
  <2>2. e = Config("SLCR", o)
    OBVIOUS
  <2> HIDE DEF o, e, C
  <2>3. Config("SLCR", o) \in Seq(Configs("SLCR")) /\ Len(Config("SLCR", o)) = Len(o)
    BY <2>1, ConfigSeq
  <2> QED BY <2>1, <2>2, <2>3 DEF C
<1>4. f \in Seq(C) /\ Len(f) = 1
  <2> DEFINE o == <<\h304>>
  <2>1. o \in Seq(Nat) /\ Len(o) = 1
    OBVIOUS
  <2>2. f = Config("SLCR", o)
    OBVIOUS
  <2> HIDE DEF o, f, C
  <2>3. Config("SLCR", o) \in Seq(Configs("SLCR")) /\ Len(Config("SLCR", o)) = Len(o)
    BY <2>1, ConfigSeq
  <2> QED BY <2>1, <2>2, <2>3 DEF C
<1>5. /\ \A reg : Sets(a, reg) => reg = SLCR(\h128)
      /\ a.opcode = "MASKWRITE" /\ a.reg = SLCR(\h128) /\ a.fields = [CLKACT |-> 1]
  BY SetsOf
<1>6. /\ \A reg : Sets(b, reg) => reg = SLCR(\h154)
      /\ b.opcode = "MASKWRITE" /\ b.reg = SLCR(\h154)
      /\ b.fields = [CLKACT0 |-> 1, CLKACT1 |-> 0]
  BY SetsOf
<1>7. /\ \A reg : Sets(d, reg) => reg = SLCR(\h12C)
      /\ d.opcode = "MASKWRITE" /\ d.reg = SLCR(\h12C)
      /\ d.fields = [UART0_CPU_1XCLKACT |-> 1, LQSPI_CPU_1XCLKACT |-> 1]
  BY SetsOf DEF PeripheralClocksOn
<1>8. \A ins \in C : /\ ins.opcode = "MASKWRITE" /\ ins.reg[1] = "SLCR"
                     /\ \A g \in DOMAIN ins.fields : ins.fields[g] \in Nat
                     /\ \A reg : ~Sets(ins, reg)
  BY ConfigsFacts
<1> HIDE DEF t, a, b, c, d, e, f, C
<1>9. Plain(S) /\ InSlcr(S)
  <2>1. /\ \A g \in DOMAIN [CLKACT |-> 1] : [CLKACT |-> 1][g] \in Nat
        /\ \A g \in DOMAIN [CLKACT0 |-> 1, CLKACT1 |-> 0] :
             [CLKACT0 |-> 1, CLKACT1 |-> 0][g] \in Nat
        /\ \A g \in DOMAIN [UART0_CPU_1XCLKACT |-> 1, LQSPI_CPU_1XCLKACT |-> 1] :
             [UART0_CPU_1XCLKACT |-> 1, LQSPI_CPU_1XCLKACT |-> 1][g] \in Nat
    OBVIOUS
  <2>2. SLCR(\h128)[1] = "SLCR" /\ SLCR(\h154)[1] = "SLCR" /\ SLCR(\h12C)[1] = "SLCR"
    BY DEF SLCR
  <2> QED BY <1>5, <1>6, <1>7, <1>8, <2>1, <2>2 DEF Plain, InSlcr
<1>10. /\ body \in Seq(S) /\ Len(body) = 12
       /\ body[1] = a /\ body[6] = b /\ body[11] = d
       /\ \A k \in 1..12 : k \notin {1, 6, 11} => body[k] \in C
  <2>1. /\ c \in Seq(Configs("SLCR")) /\ Len(c) = 4 /\ e \in Seq(Configs("SLCR"))
        /\ Len(e) = 4 /\ f \in Seq(Configs("SLCR")) /\ Len(f) = 1
    BY <1>2, <1>3, <1>4 DEF C
  <2>2. TwelveAround(body, a, b, d)
    BY <2>1, ClockBody
  <2> QED BY <2>2 DEF TwelveAround, C
<1> HIDE DEF S, body
<1>11. /\ WellFormed(t) /\ Len(t) = 15 /\ KeyedUpTo(t, 14) /\ t[1] = Unlock
       /\ t[14] = Lock /\ t[15] = EMIT_EXIT
       /\ \A k \in 1..12 : t[k + 1] = body[k]
  <2>1. Around(t, body)
    BY <1>1, <1>9, <1>10, TableOf
  <2>2. Len(body) = 12
    BY <1>10
  <2>3. Len(t) = 15
    BY <2>1, <2>2 DEF Around
  <2>4. Len(t) - 1 = 14 /\ Len(body) + 2 = 14 /\ Len(body) + 3 = 15
    BY <2>2, <2>3
  <2> QED BY <2>1, <2>2, <2>3, <2>4 DEF Around
<1>12. t[2] = a /\ t[7] = b /\ t[12] = d
  <2>1. t[1 + 1] = body[1] /\ t[6 + 1] = body[6] /\ t[11 + 1] = body[11]
    BY <1>11
  <2> QED BY <1>10, <2>1
<1>13. \A k \in 1..15 : \/ k \in {1, 14, 15} /\ t[k] \in {Unlock, Lock, EMIT_EXIT}
                        \/ k = 2 /\ t[k] = a
                        \/ k = 7 /\ t[k] = b
                        \/ k = 12 /\ t[k] = d
                        \/ t[k] \in C
  <2> TAKE k \in 1..15
  <2>1. CASE k \in {1, 14, 15}
    BY <1>11, <2>1
  <2>2. CASE k \in {2, 7, 12}
    BY <1>12, <2>2
  <2>3. CASE k \notin {1, 14, 15} /\ k \notin {2, 7, 12}
    <3>1. k - 1 \in 1..12 /\ k - 1 \notin {1, 6, 11} /\ (k - 1) + 1 = k
      BY <2>3
    <3> QED BY <1>10, <1>11, <3>1
  <2> QED BY <2>1, <2>2, <2>3
<1>14. \A k \in 1..15 : \A reg : Sets(t[k], reg) =>
         \/ reg = SLCR(\h128)
         \/ reg = SLCR(\h154) /\ k = 7
         \/ reg = SLCR(\h12C) /\ k = 12
  BY <1>5, <1>6, <1>7, <1>8, <1>13, SetsOf
<1>15. WritesOnly(t, {"SLCR"})
  <2>1. \A k \in 1..15 : t[k].opcode = "MASKWRITE" => t[k] \in S
    BY <1>13, SetsOf DEF S
  <2>2. \A k \in 1..15 : t[k].opcode = "MASKWRITE" => t[k].reg[1] = "SLCR"
    BY <1>9, <2>1 DEF InSlcr
  <2> QED BY <1>11, <2>2 DEF WritesOnly
<1>16. SLCR(\h128) # SLCR(\h154) /\ SLCR(\h128) # SLCR(\h12C) /\ SLCR(\h154) # SLCR(\h12C)
  BY DEF SLCR
<1>17. SetsOnly(t, {SLCR(\h128), SLCR(\h154), SLCR(\h12C)})
  BY <1>11, <1>14 DEF SetsOnly
<1>18. \A k \in 1..15 : /\ Sets(t[k], SLCR(\h154)) => k = 7
                        /\ Sets(t[k], SLCR(\h12C)) => k = 12
  BY <1>14, <1>16
<1>19. ClockShape(t)
  BY <1>11, <1>12, <1>15, <1>17, <1>18 DEF ClockShape, b, d
<1> QED BY <1>19 DEF t

-----------------------------------------------------------------------------
(* What waits for the fabric, and the keys of the trace components.          *)

(* The three silicon versions have the same table.                           *)
LEMMA SamePostConfig ==
  /\ Silicon1!ps7_post_config_data = ps7_post_config_data
  /\ Silicon2!ps7_post_config_data = ps7_post_config_data
  /\ Silicon3!ps7_post_config_data = ps7_post_config_data
<1>1. Silicon1!ps7_post_config_data = ps7_post_config_data
  BY DEF ps7_post_config_data, Unlocked, Unlock, Lock, EMIT_WRITE, EMIT_MASKWRITE,
         EMIT_EXIT, SLCR, Config, NoFields, LevelShifters, FpgaResets,
         Silicon1!ps7_post_config_data, Silicon1!Unlocked, Silicon1!Unlock,
         Silicon1!Lock, Silicon1!EMIT_WRITE, Silicon1!EMIT_MASKWRITE, Silicon1!EMIT_EXIT,
         Silicon1!SLCR, Silicon1!Config, Silicon1!NoFields, Silicon1!LevelShifters,
         Silicon1!FpgaResets
<1>2. Silicon2!ps7_post_config_data = ps7_post_config_data
  BY DEF ps7_post_config_data, Unlocked, Unlock, Lock, EMIT_WRITE, EMIT_MASKWRITE,
         EMIT_EXIT, SLCR, Config, NoFields, LevelShifters, FpgaResets,
         Silicon2!ps7_post_config_data, Silicon2!Unlocked, Silicon2!Unlock,
         Silicon2!Lock, Silicon2!EMIT_WRITE, Silicon2!EMIT_MASKWRITE, Silicon2!EMIT_EXIT,
         Silicon2!SLCR, Silicon2!Config, Silicon2!NoFields, Silicon2!LevelShifters,
         Silicon2!FpgaResets
<1>3. Silicon3!ps7_post_config_data = ps7_post_config_data
  BY DEF ps7_post_config_data, Unlocked, Unlock, Lock, EMIT_WRITE, EMIT_MASKWRITE,
         EMIT_EXIT, SLCR, Config, NoFields, LevelShifters, FpgaResets,
         Silicon3!ps7_post_config_data, Silicon3!Unlocked, Silicon3!Unlock,
         Silicon3!Lock, Silicon3!EMIT_WRITE, Silicon3!EMIT_MASKWRITE, Silicon3!EMIT_EXIT,
         Silicon3!SLCR, Silicon3!Config, Silicon3!NoFields, Silicon3!LevelShifters,
         Silicon3!FpgaResets
<1> QED BY <1>1, <1>2, <1>3

(* The three silicon versions have the same table.                           *)
LEMMA SameDebug ==
  /\ Silicon1!ps7_debug_data = ps7_debug_data
  /\ Silicon2!ps7_debug_data = ps7_debug_data
  /\ Silicon3!ps7_debug_data = ps7_debug_data
<1>1. Silicon1!ps7_debug_data = ps7_debug_data
  BY DEF ps7_debug_data, EMIT_WRITE, EMIT_EXIT, NoFields, Silicon1!ps7_debug_data,
         Silicon1!EMIT_WRITE, Silicon1!EMIT_EXIT, Silicon1!NoFields
<1>2. Silicon2!ps7_debug_data = ps7_debug_data
  BY DEF ps7_debug_data, EMIT_WRITE, EMIT_EXIT, NoFields, Silicon2!ps7_debug_data,
         Silicon2!EMIT_WRITE, Silicon2!EMIT_EXIT, Silicon2!NoFields
<1>3. Silicon3!ps7_debug_data = ps7_debug_data
  BY DEF ps7_debug_data, EMIT_WRITE, EMIT_EXIT, NoFields, Silicon3!ps7_debug_data,
         Silicon3!EMIT_WRITE, Silicon3!EMIT_EXIT, Silicon3!NoFields
<1> QED BY <1>1, <1>2, <1>3

(* The level shifters are switched on before the fabric leaves its reset.    *)
LEMMA PostConfigData == PostConfigShape(ps7_post_config_data)
<1> DEFINE t == ps7_post_config_data
           a == EMIT_MASKWRITE(SLCR(\h900), [USER_LVL_EN |-> 1])
           b == EMIT_MASKWRITE(SLCR(\h240), [FPGA_OUT_RST |-> 0])
           c == EMIT_MASKWRITE(<<"AFI0", \h00>>, NoFields)
           d == EMIT_MASKWRITE(<<"AFI0", \h14>>, NoFields)
           S == {a, b, c, d}
           body == LevelShifters \o FpgaResets \o Config("AFI0", <<\h00, \h14>>)
<1>1. t = Unlocked(body) \o <<EMIT_EXIT>>
  BY DEF ps7_post_config_data
<1>2. body = <<a>> \o <<b>> \o <<c, d>>
  <2>1. Config("AFI0", <<\h00, \h14>>) = <<c, d>>
    BY DEF Config
  <2>2. LevelShifters = <<a>> /\ FpgaResets = <<b>>
    BY DEF LevelShifters, FpgaResets
  <2> HIDE DEF a, b, c, d
  <2> QED BY <2>1, <2>2
<1>3. /\ \A reg : Sets(a, reg) => reg = SLCR(\h900)
      /\ a.opcode = "MASKWRITE" /\ a.reg = SLCR(\h900) /\ a.fields = [USER_LVL_EN |-> 1]
  BY SetsOf
<1>4. /\ \A reg : Sets(b, reg) => reg = SLCR(\h240)
      /\ b.opcode = "MASKWRITE" /\ b.reg = SLCR(\h240) /\ b.fields = [FPGA_OUT_RST |-> 0]
  BY SetsOf
<1>5. /\ \A reg : ~Sets(c, reg) /\ ~Sets(d, reg)
      /\ c.opcode = "MASKWRITE" /\ c.reg[1] = "AFI0" /\ c.fields = NoFields
      /\ d.opcode = "MASKWRITE" /\ d.reg[1] = "AFI0" /\ d.fields = NoFields
  BY SetsOf
<1> HIDE DEF t, a, b, c, d, body
<1>6. Plain(S)
  <2>1. /\ \A g \in DOMAIN [USER_LVL_EN |-> 1] : [USER_LVL_EN |-> 1][g] \in Nat
        /\ \A g \in DOMAIN [FPGA_OUT_RST |-> 0] : [FPGA_OUT_RST |-> 0][g] \in Nat
        /\ \A g \in DOMAIN NoFields : NoFields[g] \in Nat
    BY DEF NoFields
  <2> QED BY <1>3, <1>4, <1>5, <2>1 DEF Plain
<1>7. /\ body \in Seq(S) /\ Len(body) = 4
      /\ body[1] = a /\ body[2] = b /\ body[3] = c /\ body[4] = d
  <2>1. <<a>> \in Seq(S) /\ <<b>> \in Seq(S) /\ <<c, d>> \in Seq(S)
    OBVIOUS
  <2> HIDE DEF S
  <2>2. body \in Seq(S)
    BY ONLY <1>2, <2>1
  <2>3. Len(body) = 4 /\ body[1] = a /\ body[2] = b /\ body[3] = c /\ body[4] = d
    BY ONLY <1>2
  <2> QED BY <2>2, <2>3
<1>8. /\ WellFormed(t) /\ Len(t) = 7 /\ KeyedUpTo(t, 6) /\ t[1] = Unlock
      /\ t[6] = Lock /\ t[7] = EMIT_EXIT
      /\ \A k \in 1..4 : t[k + 1] = body[k]
  <2> HIDE DEF S
  <2>1. Around(t, body)
    BY <1>1, <1>6, <1>7, TableOf
  <2>2. Len(body) = 4
    BY <1>7
  <2>3. Len(t) = 7
    BY <2>1, <2>2 DEF Around
  <2>4. Len(t) - 1 = 6 /\ Len(body) + 2 = 6 /\ Len(body) + 3 = 7
    BY <2>2, <2>3
  <2> QED BY <2>1, <2>2, <2>3, <2>4 DEF Around
<1>9. t[2] = a /\ t[3] = b /\ t[4] = c /\ t[5] = d
  <2>1. t[1 + 1] = body[1] /\ t[2 + 1] = body[2] /\ t[3 + 1] = body[3] /\ t[4 + 1] = body[4]
    BY <1>8
  <2> QED BY <1>7, <2>1
<1>10. \A k \in 1..7 : \/ t[k] \in {Unlock, Lock, EMIT_EXIT}
                       \/ k = 2 /\ t[k] = a
                       \/ k = 3 /\ t[k] = b
                       \/ t[k] \in {c, d}
  <2> TAKE k \in 1..7
  <2>1. k \in {1, 2, 3, 4, 5, 6, 7}
    OBVIOUS
  <2> QED BY <1>8, <1>9, <2>1
<1>11. \A k \in 1..7 : \A reg : Sets(t[k], reg) =>
         \/ reg = SLCR(\h900) /\ k = 2
         \/ reg = SLCR(\h240) /\ k = 3
  BY <1>3, <1>4, <1>5, <1>10, SetsOf
<1>12. WritesOnly(t, {"SLCR", "AFI0"})
  <2>1. SLCR(\h900)[1] = "SLCR" /\ SLCR(\h240)[1] = "SLCR"
    BY DEF SLCR
  <2>2. \A k \in 1..7 : t[k].opcode = "MASKWRITE" => t[k].reg[1] \in {"SLCR", "AFI0"}
    BY <1>3, <1>4, <1>5, <1>10, <2>1, SetsOf
  <2> QED BY <1>8, <2>2 DEF WritesOnly
<1>13. SLCR(\h900) # SLCR(\h240)
  BY DEF SLCR
<1>14. SetsOnly(t, {SLCR(\h900), SLCR(\h240)})
  BY <1>8, <1>11 DEF SetsOnly
<1>15. \A k \in 1..7 : /\ Sets(t[k], SLCR(\h900)) => k = 2
                       /\ Sets(t[k], SLCR(\h240)) => k > 2
  BY <1>11, <1>13
<1>16. PostConfigShape(t)
  BY <1>8, <1>9, <1>12, <1>14, <1>15 DEF PostConfigShape, a
<1> QED BY <1>16 DEF t

(* ps7_debug writes no register anybody here reads.                          *)
LEMMA DebugData == DebugShape(ps7_debug_data)
<1> DEFINE t == ps7_debug_data
           a == EMIT_WRITE(<<"CTI", \h98FB0>>, NoFields)
           b == EMIT_WRITE(<<"CTI", \h99FB0>>, NoFields)
           c == EMIT_WRITE(<<"CTI", \h09FB0>>, NoFields)
<1>1. t = <<a, b, c, EMIT_EXIT>>
  BY DEF ps7_debug_data
<1>2. /\ a.opcode = "WRITE" /\ b.opcode = "WRITE" /\ c.opcode = "WRITE"
      /\ EMIT_EXIT.opcode = "EXIT"
  BY SetsOf
<1> HIDE DEF t, a, b, c
<1>3. /\ Len(t) = 4 /\ DOMAIN t = 1..4
      /\ t[1] = a /\ t[2] = b /\ t[3] = c /\ t[4] = EMIT_EXIT
  BY <1>1
<1>4. \A k \in 1..4 : t[k].opcode = IF k = 4 THEN "EXIT" ELSE "WRITE"
  <2> TAKE k \in 1..4
  <2>1. k \in {1, 2, 3, 4}
    OBVIOUS
  <2> QED BY <1>2, <1>3, <2>1
<1>5. WellFormed(t)
  BY <1>3, <1>4 DEF WellFormed, Opcodes
<1>6. SetsOnly(t, {}) /\ \A k \in 1..Len(t) : t[k].opcode # "MASKWRITE"
  BY <1>3, <1>4 DEF SetsOnly, Sets
<1>7. DebugShape(t)
  BY <1>5, <1>6 DEF DebugShape
<1> QED BY <1>7 DEF t

-----------------------------------------------------------------------------
(* The peripherals.                                                          *)

(* The three silicon versions have the same table.                           *)
LEMMA SamePeripherals ==
  /\ Silicon1!ps7_peripherals_init_data = ps7_peripherals_init_data
  /\ Silicon2!ps7_peripherals_init_data = ps7_peripherals_init_data
  /\ Silicon3!ps7_peripherals_init_data = ps7_peripherals_init_data
<1>1. Silicon1!ps7_peripherals_init_data = ps7_peripherals_init_data
  BY DEF ps7_peripherals_init_data, Unlocked, Unlock, Lock, EMIT_WRITE, EMIT_MASKWRITE,
         EMIT_EXIT, SLCR, Config, NoFields, UART0, DdrTermination, UartInit, BuffersOn,
         BuffersOff, Silicon1!ps7_peripherals_init_data, Silicon1!Unlocked,
         Silicon1!Unlock, Silicon1!Lock, Silicon1!EMIT_WRITE, Silicon1!EMIT_MASKWRITE,
         Silicon1!EMIT_EXIT, Silicon1!SLCR, Silicon1!Config, Silicon1!NoFields,
         Silicon1!UART0, Silicon1!DdrTermination, Silicon1!UartInit, Silicon1!BuffersOn,
         Silicon1!BuffersOff
<1>2. Silicon2!ps7_peripherals_init_data = ps7_peripherals_init_data
  BY DEF ps7_peripherals_init_data, Unlocked, Unlock, Lock, EMIT_WRITE, EMIT_MASKWRITE,
         EMIT_EXIT, SLCR, Config, NoFields, UART0, DdrTermination, UartInit, BuffersOn,
         BuffersOff, Silicon2!ps7_peripherals_init_data, Silicon2!Unlocked,
         Silicon2!Unlock, Silicon2!Lock, Silicon2!EMIT_WRITE, Silicon2!EMIT_MASKWRITE,
         Silicon2!EMIT_EXIT, Silicon2!SLCR, Silicon2!Config, Silicon2!NoFields,
         Silicon2!UART0, Silicon2!DdrTermination, Silicon2!UartInit, Silicon2!BuffersOn,
         Silicon2!BuffersOff
<1>3. Silicon3!ps7_peripherals_init_data = ps7_peripherals_init_data
  BY DEF ps7_peripherals_init_data, Unlocked, Unlock, Lock, EMIT_WRITE, EMIT_MASKWRITE,
         EMIT_EXIT, SLCR, Config, NoFields, UART0, DdrTermination, UartInit, BuffersOn,
         BuffersOff, Silicon3!ps7_peripherals_init_data, Silicon3!Unlocked,
         Silicon3!Unlock, Silicon3!Lock, Silicon3!EMIT_WRITE, Silicon3!EMIT_MASKWRITE,
         Silicon3!EMIT_EXIT, Silicon3!SLCR, Silicon3!Config, Silicon3!NoFields,
         Silicon3!UART0, Silicon3!DdrTermination, Silicon3!UartInit, Silicon3!BuffersOn,
         Silicon3!BuffersOff
<1> QED BY <1>1, <1>2, <1>3

(* Lists put together are lists.                                             *)
LEMMA JoinFour ==
  ASSUME NEW a, NEW b, NEW c, NEW d
  PROVE  <<a, b>> \o <<c>> \o <<d>> = <<a, b, c, d>>
<1> DEFINE S == {a, b, c, d}
           s == <<a, b>> \o <<c>> \o <<d>>
<1>1. <<a, b>> \in Seq(S) /\ <<c>> \in Seq(S) /\ <<d>> \in Seq(S)
  OBVIOUS
<1>2. s \in Seq(S) /\ <<a, b, c, d>> \in Seq(S)
  BY <1>1
<1>3. Len(s) = 4
  OBVIOUS
<1>4. \A k \in 1..4 : s[k] = <<a, b, c, d>>[k]
  OBVIOUS
<1> QED BY <1>2, <1>3, <1>4, SeqEqual

(* Four between two.                                                         *)
LEMMA JoinSix ==
  ASSUME NEW a, NEW b, NEW c, NEW d, NEW e, NEW f
  PROVE  <<a>> \o <<b, c, d, e>> \o <<f>> = <<a, b, c, d, e, f>>
<1> DEFINE S == {a, b, c, d, e, f}
           s == <<a>> \o <<b, c, d, e>> \o <<f>>
<1>1. <<a>> \in Seq(S) /\ <<b, c, d, e>> \in Seq(S) /\ <<f>> \in Seq(S)
  OBVIOUS
<1>2. s \in Seq(S) /\ <<a, b, c, d, e, f>> \in Seq(S)
  BY <1>1
<1>3. Len(s) = 6
  OBVIOUS
<1>4. \A k \in 1..6 : s[k] = <<a, b, c, d, e, f>>[k]
  OBVIOUS
<1> QED BY <1>2, <1>3, <1>4, SeqEqual

(* The peripherals, instruction by instruction.                              *)
LEMMA JoinThirteen ==
  ASSUME NEW x1, NEW x2, NEW x3, NEW x4, NEW x5, NEW x6, NEW x7, NEW x8, NEW x9, NEW x10,
         NEW x11, NEW x12, NEW x13
  PROVE  <<x1, x2, x3, x4, x5, x6>> \o <<x7, x8, x9, x10>> \o <<x11>> \o <<x12>> \o <<x13>>
           = <<x1, x2, x3, x4, x5, x6, x7, x8, x9, x10, x11, x12, x13>>
<1> DEFINE S == {x1, x2, x3, x4, x5, x6, x7, x8, x9, x10, x11, x12, x13}
           s == <<x1, x2, x3, x4, x5, x6>> \o <<x7, x8, x9, x10>> \o <<x11>> \o <<x12>>
                  \o <<x13>>
           r == <<x1, x2, x3, x4, x5, x6, x7, x8, x9, x10, x11, x12, x13>>
<1>1. /\ <<x1, x2, x3, x4, x5, x6>> \in Seq(S) /\ <<x7, x8, x9, x10>> \in Seq(S)
      /\ <<x11>> \in Seq(S) /\ <<x12>> \in Seq(S) /\ <<x13>> \in Seq(S)
  OBVIOUS
<1>2. s \in Seq(S) /\ r \in Seq(S)
  BY <1>1
<1>3. Len(s) = 13 /\ Len(r) = 13
  OBVIOUS
<1>4. \A n \in 1..13 : s[n] = r[n]
  OBVIOUS
<1> QED BY <1>2, <1>3, <1>4, SeqEqual

(* The table of the peripherals has its shape.                               *)
LEMMA PeripheralsTable == PeripheralsShape(ps7_peripherals_init_data)
<1> DEFINE t == ps7_peripherals_init_data
           p1 == EMIT_MASKWRITE(SLCR(\hB48), BuffersOff)
           p2 == EMIT_MASKWRITE(SLCR(\hB4C), BuffersOn)
           p3 == EMIT_MASKWRITE(SLCR(\hB50), BuffersOff)
           p4 == EMIT_MASKWRITE(SLCR(\hB54), BuffersOn)
           u1 == EMIT_MASKWRITE(<<"UART0", \h34>>, NoFields)
           u2 == EMIT_MASKWRITE(<<"UART0", \h18>>, NoFields)
           u3 == EMIT_MASKWRITE(UART0(\h00), [TXEN |-> 1, TXDIS |-> 0])
           u4 == EMIT_MASKWRITE(<<"UART0", \h04>>, NoFields)
           q  == EMIT_MASKWRITE(<<"QSPI", \h00>>, NoFields)
           v  == EMIT_MASKWRITE(<<"DEVCFG", \h00>>, NoFields)
<1>1. t = <<Unlock, p1, p2, p3, p4, Lock, u1, u2, u3, u4, q, v, EMIT_EXIT>>
  <2>1. DdrTermination = <<p1, p2, p3, p4>>
    BY DEF DdrTermination
  <2>2. Config("UART0", <<\h34, \h18>>) = <<u1, u2>> /\ Config("UART0", <<\h04>>) = <<u4>>
        /\ Config("QSPI", <<\h00>>) = <<q>> /\ Config("DEVCFG", <<\h00>>) = <<v>>
    BY DEF Config
  <2>3. UartInit = <<u1, u2>> \o <<u3>> \o <<u4>>
    BY <2>2 DEF UartInit
  <2>4. Unlocked(DdrTermination) = <<Unlock>> \o DdrTermination \o <<Lock>>
    BY DEF Unlocked
  <2>5. t = Unlocked(DdrTermination) \o UartInit \o Config("QSPI", <<\h00>>)
              \o Config("DEVCFG", <<\h00>>) \o <<EMIT_EXIT>>
    BY DEF ps7_peripherals_init_data
  <2> HIDE DEF t, p1, p2, p3, p4, u1, u2, u3, u4, q, v
  <2>6. Unlocked(DdrTermination) = <<Unlock, p1, p2, p3, p4, Lock>>
    <3>1. <<Unlock>> \o <<p1, p2, p3, p4>> \o <<Lock>> = <<Unlock, p1, p2, p3, p4, Lock>>
      BY ONLY JoinSix
    <3> QED BY ONLY <2>1, <2>4, <3>1
  <2>7. UartInit = <<u1, u2, u3, u4>>
    BY <2>3, JoinFour
  <2>8. t = <<Unlock, p1, p2, p3, p4, Lock>> \o <<u1, u2, u3, u4>> \o <<q>> \o <<v>>
              \o <<EMIT_EXIT>>
    BY <2>2, <2>5, <2>6, <2>7
  <2>9. <<Unlock, p1, p2, p3, p4, Lock>> \o <<u1, u2, u3, u4>> \o <<q>> \o <<v>> \o <<EMIT_EXIT>>
          = <<Unlock, p1, p2, p3, p4, Lock, u1, u2, u3, u4, q, v, EMIT_EXIT>>
    BY ONLY JoinThirteen
  <2> QED BY ONLY <2>8, <2>9
<1>2. /\ \A reg : Sets(p1, reg) => reg = SLCR(\hB48)
      /\ p1.opcode = "MASKWRITE" /\ p1.reg = SLCR(\hB48) /\ p1.fields = BuffersOff
  BY SetsOf
<1>3. /\ \A reg : Sets(p2, reg) => reg = SLCR(\hB4C)
      /\ p2.opcode = "MASKWRITE" /\ p2.reg = SLCR(\hB4C) /\ p2.fields = BuffersOn
  BY SetsOf
<1>4. /\ \A reg : Sets(p3, reg) => reg = SLCR(\hB50)
      /\ p3.opcode = "MASKWRITE" /\ p3.reg = SLCR(\hB50) /\ p3.fields = BuffersOff
  BY SetsOf
<1>5. /\ \A reg : Sets(p4, reg) => reg = SLCR(\hB54)
      /\ p4.opcode = "MASKWRITE" /\ p4.reg = SLCR(\hB54) /\ p4.fields = BuffersOn
  BY SetsOf
<1>6. /\ \A reg : ~Sets(u1, reg) /\ ~Sets(u2, reg) /\ ~Sets(u4, reg)
      /\ u1.opcode = "MASKWRITE" /\ u1.reg[1] = "UART0" /\ u1.fields = NoFields
      /\ u2.opcode = "MASKWRITE" /\ u2.reg[1] = "UART0" /\ u2.fields = NoFields
      /\ u4.opcode = "MASKWRITE" /\ u4.reg[1] = "UART0" /\ u4.fields = NoFields
  BY SetsOf
<1>7. /\ \A reg : Sets(u3, reg) => reg = UART0(\h00)
      /\ u3.opcode = "MASKWRITE" /\ u3.reg = UART0(\h00)
      /\ u3.fields = [TXEN |-> 1, TXDIS |-> 0]
  BY SetsOf
<1>8. /\ \A reg : ~Sets(q, reg) /\ ~Sets(v, reg)
      /\ q.opcode = "MASKWRITE" /\ q.reg[1] = "QSPI" /\ q.fields = NoFields
      /\ v.opcode = "MASKWRITE" /\ v.reg[1] = "DEVCFG" /\ v.fields = NoFields
  BY SetsOf
<1> HIDE DEF t, p1, p2, p3, p4, u1, u2, u3, u4, q, v
<1>9. /\ Len(t) = 13 /\ DOMAIN t = 1..13
      /\ t[1] = Unlock /\ t[2] = p1 /\ t[3] = p2 /\ t[4] = p3 /\ t[5] = p4 /\ t[6] = Lock
      /\ t[7] = u1 /\ t[8] = u2 /\ t[9] = u3 /\ t[10] = u4 /\ t[11] = q /\ t[12] = v
      /\ t[13] = EMIT_EXIT
  <2>1. Len(t) = 13
    BY ONLY <1>1
  <2>2. /\ t[1] = Unlock /\ t[2] = p1 /\ t[3] = p2 /\ t[4] = p3 /\ t[5] = p4 /\ t[6] = Lock
    BY ONLY <1>1
  <2>3. /\ t[7] = u1 /\ t[8] = u2 /\ t[9] = u3 /\ t[10] = u4
    BY ONLY <1>1
  <2>4. t[11] = q /\ t[12] = v /\ t[13] = EMIT_EXIT
    BY ONLY <1>1
  <2>5. DOMAIN t = 1..13
    BY ONLY <1>1
  <2> QED BY <2>1, <2>2, <2>3, <2>4, <2>5
<1>10. \A k \in 1..13 : k \in {1, 2, 3, 4, 5, 6, 7, 8, 9, 10, 11, 12, 13}
  OBVIOUS
<1>11. SLCR(\hB48)[1] = "SLCR" /\ SLCR(\hB4C)[1] = "SLCR" /\ SLCR(\hB50)[1] = "SLCR"
       /\ SLCR(\hB54)[1] = "SLCR" /\ UART0(\h00)[1] = "UART0"
  BY DEF SLCR, UART0
<1>12. \A k \in 1..13 :
         /\ t[k].opcode = IF k = 13 THEN "EXIT" ELSE IF k \in {1, 6} THEN "WRITE" ELSE "MASKWRITE"
         /\ k \in {2, 3, 4, 5} => t[k].reg[1] = "SLCR"
         /\ k \in {7, 8, 9, 10} => t[k].reg[1] = "UART0"
         /\ k = 11 => t[k].reg[1] = "QSPI"
         /\ k = 12 => t[k].reg[1] = "DEVCFG"
  <2> TAKE k \in 1..13
  <2>1. k \in {1, 2, 3, 4, 5, 6, 7, 8, 9, 10, 11, 12, 13}
    BY <1>10
  <2> QED BY <1>2, <1>3, <1>4, <1>5, <1>6, <1>7, <1>8, <1>9, <1>11, <2>1, SetsOf
<1>13. \A k \in 1..13 : k \notin {1, 6, 13} => \A g \in DOMAIN t[k].fields : t[k].fields[g] \in Nat
  <2>1. /\ \A g \in DOMAIN BuffersOn : BuffersOn[g] \in Nat
        /\ \A g \in DOMAIN BuffersOff : BuffersOff[g] \in Nat
        /\ \A g \in DOMAIN NoFields : NoFields[g] \in Nat
        /\ \A g \in DOMAIN [TXEN |-> 1, TXDIS |-> 0] : [TXEN |-> 1, TXDIS |-> 0][g] \in Nat
    BY DEF BuffersOn, BuffersOff, NoFields
  <2>2. \A k \in 1..13 : k \notin {1, 6, 13} =>
          t[k].fields \in {BuffersOn, BuffersOff, NoFields, [TXEN |-> 1, TXDIS |-> 0]}
    BY <1>2, <1>3, <1>4, <1>5, <1>6, <1>7, <1>8, <1>9, <1>10
  <2> QED BY <2>1, <2>2
<1>14. WellFormed(t)
  BY <1>9, <1>12, <1>13 DEF WellFormed, Opcodes
<1>15. KeyedUpTo(t, 6)
  <2>1. \A k \in 1..13 : /\ t[k].opcode = "WRITE" => k \in {1, 6}
                         /\ t[k].opcode = "MASKWRITE" /\ t[k].reg[1] = "SLCR" => k < 6
    <3> TAKE k \in 1..13
    <3>1. k \in {1, 2, 3, 4, 5, 6, 7, 8, 9, 10, 11, 12, 13}
      BY <1>10
    <3> QED BY <1>12, <3>1
  <2> QED BY <1>9, <2>1 DEF KeyedUpTo, IsSlcr
<1>16. WritesOnly(t, {"SLCR", "UART0", "QSPI", "DEVCFG"})
  <2>1. \A k \in 1..13 : t[k].opcode = "MASKWRITE" =>
          t[k].reg[1] \in {"SLCR", "UART0", "QSPI", "DEVCFG"}
    BY <1>10, <1>12
  <2> QED BY <1>9, <2>1 DEF WritesOnly
<1>17. \A k \in 1..13 : \A reg : Sets(t[k], reg) =>
         \/ reg \in {SLCR(\hB48), SLCR(\hB4C), SLCR(\hB50), SLCR(\hB54)}
         \/ reg = UART0(\h00) /\ k = 9
  <2> TAKE k \in 1..13
  <2> TAKE reg
  <2>1. k \in {1, 2, 3, 4, 5, 6, 7, 8, 9, 10, 11, 12, 13}
    BY <1>10
  <2> QED BY <1>2, <1>3, <1>4, <1>5, <1>6, <1>7, <1>8, <1>9, <2>1, SetsOf
<1>18. SLCR(\hB4C) \notin Registers /\ SLCR(\hB54) \notin Registers
  <2>1. SLCR(\hB4C) \notin PllCtrls /\ SLCR(\hB54) \notin PllCtrls
    BY CtrlNames
  <2> QED BY <2>1 DEF Registers, SLCR, MIO, DDRC, UART0
<1>19. SetsOnly(t, {SLCR(\hB48), SLCR(\hB50), UART0(\h00)})
  BY <1>9, <1>17, <1>18 DEF SetsOnly
<1>20. \A k \in 1..13 : Sets(t[k], UART0(\h00)) => k = 9
  <2>1. UART0(\h00) \notin {SLCR(\hB48), SLCR(\hB4C), SLCR(\hB50), SLCR(\hB54)}
    BY DEF UART0, SLCR
  <2> QED BY <1>17, <2>1
<1>21. PeripheralsShape(t)
  BY <1>9, <1>14, <1>15, <1>16, <1>19, <1>20 DEF PeripheralsShape, u3
<1> QED BY <1>21 DEF t

-----------------------------------------------------------------------------
(* The DDR controller.                                                       *)

(* The controller is in reset and only configured.                           *)
Configures(s) ==
  /\ s \in Seq(Configs("DDRC") \cup {SoftReset(0)}) /\ Len(s) > 0 /\ s[1] = SoftReset(0)
  /\ \A k \in 2..Len(s) : s[k] \in Configs("DDRC")

(* More configuration is still configuration.                                *)
LEMMA ConfiguresMore ==
  ASSUME NEW s, Configures(s), NEW r \in Seq(Configs("DDRC"))
  PROVE  Configures(s \o r)
<1> DEFINE C == Configs("DDRC")
           S == C \cup {SoftReset(0)}
<1>1. s \in Seq(S) /\ Len(s) > 0 /\ s[1] = SoftReset(0) /\ \A k \in 2..Len(s) : s[k] \in C
  BY DEF Configures
<1>2. r \in Seq(S)
  BY SeqMonotonic
<1>3. \A k \in 1..Len(r) : r[k] \in C
  BY ElementIn
<1> HIDE DEF C, S
<1>4. /\ s \o r \in Seq(S) /\ Len(s \o r) = Len(s) + Len(r)
      /\ Len(s) \in Nat /\ Len(r) \in Nat
      /\ \A k \in 1..Len(s) : (s \o r)[k] = s[k]
      /\ \A k \in 1..Len(r) : (s \o r)[Len(s) + k] = r[k]
  <2>1. s \in Seq(S)
    BY <1>1
  <2> QED BY ONLY <1>2, <2>1, Joined
<1>5. (s \o r)[1] = SoftReset(0) /\ Len(s \o r) > 0
  <2>1. 1 \in 1..Len(s)
    BY <1>1, <1>4
  <2> QED BY <1>1, <1>4, <2>1
<1>6. ASSUME NEW k \in 2..Len(s \o r)
      PROVE  (s \o r)[k] \in C
  <2>1. CASE k \in 2..Len(s)
    <3>1. k \in 1..Len(s)
      BY <2>1, <1>4
    <3> QED BY <1>1, <1>4, <2>1, <3>1
  <2>2. CASE k \notin 2..Len(s)
    <3>1. k - Len(s) \in 1..Len(r) /\ Len(s) + (k - Len(s)) = k
      BY <2>2, <1>1, <1>4
    <3> QED BY <1>3, <1>4, <3>1
  <2> QED BY <2>1, <2>2
<1> QED BY <1>4, <1>5, <1>6 DEF Configures, C, S

(* What follows the configuration: the calibration, the release, the wait.   *)
LEMMA DdrEnd ==
  ASSUME NEW s, Configures(s)
  PROVE  DdrShape(s \o DdrReleased \o <<EMIT_EXIT>>)
<1> DEFINE C == Configs("DDRC")
           d1 == EMIT_MASKPOLL(SLCR(\hB74), "DONE")
           d2 == SoftReset(1)
           d3 == EMIT_MASKPOLL(DDRC(\h054), "ddrc_reg_operating_mode")
           T == C \cup {SoftReset(0), d1, d2, d3, EMIT_EXIT}
           n == Len(s)
           r == DdrReleased
           x == <<EMIT_EXIT>>
           u == s \o r
           t == u \o x
<1>1. s \in Seq(C \cup {SoftReset(0)}) /\ n > 0 /\ s[1] = SoftReset(0)
      /\ \A k \in 2..n : s[k] \in C
  BY DEF Configures
<1>2. r = <<d1, d2, d3>>
  BY DEF DdrReleased
<1>3. /\ \A reg : ~Sets(d1, reg) /\ ~Sets(d3, reg)
      /\ d1.opcode = "MASKPOLL" /\ d3.opcode = "MASKPOLL"
  BY SetsOf
<1>4. /\ \A v, reg : Sets(SoftReset(v), reg) => reg = DDRC(\h000)
      /\ \A v : /\ SoftReset(v).opcode = "MASKWRITE" /\ SoftReset(v).reg = DDRC(\h000)
                /\ SoftReset(v).fields = [reg_ddrc_soft_rstb |-> v]
  BY SetsOf DEF SoftReset
<1>5. \A ins \in C : /\ ins.opcode = "MASKWRITE" /\ ins.reg[1] = "DDRC"
                     /\ \A g \in DOMAIN ins.fields : ins.fields[g] \in Nat
                     /\ \A reg : ~Sets(ins, reg)
  BY ConfigsFacts
<1> HIDE DEF C, d1, d2, d3, n
<1>6. s \in Seq(T) /\ r \in Seq(T) /\ x \in Seq(T)
  <2>1. C \cup {SoftReset(0)} \subseteq T
    OBVIOUS
  <2>2. s \in Seq(T)
    BY ONLY <1>1, <2>1, SeqMonotonic
  <2>3. <<d1, d2, d3>> \in Seq(T) /\ x \in Seq(T)
    OBVIOUS
  <2> QED BY <1>2, <2>2, <2>3
<1>7. Len(r) = 3 /\ r[1] = d1 /\ r[2] = d2 /\ r[3] = d3
  BY <1>2
<1>8. Len(x) = 1 /\ x[1] = EMIT_EXIT
  OBVIOUS
<1> HIDE DEF T, r, x
<1>9. /\ u \in Seq(T) /\ Len(u) = Len(s) + Len(r) /\ Len(s) \in Nat
      /\ \A k \in 1..Len(s) : u[k] = s[k]
      /\ \A k \in 1..Len(r) : u[Len(s) + k] = r[k]
  BY <1>6, Joined
<1> HIDE DEF u
<1>10. /\ t \in Seq(T) /\ Len(t) = Len(u) + Len(x)
       /\ \A k \in 1..Len(u) : t[k] = u[k]
       /\ \A k \in 1..Len(x) : t[Len(u) + k] = x[k]
  <2>1. u \in Seq(T)
    BY <1>9
  <2> QED BY <1>6, <2>1, Joined
<1> HIDE DEF t
<1>11. Len(u) = n + 3 /\ Len(t) = n + 4 /\ n \in Nat /\ DOMAIN t = 1..(n + 4)
  BY <1>7, <1>8, <1>9, <1>10 DEF n
<1>12. /\ \A k \in 1..n : t[k] = s[k]
       /\ t[n + 1] = d1 /\ t[n + 2] = d2 /\ t[n + 3] = d3 /\ t[n + 4] = EMIT_EXIT
  <2>1. \A k \in 1..n : t[k] = s[k]
    <3> TAKE k \in 1..n
    <3>1. k \in 1..Len(s) /\ k \in 1..Len(u)
      BY <1>11 DEF n
    <3> QED BY <1>9, <1>10, <3>1
  <2>2. \A k \in 1..3 : t[n + k] = r[k]
    <3> TAKE k \in 1..3
    <3>1. k \in 1..Len(r) /\ n + k \in 1..Len(u)
      BY <1>7, <1>11
    <3>2. t[n + k] = u[n + k] /\ u[n + k] = r[k]
      BY <1>9, <1>10, <3>1 DEF n
    <3> QED BY <3>2
  <2>3. t[n + 4] = EMIT_EXIT
    <3>1. 1 \in 1..Len(x) /\ Len(u) + 1 = n + 4
      BY <1>8, <1>11
    <3> QED BY <1>8, <1>10, <3>1
  <2> QED BY <1>7, <2>1, <2>2, <2>3
<1>13. t[1] = SoftReset(0)
  <2>1. 1 \in 1..n
    BY <1>1, <1>11
  <2> QED BY <1>1, <1>12, <2>1
<1>14. \A k \in 1..(n + 4) : \/ k = 1 /\ t[k] = SoftReset(0)
                             \/ k \in 2..n /\ t[k] \in C
                             \/ k = n + 1 /\ t[k] = d1
                             \/ k = n + 2 /\ t[k] = SoftReset(1)
                             \/ k = n + 3 /\ t[k] = d3
                             \/ k = n + 4 /\ t[k] = EMIT_EXIT
  <2> TAKE k \in 1..(n + 4)
  <2>1. CASE k \in 2..n
    <3>1. k \in 1..n
      BY <1>11, <2>1
    <3> QED BY <1>1, <1>12, <2>1, <3>1
  <2>2. CASE k \notin 2..n
    <3>1. k = 1 \/ k = n + 1 \/ k = n + 2 \/ k = n + 3 \/ k = n + 4
      BY <1>11, <2>2
    <3>2. t[n + 2] = SoftReset(1)
      BY <1>12 DEF d2
    <3> QED BY <1>12, <1>13, <3>1, <3>2
  <2> QED BY <2>1, <2>2
<1>15. /\ n + 1 > 1 /\ n + 2 > n + 1 /\ n + 3 > n + 2 /\ n + 4 > n + 3 /\ n >= 1
  BY <1>1, <1>11
<1>16. \A k \in 1..(n + 4) :
         /\ t[k].opcode = IF k = n + 4 THEN "EXIT"
                          ELSE IF k \in {n + 1, n + 3} THEN "MASKPOLL" ELSE "MASKWRITE"
         /\ t[k].opcode = "MASKWRITE" => /\ t[k].reg[1] = "DDRC" /\ k \in 1..n \cup {n + 2}
                                         /\ \A g \in DOMAIN t[k].fields : t[k].fields[g] \in Nat
         /\ \A reg : Sets(t[k], reg) => reg = DDRC(\h000) /\ k \in {1, n + 2}
  <2> TAKE k \in 1..(n + 4)
  <2>1. CASE k = 1 /\ t[k] = SoftReset(0)
    <3>1. k # n + 1 /\ k # n + 2 /\ k # n + 3 /\ k # n + 4 /\ k \in 1..n
      BY <1>11, <1>15, <2>1
    <3>2. DDRC(\h000)[1] = "DDRC"
      BY DEF DDRC
    <3>3. \A g \in DOMAIN [reg_ddrc_soft_rstb |-> 0] : [reg_ddrc_soft_rstb |-> 0][g] \in Nat
      OBVIOUS
    <3> QED BY <1>4, <2>1, <3>1, <3>2, <3>3
  <2>2. CASE k \in 2..n /\ t[k] \in C
    <3>1. k # n + 1 /\ k # n + 2 /\ k # n + 3 /\ k # n + 4 /\ k \in 1..n
      BY <1>11, <2>2
    <3> QED BY <1>5, <2>2, <3>1
  <2>3. CASE k = n + 1 /\ t[k] = d1
    <3>1. k # n + 4
      BY <1>11, <2>3
    <3> QED BY <1>3, <2>3, <3>1
  <2>4. CASE k = n + 2 /\ t[k] = SoftReset(1)
    <3>1. k # n + 1 /\ k # n + 3 /\ k # n + 4
      BY <1>11, <2>4
    <3>2. DDRC(\h000)[1] = "DDRC"
      BY DEF DDRC
    <3>3. \A g \in DOMAIN [reg_ddrc_soft_rstb |-> 1] : [reg_ddrc_soft_rstb |-> 1][g] \in Nat
      OBVIOUS
    <3> QED BY <1>4, <2>4, <3>1, <3>2, <3>3
  <2>5. CASE k = n + 3 /\ t[k] = d3
    <3>1. k # n + 4
      BY <1>11, <2>5
    <3> QED BY <1>3, <2>5, <3>1
  <2>6. CASE k = n + 4 /\ t[k] = EMIT_EXIT
    BY <2>6, SetsOf
  <2> QED BY <1>14, <2>1, <2>2, <2>3, <2>4, <2>5, <2>6
<1>17. WellFormed(t)
  <2>1. n + 4 \in Nat \ {0}
    BY <1>11
  <2>2. \A k \in 1..(n + 4) : t[k].opcode \in Opcodes /\ (t[k].opcode = "EXIT" <=> k = n + 4)
    BY <1>16 DEF Opcodes
  <2>3. \A k \in 1..(n + 4) : t[k].opcode = "MASKWRITE" =>
          \A g \in DOMAIN t[k].fields : t[k].fields[g] \in Nat
    BY <1>16
  <2> QED BY <1>11, <2>1, <2>2, <2>3 DEF WellFormed
<1>18. NoKeys(t)
  <2>1. \A k \in 1..(n + 4) : /\ t[k].opcode # "WRITE"
                              /\ t[k].opcode = "MASKWRITE" => t[k].reg[1] # "SLCR"
    BY <1>16
  <2> QED BY <1>11, <2>1 DEF NoKeys, IsSlcr
<1>19. WritesOnly(t, {"DDRC"})
  BY <1>11, <1>16 DEF WritesOnly
<1>20. SetsOnly(t, {DDRC(\h000)})
  BY <1>11, <1>16 DEF SetsOnly
<1>21. /\ (n + 4) - 3 = n + 1 /\ (n + 4) - 2 = n + 2 /\ (n + 4) - 1 = n + 3 /\ n + 4 > 4
       /\ n + 4 \in Nat
  BY <1>1, <1>11
<1>22. \A k \in 1..(n + 4) : t[k].opcode = "MASKWRITE" /\ k # n + 2 => k < n + 1
  <2> TAKE k \in 1..(n + 4)
  <2> HAVE t[k].opcode = "MASKWRITE" /\ k # n + 2
  <2>1. k \in 1..n
    BY <1>16
  <2> QED BY <1>11, <2>1
<1>23. \A k \in 1..(n + 4) : Sets(t[k], DDRC(\h000)) => k \in {1, n + 2}
  BY <1>16
<1>24. DdrShape(t)
  <2>1. t[n + 1] = d1 /\ t[n + 2] = SoftReset(1) /\ t[n + 3] = d3
    BY <1>12 DEF d2
  <2>2. PICK l : l = n + 4
    OBVIOUS
  <2>3. /\ Len(t) = l /\ l \in Nat /\ l > 4 /\ t[l - 3] = d1 /\ t[l - 2] = SoftReset(1)
        /\ t[l - 1] = d3
    BY <1>11, <1>21, <2>1, <2>2
  <2>4. \A k \in 1..l : Sets(t[k], DDRC(\h000)) => k \in {1, l - 2}
    BY <1>21, <1>23, <2>2
  <2>5. \A k \in 1..l : t[k].opcode = "MASKWRITE" /\ k # l - 2 => k < l - 3
    BY <1>21, <1>22, <2>2
  <2> QED BY <1>13, <1>17, <1>18, <1>19, <1>20, <2>3, <2>4, <2>5 DEF DdrShape, d1, d3
<1> QED BY <1>24 DEF t, u, r, x

(* Eleven lists of registers make the configuration.                         *)
LEMMA DdrOf ==
  ASSUME NEW a \in [1..11 -> Seq(Configs("DDRC"))]
  PROVE  DdrShape(<<SoftReset(0)>> \o a[1] \o a[2] \o a[3] \o a[4] \o a[5] \o a[6] \o a[7]
                    \o a[8] \o a[9] \o a[10] \o a[11] \o DdrReleased \o <<EMIT_EXIT>>)
<1> DEFINE s0 == <<SoftReset(0)>>
           s1 == s0 \o a[1]
           s2 == s1 \o a[2]
           s3 == s2 \o a[3]
           s4 == s3 \o a[4]
           s5 == s4 \o a[5]
           s6 == s5 \o a[6]
           s7 == s6 \o a[7]
           s8 == s7 \o a[8]
           s9 == s8 \o a[9]
           s10 == s9 \o a[10]
           s11 == s10 \o a[11]
<1>1. Configures(s0)
  BY DEF Configures
<1>2. Configures(s1)
  <2> HIDE DEF s0
  <2> QED BY <1>1, ConfiguresMore
<1>3. Configures(s2)
  <2> HIDE DEF s1
  <2> QED BY <1>2, ConfiguresMore
<1>4. Configures(s3)
  <2> HIDE DEF s2
  <2> QED BY <1>3, ConfiguresMore
<1>5. Configures(s4)
  <2> HIDE DEF s3
  <2> QED BY <1>4, ConfiguresMore
<1>6. Configures(s5)
  <2> HIDE DEF s4
  <2> QED BY <1>5, ConfiguresMore
<1>7. Configures(s6)
  <2> HIDE DEF s5
  <2> QED BY <1>6, ConfiguresMore
<1>8. Configures(s7)
  <2> HIDE DEF s6
  <2> QED BY <1>7, ConfiguresMore
<1>9. Configures(s8)
  <2> HIDE DEF s7
  <2> QED BY <1>8, ConfiguresMore
<1>10. Configures(s9)
  <2> HIDE DEF s8
  <2> QED BY <1>9, ConfiguresMore
<1>11. Configures(s10)
  <2> HIDE DEF s9
  <2> QED BY <1>10, ConfiguresMore
<1>12. Configures(s11)
  <2> HIDE DEF s10
  <2> QED BY <1>11, ConfiguresMore
<1> QED BY <1>12, DdrEnd

(* The offsets of each list are numbers.                                     *)
LEMMA OffsetLists ==
  /\ From(\h004, \h020) \in Seq(Nat)
  /\ From(\h024, \h040) \in Seq(Nat)
  /\ <<\h044, \h048, \h050, \h058, \h05C>> \in Seq(Nat)
  /\ From(\h060, \h06C) \in Seq(Nat)
  /\ From(\h060, \h06C) \o <<\h078, \h07C>> \in Seq(Nat)
  /\ <<\h0A0, \h0A4, \h0A8, \h0AC, \h0B0, \h0B4, \h0B8>> \in Seq(Nat)
  /\ <<\h0A4, \h0A8, \h0AC, \h0B0, \h0B4, \h0B8>> \in Seq(Nat)
  /\ <<\h0C4, \h0C8, \h0DC, \h0F0, \h0F4>> \in Seq(Nat)
  /\ From(\h114, \h124) \o From(\h12C, \h138) \in Seq(Nat)
  /\ From(\h140, \h14C) \o From(\h154, \h160) \o From(\h168, \h174) \in Seq(Nat)
  /\ From(\h17C, \h188) \o <<\h190, \h194>> \in Seq(Nat)
  /\ From(\h204, \h224) \in Seq(Nat)
  /\ From(\h2A8, \h2B4) \in Seq(Nat)
<1>1. /\ From(\h004, \h020) \in Seq(Nat)
      /\ From(\h024, \h040) \in Seq(Nat)
      /\ From(\h060, \h06C) \in Seq(Nat)
      /\ From(\h114, \h124) \in Seq(Nat)
      /\ From(\h12C, \h138) \in Seq(Nat)
      /\ From(\h140, \h14C) \in Seq(Nat)
      /\ From(\h154, \h160) \in Seq(Nat)
      /\ From(\h168, \h174) \in Seq(Nat)
      /\ From(\h17C, \h188) \in Seq(Nat)
      /\ From(\h204, \h224) \in Seq(Nat)
      /\ From(\h2A8, \h2B4) \in Seq(Nat)
  <2>1. From(\h004, \h020) \in Seq(Nat)
    BY FromSeq
  <2>2. From(\h024, \h040) \in Seq(Nat)
    BY FromSeq
  <2>3. From(\h060, \h06C) \in Seq(Nat)
    BY FromSeq
  <2>4. From(\h114, \h124) \in Seq(Nat)
    BY FromSeq
  <2>5. From(\h12C, \h138) \in Seq(Nat)
    BY FromSeq
  <2>6. From(\h140, \h14C) \in Seq(Nat)
    BY FromSeq
  <2>7. From(\h154, \h160) \in Seq(Nat)
    BY FromSeq
  <2>8. From(\h168, \h174) \in Seq(Nat)
    BY FromSeq
  <2>9. From(\h17C, \h188) \in Seq(Nat)
    BY FromSeq
  <2>10. From(\h204, \h224) \in Seq(Nat)
    BY FromSeq
  <2>11. From(\h2A8, \h2B4) \in Seq(Nat)
    BY FromSeq
  <2> QED BY <2>1, <2>2, <2>3, <2>4, <2>5, <2>6, <2>7, <2>8, <2>9, <2>10, <2>11
<1>2. /\ <<\h044, \h048, \h050, \h058, \h05C>> \in Seq(Nat)
      /\ <<\h078, \h07C>> \in Seq(Nat)
      /\ <<\h0A0, \h0A4, \h0A8, \h0AC, \h0B0, \h0B4, \h0B8>> \in Seq(Nat)
      /\ <<\h0A4, \h0A8, \h0AC, \h0B0, \h0B4, \h0B8>> \in Seq(Nat)
      /\ <<\h0C4, \h0C8, \h0DC, \h0F0, \h0F4>> \in Seq(Nat)
      /\ <<\h190, \h194>> \in Seq(Nat)
  OBVIOUS
<1>3. \A s \in Seq(Nat), r \in Seq(Nat) : s \o r \in Seq(Nat)
  OBVIOUS
<1> QED BY ONLY <1>1, <1>2, <1>3

(* The tables of the DDR controller have their shape.                        *)
LEMMA DdrTables ==
  /\ DdrShape(Silicon1!ps7_ddr_init_data)
  /\ DdrShape(Silicon2!ps7_ddr_init_data)
  /\ DdrShape(Silicon3!ps7_ddr_init_data)
<1> DEFINE C == Configs("DDRC")
           oTiming == From(\h004, \h020)
           oMode == From(\h024, \h040)
           oOdt == <<\h044, \h048, \h050, \h058, \h05C>>
           oScheduler1 == From(\h060, \h06C)
           oScheduler == From(\h060, \h06C) \o <<\h078, \h07C>>
           oRefresh == <<\h0A0, \h0A4, \h0A8, \h0AC, \h0B0, \h0B4, \h0B8>>
           oRefresh3 == <<\h0A4, \h0A8, \h0AC, \h0B0, \h0B4, \h0B8>>
           oEcc == <<\h0C4, \h0C8, \h0DC, \h0F0, \h0F4>>
           oSlices == From(\h114, \h124) \o From(\h12C, \h138)
           oRead == From(\h140, \h14C) \o From(\h154, \h160) \o From(\h168, \h174)
           oWrite == From(\h17C, \h188) \o <<\h190, \h194>>
           oPorts == From(\h204, \h224)
           oLpddr == From(\h2A8, \h2B4)
<1>1. /\ Config("DDRC", oTiming) \in Seq(C) /\ Config("DDRC", oMode) \in Seq(C)
      /\ Config("DDRC", oOdt) \in Seq(C) /\ Config("DDRC", oScheduler1) \in Seq(C)
      /\ Config("DDRC", oScheduler) \in Seq(C) /\ Config("DDRC", oRefresh) \in Seq(C)
      /\ Config("DDRC", oRefresh3) \in Seq(C) /\ Config("DDRC", oEcc) \in Seq(C)
      /\ Config("DDRC", oSlices) \in Seq(C) /\ Config("DDRC", oRead) \in Seq(C)
      /\ Config("DDRC", oWrite) \in Seq(C) /\ Config("DDRC", oPorts) \in Seq(C)
      /\ Config("DDRC", oLpddr) \in Seq(C)
  <2>1. /\ oTiming \in Seq(Nat)
        /\ oMode \in Seq(Nat)
        /\ oOdt \in Seq(Nat)
        /\ oScheduler1 \in Seq(Nat)
        /\ oScheduler \in Seq(Nat)
        /\ oRefresh \in Seq(Nat)
        /\ oRefresh3 \in Seq(Nat)
        /\ oEcc \in Seq(Nat)
        /\ oSlices \in Seq(Nat)
        /\ oRead \in Seq(Nat)
        /\ oWrite \in Seq(Nat)
        /\ oPorts \in Seq(Nat)
        /\ oLpddr \in Seq(Nat)
    BY OffsetLists
  <2> HIDE DEF oTiming, oMode, oOdt, oScheduler1, oScheduler, oRefresh, oRefresh3, oEcc,
               oSlices, oRead, oWrite, oPorts, oLpddr
  <2> QED BY ONLY <2>1, ConfigSeq DEF C
<1>2. Silicon1!ps7_ddr_init_data =
              <<SoftReset(0)>> \o Config("DDRC", oTiming) \o Config("DDRC", oMode) \o
              Config("DDRC", oOdt) \o Config("DDRC", oScheduler1) \o
              Config("DDRC", oRefresh) \o Config("DDRC", oEcc) \o Config("DDRC", oSlices)
              \o Config("DDRC", oRead) \o Config("DDRC", oWrite) \o Config("DDRC", oPorts)
              \o Config("DDRC", oLpddr) \o DdrReleased \o <<EMIT_EXIT>>
  BY DEF EMIT_MASKWRITE, EMIT_MASKPOLL, EMIT_EXIT, SLCR, DDRC, Config, From, NoFields,
         SoftReset, DdrReleased, Silicon1!ps7_ddr_init_data, Silicon1!DdrTiming,
         Silicon1!DdrMode, Silicon1!DdrOdt, Silicon1!DdrScheduler, Silicon1!DdrRefresh,
         Silicon1!DdrEcc, Silicon1!PhySlices, Silicon1!PhyReadRatios,
         Silicon1!PhyWriteRatios, Silicon1!DdrPorts, Silicon1!DdrLpddr,
         Silicon1!EMIT_MASKWRITE, Silicon1!EMIT_MASKPOLL, Silicon1!EMIT_EXIT,
         Silicon1!SLCR, Silicon1!DDRC, Silicon1!Config, Silicon1!From, Silicon1!NoFields,
         Silicon1!SoftReset, Silicon1!DdrReleased
<1>3. Silicon2!ps7_ddr_init_data =
              <<SoftReset(0)>> \o Config("DDRC", oTiming) \o Config("DDRC", oMode) \o
              Config("DDRC", oOdt) \o Config("DDRC", oScheduler) \o
              Config("DDRC", oRefresh) \o Config("DDRC", oEcc) \o Config("DDRC", oSlices)
              \o Config("DDRC", oRead) \o Config("DDRC", oWrite) \o Config("DDRC", oPorts)
              \o Config("DDRC", oLpddr) \o DdrReleased \o <<EMIT_EXIT>>
  BY DEF EMIT_MASKWRITE, EMIT_MASKPOLL, EMIT_EXIT, SLCR, DDRC, Config, From, NoFields,
         SoftReset, DdrReleased, Silicon2!ps7_ddr_init_data, Silicon2!DdrTiming,
         Silicon2!DdrMode, Silicon2!DdrOdt, Silicon2!DdrScheduler, Silicon2!DdrRefresh,
         Silicon2!DdrEcc, Silicon2!PhySlices, Silicon2!PhyReadRatios,
         Silicon2!PhyWriteRatios, Silicon2!DdrPorts, Silicon2!DdrLpddr,
         Silicon2!EMIT_MASKWRITE, Silicon2!EMIT_MASKPOLL, Silicon2!EMIT_EXIT,
         Silicon2!SLCR, Silicon2!DDRC, Silicon2!Config, Silicon2!From, Silicon2!NoFields,
         Silicon2!SoftReset, Silicon2!DdrReleased
<1>4. Silicon3!ps7_ddr_init_data =
              <<SoftReset(0)>> \o Config("DDRC", oTiming) \o Config("DDRC", oMode) \o
              Config("DDRC", oOdt) \o Config("DDRC", oScheduler) \o
              Config("DDRC", oRefresh3) \o Config("DDRC", oEcc) \o Config("DDRC", oSlices)
              \o Config("DDRC", oRead) \o Config("DDRC", oWrite) \o Config("DDRC", oPorts)
              \o Config("DDRC", oLpddr) \o DdrReleased \o <<EMIT_EXIT>>
  BY DEF EMIT_MASKWRITE, EMIT_MASKPOLL, EMIT_EXIT, SLCR, DDRC, Config, From, NoFields,
         SoftReset, DdrReleased, Silicon3!ps7_ddr_init_data, Silicon3!DdrTiming,
         Silicon3!DdrMode, Silicon3!DdrOdt, Silicon3!DdrScheduler, Silicon3!DdrRefresh,
         Silicon3!DdrEcc, Silicon3!PhySlices, Silicon3!PhyReadRatios,
         Silicon3!PhyWriteRatios, Silicon3!DdrPorts, Silicon3!DdrLpddr,
         Silicon3!EMIT_MASKWRITE, Silicon3!EMIT_MASKPOLL, Silicon3!EMIT_EXIT,
         Silicon3!SLCR, Silicon3!DDRC, Silicon3!Config, Silicon3!From, Silicon3!NoFields,
         Silicon3!SoftReset, Silicon3!DdrReleased
<1> HIDE DEF C, oTiming, oMode, oOdt, oScheduler1, oScheduler, oRefresh, oRefresh3, oEcc,
             oSlices, oRead, oWrite, oPorts, oLpddr
<1>5. DdrShape(<<SoftReset(0)>> \o Config("DDRC", oTiming) \o Config("DDRC", oMode)
                      \o Config("DDRC", oOdt) \o Config("DDRC", oScheduler1) \o
                      Config("DDRC", oRefresh) \o Config("DDRC", oEcc) \o
                      Config("DDRC", oSlices) \o Config("DDRC", oRead) \o
                      Config("DDRC", oWrite) \o Config("DDRC", oPorts) \o
                      Config("DDRC", oLpddr) \o DdrReleased \o <<EMIT_EXIT>>)
  <2> DEFINE a == << Config("DDRC", oTiming), Config("DDRC", oMode),
                    Config("DDRC", oOdt), Config("DDRC", oScheduler1),
                    Config("DDRC", oRefresh), Config("DDRC", oEcc),
                    Config("DDRC", oSlices), Config("DDRC", oRead),
                    Config("DDRC", oWrite), Config("DDRC", oPorts),
                    Config("DDRC", oLpddr) >>
  <2>1. /\ a[1] = Config("DDRC", oTiming)
        /\ a[2] = Config("DDRC", oMode)
        /\ a[3] = Config("DDRC", oOdt)
        /\ a[4] = Config("DDRC", oScheduler1)
        /\ a[5] = Config("DDRC", oRefresh)
        /\ a[6] = Config("DDRC", oEcc)
        /\ a[7] = Config("DDRC", oSlices)
        /\ a[8] = Config("DDRC", oRead)
        /\ a[9] = Config("DDRC", oWrite)
        /\ a[10] = Config("DDRC", oPorts)
        /\ a[11] = Config("DDRC", oLpddr)
    OBVIOUS
  <2>2. a \in [1..11 -> Seq(C)]
    <3>1. DOMAIN a = 1..11 /\ a = [k \in DOMAIN a |-> a[k]]
      OBVIOUS
    <3>2. \A k \in 1..11 : a[k] \in Seq(C)
      <4> HIDE DEF a
      <4>1. \A k \in 1..11 : k \in {1, 2, 3, 4, 5, 6, 7, 8, 9, 10, 11}
        OBVIOUS
      <4> QED BY <1>1, <2>1, <4>1
    <3> HIDE DEF a
    <3> QED BY <3>1, <3>2
  <2> HIDE DEF a
  <2>3. DdrShape(<<SoftReset(0)>> \o a[1] \o a[2] \o a[3] \o a[4] \o a[5] \o a[6] \o a[7]
                   \o a[8] \o a[9] \o a[10] \o a[11] \o DdrReleased \o <<EMIT_EXIT>>)
    BY <2>2, DdrOf DEF C
  <2> QED BY ONLY <2>1, <2>3
<1>6. DdrShape(<<SoftReset(0)>> \o Config("DDRC", oTiming) \o Config("DDRC", oMode)
                      \o Config("DDRC", oOdt) \o Config("DDRC", oScheduler) \o
                      Config("DDRC", oRefresh) \o Config("DDRC", oEcc) \o
                      Config("DDRC", oSlices) \o Config("DDRC", oRead) \o
                      Config("DDRC", oWrite) \o Config("DDRC", oPorts) \o
                      Config("DDRC", oLpddr) \o DdrReleased \o <<EMIT_EXIT>>)
  <2> DEFINE a == << Config("DDRC", oTiming), Config("DDRC", oMode),
                    Config("DDRC", oOdt), Config("DDRC", oScheduler),
                    Config("DDRC", oRefresh), Config("DDRC", oEcc),
                    Config("DDRC", oSlices), Config("DDRC", oRead),
                    Config("DDRC", oWrite), Config("DDRC", oPorts),
                    Config("DDRC", oLpddr) >>
  <2>1. /\ a[1] = Config("DDRC", oTiming)
        /\ a[2] = Config("DDRC", oMode)
        /\ a[3] = Config("DDRC", oOdt)
        /\ a[4] = Config("DDRC", oScheduler)
        /\ a[5] = Config("DDRC", oRefresh)
        /\ a[6] = Config("DDRC", oEcc)
        /\ a[7] = Config("DDRC", oSlices)
        /\ a[8] = Config("DDRC", oRead)
        /\ a[9] = Config("DDRC", oWrite)
        /\ a[10] = Config("DDRC", oPorts)
        /\ a[11] = Config("DDRC", oLpddr)
    OBVIOUS
  <2>2. a \in [1..11 -> Seq(C)]
    <3>1. DOMAIN a = 1..11 /\ a = [k \in DOMAIN a |-> a[k]]
      OBVIOUS
    <3>2. \A k \in 1..11 : a[k] \in Seq(C)
      <4> HIDE DEF a
      <4>1. \A k \in 1..11 : k \in {1, 2, 3, 4, 5, 6, 7, 8, 9, 10, 11}
        OBVIOUS
      <4> QED BY <1>1, <2>1, <4>1
    <3> HIDE DEF a
    <3> QED BY <3>1, <3>2
  <2> HIDE DEF a
  <2>3. DdrShape(<<SoftReset(0)>> \o a[1] \o a[2] \o a[3] \o a[4] \o a[5] \o a[6] \o a[7]
                   \o a[8] \o a[9] \o a[10] \o a[11] \o DdrReleased \o <<EMIT_EXIT>>)
    BY <2>2, DdrOf DEF C
  <2> QED BY ONLY <2>1, <2>3
<1>7. DdrShape(<<SoftReset(0)>> \o Config("DDRC", oTiming) \o Config("DDRC", oMode)
                      \o Config("DDRC", oOdt) \o Config("DDRC", oScheduler) \o
                      Config("DDRC", oRefresh3) \o Config("DDRC", oEcc) \o
                      Config("DDRC", oSlices) \o Config("DDRC", oRead) \o
                      Config("DDRC", oWrite) \o Config("DDRC", oPorts) \o
                      Config("DDRC", oLpddr) \o DdrReleased \o <<EMIT_EXIT>>)
  <2> DEFINE a == << Config("DDRC", oTiming), Config("DDRC", oMode),
                    Config("DDRC", oOdt), Config("DDRC", oScheduler),
                    Config("DDRC", oRefresh3), Config("DDRC", oEcc),
                    Config("DDRC", oSlices), Config("DDRC", oRead),
                    Config("DDRC", oWrite), Config("DDRC", oPorts),
                    Config("DDRC", oLpddr) >>
  <2>1. /\ a[1] = Config("DDRC", oTiming)
        /\ a[2] = Config("DDRC", oMode)
        /\ a[3] = Config("DDRC", oOdt)
        /\ a[4] = Config("DDRC", oScheduler)
        /\ a[5] = Config("DDRC", oRefresh3)
        /\ a[6] = Config("DDRC", oEcc)
        /\ a[7] = Config("DDRC", oSlices)
        /\ a[8] = Config("DDRC", oRead)
        /\ a[9] = Config("DDRC", oWrite)
        /\ a[10] = Config("DDRC", oPorts)
        /\ a[11] = Config("DDRC", oLpddr)
    OBVIOUS
  <2>2. a \in [1..11 -> Seq(C)]
    <3>1. DOMAIN a = 1..11 /\ a = [k \in DOMAIN a |-> a[k]]
      OBVIOUS
    <3>2. \A k \in 1..11 : a[k] \in Seq(C)
      <4> HIDE DEF a
      <4>1. \A k \in 1..11 : k \in {1, 2, 3, 4, 5, 6, 7, 8, 9, 10, 11}
        OBVIOUS
      <4> QED BY <1>1, <2>1, <4>1
    <3> HIDE DEF a
    <3> QED BY <3>1, <3>2
  <2> HIDE DEF a
  <2>3. DdrShape(<<SoftReset(0)>> \o a[1] \o a[2] \o a[3] \o a[4] \o a[5] \o a[6] \o a[7]
                   \o a[8] \o a[9] \o a[10] \o a[11] \o DdrReleased \o <<EMIT_EXIT>>)
    BY <2>2, DdrOf DEF C
  <2> QED BY ONLY <2>1, <2>3
<1> QED BY <1>2, <1>3, <1>4, <1>5, <1>6, <1>7

-----------------------------------------------------------------------------
(* The pins.                                                                 *)

(* What the table of the pins writes between its keys.                       *)
PinFields == [{"TRI_ENABLE", "L0_SEL", "L3_SEL"} -> Nat]
DciFields == {[RESET |-> 1], [RESET |-> 1, reserved_VRN_OUT |-> 1],
              [RESET |-> 0, reserved_VRN_OUT |-> 1],
              [RESET |-> 1, ENABLE |-> 1, reserved_VRN_OUT |-> 1]}
PinWrites == {EMIT_MASKWRITE(MIO(pin), f) : pin \in 0..53, f \in PinFields}
PadWrites == {EMIT_MASKWRITE(SLCR(\hB3C + 4 * n), BuffersOn) : n \in 1..7}
DciWrites == {EMIT_MASKWRITE(SLCR(\hB70), f) : f \in DciFields}
MioWrites == Configs("SLCR") \cup PinWrites \cup PadWrites \cup DciWrites

(* Of the pins, only those of the UART are looked at.                        *)
LEMMA PinRegisters ==
  ASSUME NEW pin \in 0..53
  PROVE  /\ MIO(pin) \in Registers => MIO(pin) \in {MIO(46), MIO(47)}
         /\ MIO(pin) = MIO(47) => pin = 47
         /\ MIO(pin) # SLCR(\hB48) /\ MIO(pin)[1] = "SLCR"
<1>1. \h700 + 4 * pin \in \h700..\h7D4
  OBVIOUS
<1>2. MIO(pin) \notin PllCtrls
  BY <1>1, CtrlNames DEF MIO
<1>3. MIO(pin) \in Registers => MIO(pin) \in {MIO(46), MIO(47)}
  BY <1>1, <1>2 DEF Registers, MIO, SLCR, DDRC, UART0
<1>4. MIO(pin) = MIO(47) => pin = 47
  BY DEF MIO, SLCR
<1>5. MIO(pin) # SLCR(\hB48) /\ MIO(pin)[1] = "SLCR"
  BY <1>1 DEF MIO, SLCR
<1> QED BY <1>3, <1>4, <1>5

(* Of the pads, all that are looked at are in Pads.                          *)
LEMMA PadRegisters ==
  ASSUME NEW n \in 1..7
  PROVE  /\ SLCR(\hB3C + 4 * n) \in Registers => SLCR(\hB3C + 4 * n) \in Pads
         /\ SLCR(\hB3C + 4 * n) # MIO(47) /\ SLCR(\hB3C + 4 * n)[1] = "SLCR"
<1>1. \hB3C + 4 * n \in \hB40..\hB58
  OBVIOUS
<1>2. SLCR(\hB3C + 4 * n) \notin PllCtrls
  BY <1>1, CtrlNames
<1>3. SLCR(\hB3C + 4 * n) \in Registers => SLCR(\hB3C + 4 * n) \in Pads
  BY <1>1, <1>2 DEF Registers, Pads, MIO, SLCR, DDRC, UART0
<1>4. SLCR(\hB3C + 4 * n) # MIO(47) /\ SLCR(\hB3C + 4 * n)[1] = "SLCR"
  BY <1>1 DEF MIO, SLCR
<1> QED BY <1>3, <1>4

(* A write of the table of the pins.                                         *)
HarmlessInMio(ins) ==
  /\ ins.opcode = "MASKWRITE" /\ ins.reg[1] = "SLCR"
  /\ \A f \in DOMAIN ins.fields : ins.fields[f] \in Nat
  /\ \A reg \in Registers : Sets(ins, reg) => reg \in Pads
  /\ Sets(ins, SLCR(\hB48)) => ins.fields["IBUF_DISABLE_MODE"] = 0

(* Each of them is harmless.                                                 *)
LEMMA MioWritesFacts ==
  ASSUME NEW ins \in MioWrites
  PROVE  HarmlessInMio(ins)
<1>1. CASE ins \in Configs("SLCR")
  BY <1>1, ConfigsFacts DEF HarmlessInMio
<1>2. CASE ins \in PinWrites
  <2>1. PICK pin \in 0..53, f \in PinFields : ins = EMIT_MASKWRITE(MIO(pin), f)
    BY <1>2 DEF PinWrites
  <2>2. /\ ins.opcode = "MASKWRITE" /\ ins.reg = MIO(pin) /\ ins.fields = f
        /\ \A reg : Sets(ins, reg) => reg = MIO(pin)
    BY <2>1, SetsOf
  <2>3. \A g \in DOMAIN f : f[g] \in Nat
    BY DEF PinFields
  <2>4. {MIO(46), MIO(47)} \subseteq Pads
    BY DEF Pads
  <2>5. /\ MIO(pin) \in Registers => MIO(pin) \in {MIO(46), MIO(47)}
        /\ MIO(pin) # SLCR(\hB48) /\ MIO(pin)[1] = "SLCR"
    BY PinRegisters
  <2> QED BY <2>2, <2>3, <2>4, <2>5 DEF HarmlessInMio
<1>3. CASE ins \in PadWrites
  <2>1. PICK n \in 1..7 : ins = EMIT_MASKWRITE(SLCR(\hB3C + 4 * n), BuffersOn)
    BY <1>3 DEF PadWrites
  <2>2. PICK reg0 : reg0 = SLCR(\hB3C + 4 * n)
    OBVIOUS
  <2>3. /\ ins.opcode = "MASKWRITE" /\ ins.reg = reg0 /\ ins.fields = BuffersOn
        /\ \A reg : Sets(ins, reg) => reg = reg0
    BY <2>1, <2>2, SetsOf
  <2>4. /\ \A g \in DOMAIN BuffersOn : BuffersOn[g] \in Nat
        /\ BuffersOn["IBUF_DISABLE_MODE"] = 0
    BY DEF BuffersOn
  <2>5. (reg0 \in Registers => reg0 \in Pads) /\ reg0[1] = "SLCR"
    BY <2>2, PadRegisters
  <2> QED BY <2>3, <2>4, <2>5 DEF HarmlessInMio
<1>4. CASE ins \in DciWrites
  <2>1. PICK f \in DciFields : ins = EMIT_MASKWRITE(SLCR(\hB70), f)
    BY <1>4 DEF DciWrites
  <2>2. /\ ins.opcode = "MASKWRITE" /\ ins.reg = SLCR(\hB70) /\ ins.fields = f
        /\ \A reg : Sets(ins, reg) => reg = SLCR(\hB70)
    BY <2>1, SetsOf
  <2>3. \A g \in DOMAIN f : f[g] \in Nat
    BY DEF DciFields
  <2>4. SLCR(\hB70) \in Pads /\ SLCR(\hB70) # SLCR(\hB48) /\ SLCR(\hB70)[1] = "SLCR"
    BY DEF Pads, SLCR
  <2> QED BY <2>2, <2>3, <2>4 DEF HarmlessInMio
<1> QED BY <1>1, <1>2, <1>3, <1>4 DEF MioWrites

(* A list of pins.                                                           *)
LEMMA PinsIn ==
  ASSUME NEW a \in 0..53, NEW b \in 0..53, a <= b, NEW f \in PinFields
  PROVE  /\ Pins(a, b, f) \in Seq(MioWrites)
         /\ a > 47 => Pins(a, b, f) \in Seq({ins \in MioWrites : ~Sets(ins, MIO(47))})
<1> DEFINE P == {EMIT_MASKWRITE(MIO(pin), f) : pin \in a..b}
           N == {ins \in MioWrites : ~Sets(ins, MIO(47))}
<1>1. Pins(a, b, f) \in Seq(P)
  <2>1. a \in Nat /\ b \in Nat
    OBVIOUS
  <2> QED BY <2>1, PinsSeq
<1>2. P \subseteq MioWrites
  <2>1. \A pin \in a..b : pin \in 0..53
    OBVIOUS
  <2> QED BY <2>1 DEF MioWrites, PinWrites
<1>3. ASSUME a > 47
      PROVE  P \subseteq N
  <2> SUFFICES ASSUME NEW pin \in a..b
               PROVE  ~Sets(EMIT_MASKWRITE(MIO(pin), f), MIO(47))
    BY <1>2
  <2>1. pin \in 0..53 /\ pin # 47
    BY <1>3
  <2>2. MIO(pin) # MIO(47)
    BY <2>1, PinRegisters
  <2> QED BY <2>2, SetsOf
<1> HIDE DEF P, N
<1>4. Pins(a, b, f) \in Seq(MioWrites)
  BY ONLY <1>1, <1>2, SeqMonotonic
<1>5. ASSUME a > 47
      PROVE  Pins(a, b, f) \in Seq(N)
  <2>1. P \subseteq N
    BY <1>3, <1>5
  <2> QED BY ONLY <1>1, <2>1, SeqMonotonic
<1> QED BY <1>4, <1>5 DEF N

(* The pin the UART transmits on, and nothing that sets it afterwards.       *)
EndsOnPin(s) == \E k \in 1..Len(s) : LastOnPin(s, k)

(* What is written before does not matter.                                   *)
LEMMA EndsOnPinAfter ==
  ASSUME NEW s \in Seq(MioWrites), NEW r \in Seq(MioWrites), EndsOnPin(r)
  PROVE  EndsOnPin(s \o r)
<1>1. PICK k \in 1..Len(r) : r[k] = UartTx /\ \A l \in (k + 1)..Len(r) : ~Sets(r[l], MIO(47))
  BY DEF EndsOnPin, LastOnPin
<1>2. /\ Len(s \o r) = Len(s) + Len(r) /\ Len(s) \in Nat /\ Len(r) \in Nat
      /\ \A n \in 1..Len(r) : (s \o r)[Len(s) + n] = r[n]
  BY Joined
<1>3. Len(s) + k \in 1..Len(s \o r) /\ (s \o r)[Len(s) + k] = UartTx
  BY <1>1, <1>2
<1>4. ASSUME NEW l \in (Len(s) + k + 1)..Len(s \o r)
      PROVE  ~Sets((s \o r)[l], MIO(47))
  <2>1. l - Len(s) \in (k + 1)..Len(r) /\ l - Len(s) \in 1..Len(r) /\ Len(s) + (l - Len(s)) = l
    BY <1>2
  <2>2. (s \o r)[l] = r[l - Len(s)]
    BY <1>2, <2>1
  <2> QED BY <1>1, <2>1, <2>2
<1> QED BY <1>3, <1>4 DEF EndsOnPin, LastOnPin

(* What is written later and leaves the pin alone does not either.           *)
LEMMA EndsOnPinBefore ==
  ASSUME NEW s \in Seq(MioWrites), EndsOnPin(s),
         NEW r \in Seq({ins \in MioWrites : ~Sets(ins, MIO(47))})
  PROVE  EndsOnPin(s \o r)
<1>1. PICK k \in 1..Len(s) : s[k] = UartTx /\ \A l \in (k + 1)..Len(s) : ~Sets(s[l], MIO(47))
  BY DEF EndsOnPin, LastOnPin
<1>2. r \in Seq(MioWrites) /\ \A n \in 1..Len(r) : ~Sets(r[n], MIO(47))
  <2> DEFINE N == {ins \in MioWrites : ~Sets(ins, MIO(47))}
  <2>1. N \subseteq MioWrites
    OBVIOUS
  <2>2. r \in Seq(N)
    OBVIOUS
  <2>3. \A n \in 1..Len(r) : r[n] \in N
    BY <2>2, ElementIn
  <2>4. \A ins \in N : ~Sets(ins, MIO(47))
    OBVIOUS
  <2> HIDE DEF N
  <2> QED BY ONLY <2>1, <2>2, <2>3, <2>4, SeqMonotonic
<1>3. /\ Len(s \o r) = Len(s) + Len(r) /\ Len(s) \in Nat /\ Len(r) \in Nat
      /\ \A n \in 1..Len(s) : (s \o r)[n] = s[n]
      /\ \A n \in 1..Len(r) : (s \o r)[Len(s) + n] = r[n]
  BY <1>2, Joined
<1>4. k \in 1..Len(s \o r) /\ (s \o r)[k] = UartTx
  BY <1>1, <1>3
<1>5. ASSUME NEW l \in (k + 1)..Len(s \o r)
      PROVE  ~Sets((s \o r)[l], MIO(47))
  <2>1. CASE l <= Len(s)
    <3>1. l \in (k + 1)..Len(s) /\ l \in 1..Len(s)
      BY <1>3, <2>1
    <3>2. (s \o r)[l] = s[l]
      BY <1>3, <3>1
    <3> QED BY <1>1, <3>1, <3>2
  <2>2. CASE ~(l <= Len(s))
    <3>1. l - Len(s) \in 1..Len(r) /\ Len(s) + (l - Len(s)) = l
      BY <1>3, <2>2
    <3>2. (s \o r)[l] = r[l - Len(s)]
      BY <1>3, <3>1
    <3> QED BY <1>2, <3>1, <3>2
  <2> QED BY <2>1, <2>2
<1> QED BY <1>4, <1>5 DEF EndsOnPin, LastOnPin

(* The pieces of the table, before the pins of the UART, those, and after.   *)
LEMMA MioPieces ==
  /\ DdrPads \in Seq(MioWrites) /\ DdrDrive \in Seq(MioWrites)
  /\ QspiPins \in Seq(MioWrites) /\ FreePins \in Seq(MioWrites) /\ I2cPins \in Seq(MioWrites)
  /\ EnetTxPins \in Seq(MioWrites) /\ EnetRxPins \in Seq(MioWrites)
  /\ GpioPins \in Seq(MioWrites) /\ TtcPins \in Seq(MioWrites) /\ PulledUp \in Seq(MioWrites)
  /\ SdioPins \in Seq(MioWrites)
<1> DEFINE W == MioWrites
<1>1. DdrPads \in Seq(W)
  <2>1. \A n \in 1..7 : EMIT_MASKWRITE(SLCR(\hB3C + 4 * n), BuffersOn) \in W
    BY DEF MioWrites, PadWrites
  <2> HIDE DEF W
  <2>2. DdrPads = [n \in 1..7 |-> EMIT_MASKWRITE(SLCR(\hB3C + 4 * n), BuffersOn)]
    BY DEF DdrPads
  <2> QED BY ONLY <2>1, <2>2
<1>2. DdrDrive \in Seq(W)
  <2>1. From(\hB5C, \hB6C) \in Seq(Nat)
    BY FromSeq
  <2>2. DdrDrive \in Seq(Configs("SLCR"))
    BY <2>1, ConfigSeq DEF DdrDrive
  <2>3. Configs("SLCR") \subseteq W
    BY DEF MioWrites
  <2> HIDE DEF W
  <2> QED BY ONLY <2>2, <2>3, SeqMonotonic
<1>3. /\ GPIO \in PinFields /\ L0 \in PinFields /\ Input(L0) \in PinFields
      /\ \A sel \in Nat : L3(sel) \in PinFields /\ Input(L3(sel)) \in PinFields
  <2>1. GPIO \in PinFields
    BY DEF GPIO, PinFields
  <2>2. L0 \in PinFields
    BY <2>1 DEF L0, PinFields
  <2>3. \A sel \in Nat : L3(sel) \in PinFields
    BY <2>1 DEF L3, PinFields
  <2>4. \A f \in PinFields : Input(f) \in PinFields
    BY DEF Input, PinFields
  <2> QED BY <2>1, <2>2, <2>3, <2>4
<1>4. \A s \in Seq(W), r \in Seq(W) : s \o r \in Seq(W)
  BY Joined
<1> HIDE DEF W
<1>5. QspiPins \in Seq(W)
  <2>1. Pins(0, 0, GPIO) \in Seq(W)
    BY <1>3, PinsIn DEF W
  <2>2. Pins(1, 6, L0) \in Seq(W)
    BY <1>3, PinsIn DEF W
  <2>3. Pins(7, 7, GPIO) \in Seq(W)
    BY <1>3, PinsIn DEF W
  <2>4. Pins(8, 8, L0) \in Seq(W)
    BY <1>3, PinsIn DEF W
  <2> QED BY <2>1, <2>2, <2>3, <2>4, <1>4 DEF QspiPins
<1>6. FreePins \in Seq(W)
  <2>1. Pins(9, 13, GPIO) \in Seq(W)
    BY <1>3, PinsIn DEF W
  <2> QED BY <2>1 DEF FreePins
<1>7. I2cPins \in Seq(W)
  <2>1. Pins(14, 15, L3(2)) \in Seq(W)
    BY <1>3, PinsIn DEF W
  <2> QED BY <2>1 DEF I2cPins
<1>8. EnetTxPins \in Seq(W)
  <2>1. Pins(16, 21, L0) \in Seq(W)
    BY <1>3, PinsIn DEF W
  <2> QED BY <2>1 DEF EnetTxPins
<1>9. EnetRxPins \in Seq(W)
  <2>1. Pins(22, 27, Input(L0)) \in Seq(W)
    BY <1>3, PinsIn DEF W
  <2> QED BY <2>1 DEF EnetRxPins
<1>10. GpioPins \in Seq(W)
  <2>1. Pins(28, 29, GPIO) \in Seq(W)
    BY <1>3, PinsIn DEF W
  <2> QED BY <2>1 DEF GpioPins
<1>11. TtcPins \in Seq(W)
  <2>1. Pins(30, 30, L3(6)) \in Seq(W)
    BY <1>3, PinsIn DEF W
  <2>2. Pins(31, 31, Input(L3(6))) \in Seq(W)
    BY <1>3, PinsIn DEF W
  <2> QED BY <2>1, <2>2, <1>4 DEF TtcPins
<1>12. PulledUp \in Seq(W)
  <2>1. Pins(32, 39, GPIO) \in Seq(W)
    BY <1>3, PinsIn DEF W
  <2> QED BY <2>1 DEF PulledUp
<1>13. SdioPins \in Seq(W)
  <2>1. Pins(40, 45, L3(4)) \in Seq(W)
    BY <1>3, PinsIn DEF W
  <2> QED BY <2>1 DEF SdioPins
<1> QED BY <1>1, <1>2, <1>5, <1>6, <1>7, <1>8, <1>9, <1>10, <1>11, <1>12, <1>13 DEF W

(* The pins of the UART end with the one it transmits on.                    *)
LEMMA UartPiece == UartPins \in Seq(MioWrites) /\ EndsOnPin(UartPins)
<1> DEFINE x == EMIT_MASKWRITE(MIO(46), Input(L3(7)))
<1>1. L3(7) = [TRI_ENABLE |-> 0, L0_SEL |-> 0, L3_SEL |-> 7]
  BY DEF L3, GPIO
<1>2. Pins(46, 46, Input(L3(7))) = <<x>> /\ Pins(47, 47, L3(7)) = <<UartTx>>
  <2>1. \A pin \in Nat : \A f : Pins(pin, pin, f) = <<EMIT_MASKWRITE(MIO(pin), f)>>
    <3> TAKE pin \in Nat
    <3> TAKE f
    <3>1. Pins(pin, pin, f) = [n \in 1..1 |-> EMIT_MASKWRITE(MIO(pin + n - 1), f)]
      BY DEF Pins
    <3>2. \A n \in 1..1 : n = 1 /\ pin + n - 1 = pin
      OBVIOUS
    <3>3. Pins(pin, pin, f) = [n \in 1..1 |-> EMIT_MASKWRITE(MIO(pin), f)]
      BY <3>1, <3>2
    <3> QED BY <3>3
  <2> QED BY <1>1, <2>1 DEF UartTx
<1>3. x \in MioWrites /\ UartTx \in MioWrites
  <2>1. L3(7) \in PinFields
    BY <1>1 DEF PinFields
  <2>2. Input(L3(7)) \in PinFields
    BY <2>1 DEF Input, PinFields
  <2> QED BY <1>1, <2>1, <2>2 DEF MioWrites, PinWrites, UartTx
<1>4. UartPins = <<x>> \o <<UartTx>>
  BY <1>2 DEF UartPins
<1> HIDE DEF x
<1>5. <<x>> \in Seq(MioWrites) /\ <<UartTx>> \in Seq(MioWrites)
  BY <1>3
<1>6. EndsOnPin(<<UartTx>>)
  <2>1. Len(<<UartTx>>) = 1 /\ <<UartTx>>[1] = UartTx
    OBVIOUS
  <2>2. 1 \in 1..1 /\ \A l \in (1 + 1)..1 : FALSE
    OBVIOUS
  <2> QED BY <2>1, <2>2 DEF EndsOnPin, LastOnPin
<1>7. <<x>> \o <<UartTx>> \in Seq(MioWrites)
  BY <1>5
<1>8. EndsOnPin(<<x>> \o <<UartTx>>)
  BY <1>5, <1>6, EndsOnPinAfter
<1> QED BY <1>4, <1>7, <1>8

(* The pieces that follow leave it alone.                                    *)
LEMMA LastPieces ==
  LET N == {ins \in MioWrites : ~Sets(ins, MIO(47))}
  IN LastGpio \in Seq(N) /\ MdioPins \in Seq(N) /\ Config("SLCR", <<\h830>>) \in Seq(N)
<1> DEFINE N == {ins \in MioWrites : ~Sets(ins, MIO(47))}
<1>1. GPIO \in PinFields /\ L3(4) \in PinFields
  <2>1. GPIO \in PinFields
    BY DEF GPIO, PinFields
  <2> QED BY <2>1 DEF L3, PinFields
<1>2. LastGpio \in Seq(N)
  BY <1>1, PinsIn DEF LastGpio
<1>3. MdioPins \in Seq(N)
  BY <1>1, PinsIn DEF MdioPins
<1>4. Config("SLCR", <<\h830>>) \in Seq(N)
  <2> DEFINE o == <<\h830>>
  <2>1. o \in Seq(Nat)
    OBVIOUS
  <2> HIDE DEF o
  <2>2. Config("SLCR", o) \in Seq(Configs("SLCR"))
    BY <2>1, ConfigSeq
  <2>3. Configs("SLCR") \subseteq N
    BY ConfigsFacts DEF MioWrites
  <2> HIDE DEF N
  <2>4. Config("SLCR", o) \in Seq(N)
    BY ONLY <2>2, <2>3, SeqMonotonic
  <2> QED BY <2>4 DEF o
<1> QED BY <1>2, <1>3, <1>4

(* With any calibration.                                                     *)
MioBody(dci) ==
  DdrPads \o DdrDrive \o dci
    \o QspiPins \o FreePins \o I2cPins \o EnetTxPins \o EnetRxPins \o GpioPins
    \o TtcPins \o PulledUp \o SdioPins \o UartPins \o LastGpio \o MdioPins
    \o Config("SLCR", <<\h830>>)

(* The body of the table, whatever the calibration.                          *)
LEMMA MioBodyEnds ==
  ASSUME NEW dci \in Seq(MioWrites)
  PROVE  MioBody(dci) \in Seq(MioWrites) /\ EndsOnPin(MioBody(dci))
<1> DEFINE N == {ins \in MioWrites : ~Sets(ins, MIO(47))}
           W == MioWrites
           before == DdrPads \o DdrDrive \o dci
                       \o QspiPins \o FreePins \o I2cPins \o EnetTxPins \o EnetRxPins \o GpioPins
                       \o TtcPins \o PulledUp \o SdioPins
           c == Config("SLCR", <<\h830>>)
           s1 == before \o UartPins
           s2 == s1 \o LastGpio
           s3 == s2 \o MdioPins
           s4 == s3 \o c
<1>1. \A s \in Seq(W), r \in Seq(W) : s \o r \in Seq(W)
  BY Joined
<1>2. before \in Seq(W)
  <2> HIDE DEF W
  <2>1. dci \in Seq(W) /\ DdrPads \in Seq(W) /\ DdrDrive \in Seq(W)
        /\ QspiPins \in Seq(W) /\ FreePins \in Seq(W) /\ I2cPins \in Seq(W)
        /\ EnetTxPins \in Seq(W) /\ EnetRxPins \in Seq(W) /\ GpioPins \in Seq(W)
        /\ TtcPins \in Seq(W) /\ PulledUp \in Seq(W) /\ SdioPins \in Seq(W)
    BY MioPieces DEF W
  <2>2. DdrPads \o DdrDrive \o dci \o QspiPins \o FreePins \o I2cPins \in Seq(W)
    BY ONLY <1>1, <2>1
  <2> DEFINE half == DdrPads \o DdrDrive \o dci \o QspiPins \o FreePins \o I2cPins
  <2> HIDE DEF half
  <2>3. half \o EnetTxPins \o EnetRxPins \o GpioPins \o TtcPins \o PulledUp \o SdioPins \in Seq(W)
    BY ONLY <1>1, <2>1, <2>2 DEF half
  <2> QED BY <2>3 DEF half
<1>3. /\ LastGpio \in Seq(N) /\ MdioPins \in Seq(N) /\ c \in Seq(N)
      /\ LastGpio \in Seq(W) /\ MdioPins \in Seq(W) /\ c \in Seq(W)
  <2>1. LastGpio \in Seq(N) /\ MdioPins \in Seq(N) /\ c \in Seq(N)
    BY LastPieces
  <2>2. N \subseteq W
    OBVIOUS
  <2> HIDE DEF N, W, c
  <2> QED BY ONLY <2>1, <2>2, SeqMonotonic
<1> HIDE DEF before, c
<1>4. s1 \in Seq(W) /\ EndsOnPin(s1)
  <2>1. UartPins \in Seq(W) /\ EndsOnPin(UartPins)
    BY UartPiece
  <2>2. EndsOnPin(s1)
    BY <1>2, <2>1, EndsOnPinAfter
  <2> QED BY <1>1, <1>2, <2>1, <2>2
<1> HIDE DEF s1
<1>5. s2 \in Seq(W) /\ EndsOnPin(s2)
  <2>1. EndsOnPin(s2)
    BY <1>3, <1>4, EndsOnPinBefore
  <2> QED BY <1>1, <1>3, <1>4, <2>1
<1> HIDE DEF s2
<1>6. s3 \in Seq(W) /\ EndsOnPin(s3)
  <2>1. EndsOnPin(s3)
    BY <1>3, <1>5, EndsOnPinBefore
  <2> QED BY <1>1, <1>3, <1>5, <2>1
<1> HIDE DEF s3
<1>7. s4 \in Seq(W) /\ EndsOnPin(s4)
  <2>1. EndsOnPin(s4)
    BY <1>3, <1>6, EndsOnPinBefore
  <2> QED BY <1>1, <1>3, <1>6, <2>1
<1>8. s4 = MioBody(dci)
  BY DEF MioBody, s3, s2, s1, before, c
<1> HIDE DEF s4
<1> QED BY <1>7, <1>8

(* With the keys around it.                                                  *)
LEMMA MioOf ==
  ASSUME NEW body \in Seq(MioWrites), EndsOnPin(body)
  PROVE  MioShape(Unlocked(body) \o <<EMIT_EXIT>>)
<1> DEFINE t == Unlocked(body) \o <<EMIT_EXIT>>
           n == Len(body)
<1>1. \A ins \in MioWrites : HarmlessInMio(ins)
  BY MioWritesFacts
<1>2. Plain(MioWrites)
  BY <1>1 DEF Plain, HarmlessInMio
<1>3. Around(t, body)
  BY <1>2, TableOf
<1>4. \A k \in 1..n : body[k] \in MioWrites
  BY ElementIn
<1> HIDE DEF t
<1>5. /\ WellFormed(t) /\ Len(t) = n + 3 /\ n \in Nat /\ KeyedUpTo(t, Len(t) - 1)
      /\ t[1] = Unlock /\ t[n + 2] = Lock /\ t[n + 3] = EMIT_EXIT
      /\ \A k \in 1..n : t[k + 1] = body[k]
  BY <1>3 DEF Around
<1> HIDE DEF n
<1>6. \A k \in 1..(n + 3) : t[k] \in {Unlock, Lock, EMIT_EXIT} \/ HarmlessInMio(t[k])
  <2> TAKE k \in 1..(n + 3)
  <2>1. CASE k \in 2..(n + 1)
    <3>1. k - 1 \in 1..n /\ (k - 1) + 1 = k
      BY <1>5, <2>1
    <3> QED BY <1>1, <1>4, <1>5, <3>1
  <2>2. CASE k \notin 2..(n + 1)
    <3>1. k = 1 \/ k = n + 2 \/ k = n + 3
      BY <1>5, <2>2
    <3> QED BY <1>5, <3>1
  <2> QED BY <2>1, <2>2
<1>7. WritesOnly(t, {"SLCR"})
  <2>1. \A k \in 1..(n + 3) : t[k].opcode = "MASKWRITE" => t[k].reg[1] = "SLCR"
    BY <1>6, SetsOf DEF HarmlessInMio
  <2> QED BY <1>5, <2>1 DEF WritesOnly
<1>8. SetsOnly(t, Pads) /\ BuffersStayOn(t)
  <2>1. \A k \in 1..(n + 3) : /\ \A reg \in Registers : Sets(t[k], reg) => reg \in Pads
                              /\ Sets(t[k], SLCR(\hB48)) =>
                                   t[k].fields["IBUF_DISABLE_MODE"] = 0
    BY <1>6, SetsOf DEF HarmlessInMio
  <2> QED BY <1>5, <2>1 DEF SetsOnly, BuffersStayOn
<1>9. \E k \in 1..Len(t) : LastOnPin(t, k)
  <2>1. PICK k \in 1..n : body[k] = UartTx /\ \A l \in (k + 1)..n : ~Sets(body[l], MIO(47))
    BY DEF EndsOnPin, LastOnPin, n
  <2>2. k + 1 \in 1..(n + 3) /\ t[k + 1] = UartTx
    BY <1>5, <2>1
  <2>3. ASSUME NEW l \in (k + 2)..(n + 3)
        PROVE  ~Sets(t[l], MIO(47))
    <3>1. CASE l <= n + 1
      <4>1. l - 1 \in (k + 1)..n /\ l - 1 \in 1..n /\ (l - 1) + 1 = l
        BY <1>5, <3>1
      <4>2. t[l] = body[l - 1]
        BY <1>5, <4>1
      <4> QED BY <2>1, <4>1, <4>2
    <3>2. CASE ~(l <= n + 1)
      <4>1. l = n + 2 \/ l = n + 3
        BY <1>5, <3>2
      <4> QED BY <1>5, <4>1, SetsOf
    <3> QED BY <3>1, <3>2
  <2>4. LastOnPin(t, k + 1)
    <3>1. (k + 1) + 1 = k + 2 /\ Len(t) = n + 3
      BY <1>5
    <3> QED BY <2>2, <2>3, <3>1 DEF LastOnPin
  <2> QED BY <1>5, <2>2, <2>4
<1>10. MioShape(t)
  BY <1>5, <1>7, <1>8, <1>9 DEF MioShape
<1> QED BY <1>10 DEF t

(* The tables of the pins have their shape.                                  *)
LEMMA MioTables ==
  /\ MioShape(Silicon1!ps7_mio_init_data)
  /\ MioShape(Silicon2!ps7_mio_init_data)
  /\ MioShape(Silicon3!ps7_mio_init_data)
<1> DEFINE d == DciCalibration
           e == << EMIT_MASKWRITE(SLCR(\hB70), [RESET |-> 1]),
                   EMIT_MASKWRITE(SLCR(\hB70), [RESET |-> 0, reserved_VRN_OUT |-> 1]),
                   EMIT_MASKWRITE(SLCR(\hB70), [RESET |-> 1, ENABLE |-> 1,
                                                reserved_VRN_OUT |-> 1]) >>
<1>1. d \in Seq(MioWrites) /\ e \in Seq(MioWrites)
  <2> DEFINE w(f) == EMIT_MASKWRITE(SLCR(\hB70), f)
             f1 == [RESET |-> 1, reserved_VRN_OUT |-> 1]
             f2 == [RESET |-> 0, reserved_VRN_OUT |-> 1]
             f3 == [RESET |-> 1, ENABLE |-> 1, reserved_VRN_OUT |-> 1]
             f4 == [RESET |-> 1]
  <2>1. {f1, f2, f3, f4} \subseteq DciFields
    BY DEF DciFields
  <2> HIDE DEF f1, f2, f3, f4
  <2>2. {w(f1), w(f2), w(f3), w(f4)} \subseteq MioWrites
    BY <2>1 DEF MioWrites, DciWrites
  <2>3. d = <<w(f1), w(f2), w(f3)>> /\ e = <<w(f4), w(f2), w(f3)>>
    BY DEF DciCalibration, f1, f2, f3, f4
  <2> HIDE DEF w, d, e
  <2> QED BY <2>2, <2>3
<1>2. Silicon1!ps7_mio_init_data = Unlocked(MioBody(d)) \o <<EMIT_EXIT>>
  BY DEF Unlocked, Unlock, Lock, EMIT_WRITE, EMIT_MASKWRITE, EMIT_EXIT, SLCR, Config,
         NoFields, MIO, From, Pins, GPIO, L0, L3, Input, DdrPads, DdrDrive,
         DciCalibration, QspiPins, FreePins, I2cPins, EnetTxPins, EnetRxPins, GpioPins,
         TtcPins, PulledUp, SdioPins, UartPins, LastGpio, MdioPins, BuffersOn, MioBody,
         Silicon1!ps7_mio_init_data, Silicon1!Unlocked, Silicon1!Unlock, Silicon1!Lock,
         Silicon1!EMIT_WRITE, Silicon1!EMIT_MASKWRITE, Silicon1!EMIT_EXIT, Silicon1!SLCR,
         Silicon1!Config, Silicon1!NoFields, Silicon1!MIO, Silicon1!From, Silicon1!Pins,
         Silicon1!GPIO, Silicon1!L0, Silicon1!L3, Silicon1!Input, Silicon1!DdrPads,
         Silicon1!DdrDrive, Silicon1!DciCalibration, Silicon1!QspiPins,
         Silicon1!FreePins, Silicon1!I2cPins, Silicon1!EnetTxPins, Silicon1!EnetRxPins,
         Silicon1!GpioPins, Silicon1!TtcPins, Silicon1!PulledUp, Silicon1!SdioPins,
         Silicon1!UartPins, Silicon1!LastGpio, Silicon1!MdioPins, Silicon1!BuffersOn
<1>3. Silicon2!ps7_mio_init_data = Unlocked(MioBody(d)) \o <<EMIT_EXIT>>
  BY DEF Unlocked, Unlock, Lock, EMIT_WRITE, EMIT_MASKWRITE, EMIT_EXIT, SLCR, Config,
         NoFields, MIO, From, Pins, GPIO, L0, L3, Input, DdrPads, DdrDrive,
         DciCalibration, QspiPins, FreePins, I2cPins, EnetTxPins, EnetRxPins, GpioPins,
         TtcPins, PulledUp, SdioPins, UartPins, LastGpio, MdioPins, BuffersOn, MioBody,
         Silicon2!ps7_mio_init_data, Silicon2!Unlocked, Silicon2!Unlock, Silicon2!Lock,
         Silicon2!EMIT_WRITE, Silicon2!EMIT_MASKWRITE, Silicon2!EMIT_EXIT, Silicon2!SLCR,
         Silicon2!Config, Silicon2!NoFields, Silicon2!MIO, Silicon2!From, Silicon2!Pins,
         Silicon2!GPIO, Silicon2!L0, Silicon2!L3, Silicon2!Input, Silicon2!DdrPads,
         Silicon2!DdrDrive, Silicon2!DciCalibration, Silicon2!QspiPins,
         Silicon2!FreePins, Silicon2!I2cPins, Silicon2!EnetTxPins, Silicon2!EnetRxPins,
         Silicon2!GpioPins, Silicon2!TtcPins, Silicon2!PulledUp, Silicon2!SdioPins,
         Silicon2!UartPins, Silicon2!LastGpio, Silicon2!MdioPins, Silicon2!BuffersOn
<1>4. Silicon3!ps7_mio_init_data = Unlocked(MioBody(e)) \o <<EMIT_EXIT>>
  BY DEF Unlocked, Unlock, Lock, EMIT_WRITE, EMIT_MASKWRITE, EMIT_EXIT, SLCR, Config,
         NoFields, MIO, From, Pins, GPIO, L0, L3, Input, DdrPads, DdrDrive, QspiPins,
         FreePins, I2cPins, EnetTxPins, EnetRxPins, GpioPins, TtcPins, PulledUp,
         SdioPins, UartPins, LastGpio, MdioPins, BuffersOn, MioBody,
         Silicon3!ps7_mio_init_data, Silicon3!Unlocked, Silicon3!Unlock, Silicon3!Lock,
         Silicon3!EMIT_WRITE, Silicon3!EMIT_MASKWRITE, Silicon3!EMIT_EXIT, Silicon3!SLCR,
         Silicon3!Config, Silicon3!NoFields, Silicon3!MIO, Silicon3!From, Silicon3!Pins,
         Silicon3!GPIO, Silicon3!L0, Silicon3!L3, Silicon3!Input, Silicon3!DdrPads,
         Silicon3!DdrDrive, Silicon3!DciCalibration, Silicon3!QspiPins,
         Silicon3!FreePins, Silicon3!I2cPins, Silicon3!EnetTxPins, Silicon3!EnetRxPins,
         Silicon3!GpioPins, Silicon3!TtcPins, Silicon3!PulledUp, Silicon3!SdioPins,
         Silicon3!UartPins, Silicon3!LastGpio, Silicon3!MdioPins, Silicon3!BuffersOn
<1> HIDE DEF d, e
<1>5. MioShape(Unlocked(MioBody(d)) \o <<EMIT_EXIT>>)
  BY <1>1, MioBodyEnds, MioOf
<1>6. MioShape(Unlocked(MioBody(e)) \o <<EMIT_EXIT>>)
  BY <1>1, MioBodyEnds, MioOf
<1> QED BY <1>2, <1>3, <1>4, <1>5, <1>6

-----------------------------------------------------------------------------
(* All the tables.                                                           *)

(* Every table of every silicon version has the shape of its name.           *)
LEMMA Shapes == TablesShape
<1>1. InitTablesShape(InitTables)
  <2>1. ASSUME NEW m, NEW p, NEW c, NEW d, NEW q, MioShape(m), PllShape(p), ClockShape(c),
               DdrShape(d), PeripheralsShape(q)
        PROVE  InitTablesShape(<<m, p, c, d, q>>)
    <3>1. /\ <<m, p, c, d, q>>[1] = m /\ <<m, p, c, d, q>>[2] = p /\ <<m, p, c, d, q>>[3] = c
          /\ <<m, p, c, d, q>>[4] = d /\ <<m, p, c, d, q>>[5] = q
          /\ Len(<<m, p, c, d, q>>) = 5 /\ DOMAIN <<m, p, c, d, q>> = 1..5
      OBVIOUS
    <3> QED BY <2>1, <3>1 DEF InitTablesShape
  <2>2. CASE version = PCW_SILICON_VERSION_1
    <3>1. InitTables = <<Silicon1!ps7_mio_init_data, Silicon1!ps7_pll_init_data,
                         Silicon1!ps7_clock_init_data, Silicon1!ps7_ddr_init_data,
                         Silicon1!ps7_peripherals_init_data>>
      BY <2>2 DEF InitTables, PCW_SILICON_VERSION_1, PCW_SILICON_VERSION_2
    <3>2. /\ MioShape(Silicon1!ps7_mio_init_data) /\ PllShape(Silicon1!ps7_pll_init_data)
          /\ ClockShape(Silicon1!ps7_clock_init_data) /\ DdrShape(Silicon1!ps7_ddr_init_data)
          /\ PeripheralsShape(Silicon1!ps7_peripherals_init_data)
      BY MioTables, SamePll, PllTable, SameClock, ClockTable, DdrTables, SamePeripherals,
         PeripheralsTable
    <3> QED BY ONLY <2>1, <3>1, <3>2
  <2>3. CASE version # PCW_SILICON_VERSION_1 /\ version = PCW_SILICON_VERSION_2
    <3>1. InitTables = <<Silicon2!ps7_mio_init_data, Silicon2!ps7_pll_init_data,
                         Silicon2!ps7_clock_init_data, Silicon2!ps7_ddr_init_data,
                         Silicon2!ps7_peripherals_init_data>>
      BY <2>3 DEF InitTables
    <3>2. /\ MioShape(Silicon2!ps7_mio_init_data) /\ PllShape(Silicon2!ps7_pll_init_data)
          /\ ClockShape(Silicon2!ps7_clock_init_data) /\ DdrShape(Silicon2!ps7_ddr_init_data)
          /\ PeripheralsShape(Silicon2!ps7_peripherals_init_data)
      BY MioTables, SamePll, PllTable, SameClock, ClockTable, DdrTables, SamePeripherals,
         PeripheralsTable
    <3> QED BY ONLY <2>1, <3>1, <3>2
  <2>4. CASE version # PCW_SILICON_VERSION_1 /\ version # PCW_SILICON_VERSION_2
    <3>1. InitTables = <<Silicon3!ps7_mio_init_data, Silicon3!ps7_pll_init_data,
                         Silicon3!ps7_clock_init_data, Silicon3!ps7_ddr_init_data,
                         Silicon3!ps7_peripherals_init_data>>
      BY <2>4 DEF InitTables
    <3>2. /\ MioShape(Silicon3!ps7_mio_init_data) /\ PllShape(Silicon3!ps7_pll_init_data)
          /\ ClockShape(Silicon3!ps7_clock_init_data) /\ DdrShape(Silicon3!ps7_ddr_init_data)
          /\ PeripheralsShape(Silicon3!ps7_peripherals_init_data)
      BY MioTables, SamePll, PllTable, SameClock, ClockTable, DdrTables, SamePeripherals,
         PeripheralsTable
    <3> QED BY ONLY <2>1, <3>1, <3>2
  <2> QED BY <2>2, <2>3, <2>4
<1>2. PostConfigShape(PostConfigTable)
  <2>1. PostConfigTable = ps7_post_config_data
    BY SamePostConfig DEF PostConfigTable
  <2> QED BY <2>1, PostConfigData
<1>3. DebugShape(DebugTable)
  <2>1. DebugTable = ps7_debug_data
    BY SameDebug DEF DebugTable
  <2> QED BY <2>1, DebugData
<1> QED BY <1>1, <1>2, <1>3 DEF TablesShape

-----------------------------------------------------------------------------
(* The invariant.                                                            *)

(* The fields of each register that somebody reads.                          *)
FieldNames(reg) ==
  CASE reg \in PllCtrls -> {"PLL_FDIV", "PLL_BYPASS_FORCE", "PLL_RESET"}
    [] reg = SLCR(\h124) -> {"DDR_3XCLKACT", "DDR_2XCLKACT"}
    [] reg = SLCR(\h128) -> {"CLKACT"}
    [] reg = SLCR(\h12C) -> {"UART0_CPU_1XCLKACT", "LQSPI_CPU_1XCLKACT"}
    [] reg = SLCR(\h154) -> {"CLKACT0"}
    [] reg \in {MIO(46), MIO(47)} -> {"TRI_ENABLE", "L3_SEL"}
    [] reg \in {SLCR(\hB48), SLCR(\hB50)} -> {"IBUF_DISABLE_MODE"}
    [] reg = SLCR(\hB70) -> {"RESET", "ENABLE"}
    [] reg = SLCR(\h900) -> {"USER_LVL_EN"}
    [] reg = SLCR(\h240) -> {"FPGA_OUT_RST"}
    [] reg = DDRC(\h000) -> {"reg_ddrc_soft_rstb"}
    [] reg = UART0(\h00) -> {"TXEN"}

(* The registers and the hardware hold values of their kinds.                *)
MemOK == /\ mem \in [Registers -> {mem[reg] : reg \in Registers}]
         /\ \A reg \in Registers : mem[reg] \in [FieldNames(reg) -> Nat]

HardwareOK == /\ pll \in [Plls -> [locked : BOOLEAN, fdiv : Nat]]
              /\ dci_done \in BOOLEAN /\ operating \in BOOLEAN

(* Which of the tables of ps7_init is under way?                             *)
Stage == 6 - Len(tables)

TheFive == {InitTables[k] : k \in 1..5}

(* The interpreter is somewhere in the tables of the call under way.         *)
ControlOK ==
  /\ version \in 0..2 /\ calls \in 0..MAX_CALLS
  /\ i \in 0..PS7_MASK_POLL_TIME /\ ret \in {PS7_INIT_SUCCESS, PS7_INIT_TIMEOUT}
  /\ done \in {"none", "ps7_init", "ps7_post_config", "ps7_debug"}
  /\ slcr_locked \in BOOLEAN
  /\ \/ fn = "none"
     \/ /\ fn = "ps7_init" /\ Len(tables) \in 1..5 
        /\ tables \in Seq(TheFive)
        /\ \A k \in 1..Len(tables) : tables[k] = InitTables[5 - Len(tables) + k]
     \/ fn = "ps7_post_config" /\ tables = <<PostConfigTable>>
     \/ fn = "ps7_debug" /\ tables = <<DebugTable>>
  /\ fn # "none" => ptr \in 1..Len(Head(tables))

(* Has ps7_init, in the call under way, executed instruction k of its n-th   *)
(* table?                                                                    *)
Passed(n, k) == fn = "ps7_init" /\ (Stage > n \/ (Stage = n /\ ptr > k))

(* The key has been given and not taken away.                                *)
KeyInv ==
  /\ fn = "ps7_init" /\ Stage \in {1, 2, 3} /\ 1 < ptr =>
       (slcr_locked <=> ptr = Len(Head(tables)))
  /\ fn = "ps7_init" /\ Stage = 5 /\ 1 < ptr => (slcr_locked <=> ptr > 6)
  /\ fn = "ps7_post_config" /\ 1 < ptr =>
       (slcr_locked <=> ptr > 6)

(* What the hardware has answered it answers no more once it is made to      *)
(* start over.                                                               *)
AnswersHold ==
  /\ \A p \in Plls : pll[p].locked => Field(Ctrl[p], "PLL_RESET") # 1
  /\ dci_done => Field(SLCR(\hB70), "RESET") = 1 /\ Field(SLCR(\hB70), "ENABLE") = 1
  /\ operating => Field(DDRC(\h000), "reg_ddrc_soft_rstb") = 1

(* A PLL takes its new divider, and is bypassed until it has locked to it.   *)
PllInv(p) ==
  LET b == First[p]
  IN /\ Passed(2, b+1) => Field(Ctrl[p], "PLL_FDIV") \in Nat \ {RomDivider}
     /\ Passed(2, b+2) /\ ~Passed(2, b+6) => Field(Ctrl[p], "PLL_BYPASS_FORCE") = 1
     /\ Passed(2, b+3) => (pll[p].locked => pll[p].fdiv = Field(Ctrl[p], "PLL_FDIV"))
     /\ Passed(2, b+5) => pll[p].locked
     /\ Passed(2, b+6) => Field(Ctrl[p], "PLL_BYPASS_FORCE") = 0

(* The clocks run once their writes are behind.                              *)
ClockInv ==
  /\ Passed(2, 17) => /\ Field(SLCR(\h124), "DDR_3XCLKACT") = 1
                      /\ Field(SLCR(\h124), "DDR_2XCLKACT") = 1
  /\ Passed(3, 7)  => Field(SLCR(\h154), "CLKACT0") = 1
  /\ Passed(3, 12) => /\ Field(SLCR(\h12C), "UART0_CPU_1XCLKACT") = 1
                      /\ Field(SLCR(\h12C), "LQSPI_CPU_1XCLKACT") = 1

(* The DDR controller is in reset while it is configured, and then runs.     *)
DdrInv ==
  LET n == Len(InitTables[4])
  IN /\ Passed(4, 1) /\ ~Passed(4, n-2) => Field(DDRC(\h000), "reg_ddrc_soft_rstb") = 0
     /\ Passed(4, n-3) => dci_done
     /\ Passed(4, n-1) => operating

(* The UART is connected and enabled once its writes are behind.             *)
PeripheralsInv ==
  /\ \A k \in 1..Len(InitTables[1]) :
       LastOnPin(InitTables[1], k) /\ Passed(1, k) =>
         mem[MIO(47)] = [TRI_ENABLE |-> 0, L3_SEL |-> 7]
  /\ Passed(5, 9) => Field(UART0(\h00), "TXEN") = 1
  /\ fn = "ps7_post_config" /\ 2 < ptr => Field(SLCR(\h900), "USER_LVL_EN") = 1

(* The inductive invariant.                                                  *)
IInv == /\ ControlOK /\ MemOK /\ HardwareOK /\ KeyInv /\ AnswersHold
        /\ \A p \in Plls : PllInv(p)
        /\ ClocksFromLockedPll /\ ClockInv /\ DdrInv /\ PeripheralsInv
        /\ SuccessMeansUp

(* The control registers of the PLLs are different registers, and none of    *)
(* the others that have a name.                                              *)
LEMMA CtrlDistinct ==
  ASSUME NEW p \in Plls
  PROVE  /\ Ctrl[p] \in Registers /\ Ctrl[p] \in PllCtrls /\ First[p] \in {2, 10, 18}
         /\ FieldNames(Ctrl[p]) = {"PLL_FDIV", "PLL_BYPASS_FORCE", "PLL_RESET"}
         /\ \A q \in Plls : q # p => Ctrl[q] # Ctrl[p]
         /\ Ctrl[p] \notin Pads
         /\ Ctrl[p] \notin {SLCR(\h124), SLCR(\h128), SLCR(\h12C), SLCR(\h154), SLCR(\h900),
                            SLCR(\h240), SLCR(\hB48), SLCR(\hB50), SLCR(\hB70), MIO(47),
                            DDRC(\h000), UART0(\h00)}
         /\ IsSlcr(Ctrl[p])
<1>1. p \in {"ARM", "DDR", "IO"}
  BY PllFacts
<1>2. /\ Ctrl[p] \in {SLCR(\h100), SLCR(\h104), SLCR(\h108)} /\ First[p] \in {2, 10, 18}
      /\ \A q \in Plls : q # p => Ctrl[q] # Ctrl[p]
  BY <1>1, PllFacts DEF SLCR
<1>3. Ctrl[p] \in Registers /\ Ctrl[p] \in PllCtrls
  BY DEF Registers, PllCtrls
<1>4. /\ Ctrl[p] \notin Pads /\ IsSlcr(Ctrl[p])
      /\ Ctrl[p] \notin {SLCR(\h124), SLCR(\h128), SLCR(\h12C), SLCR(\h154), SLCR(\h900),
                         SLCR(\h240), SLCR(\hB48), SLCR(\hB50), SLCR(\hB70), MIO(46), MIO(47),
                         DDRC(\h000), UART0(\h00)}
  BY <1>2 DEF SLCR, MIO, DDRC, UART0, IsSlcr, Pads
<1>5. FieldNames(Ctrl[p]) = {"PLL_FDIV", "PLL_BYPASS_FORCE", "PLL_RESET"}
  BY <1>3, <1>4 DEF FieldNames
<1> QED BY <1>2, <1>3, <1>4, <1>5

(* Each is none of those that follow.                                        *)
LEMMA Distinct ==
  /\ SLCR(\h124) \notin PllCtrls \cup {SLCR(\h128), SLCR(\h12C), SLCR(\h154), MIO(46),
       MIO(47), SLCR(\hB48), SLCR(\hB50), SLCR(\hB70), SLCR(\h900), SLCR(\h240),
       DDRC(\h000), UART0(\h00)}
  /\ SLCR(\h128) \notin PllCtrls \cup {SLCR(\h12C), SLCR(\h154), MIO(46), MIO(47),
       SLCR(\hB48), SLCR(\hB50), SLCR(\hB70), SLCR(\h900), SLCR(\h240), DDRC(\h000),
       UART0(\h00)}
  /\ SLCR(\h12C) \notin PllCtrls \cup {SLCR(\h154), MIO(46), MIO(47), SLCR(\hB48),
       SLCR(\hB50), SLCR(\hB70), SLCR(\h900), SLCR(\h240), DDRC(\h000), UART0(\h00)}
  /\ SLCR(\h154) \notin PllCtrls \cup {MIO(46), MIO(47), SLCR(\hB48), SLCR(\hB50),
       SLCR(\hB70), SLCR(\h900), SLCR(\h240), DDRC(\h000), UART0(\h00)}
  /\ MIO(46) \notin PllCtrls \cup {MIO(47), SLCR(\hB48), SLCR(\hB50), SLCR(\hB70),
       SLCR(\h900), SLCR(\h240), DDRC(\h000), UART0(\h00)}
  /\ MIO(47) \notin PllCtrls \cup {SLCR(\hB48), SLCR(\hB50), SLCR(\hB70), SLCR(\h900),
       SLCR(\h240), DDRC(\h000), UART0(\h00)}
  /\ SLCR(\hB48) \notin PllCtrls \cup {SLCR(\hB50), SLCR(\hB70), SLCR(\h900),
       SLCR(\h240), DDRC(\h000), UART0(\h00)}
  /\ SLCR(\hB50) \notin PllCtrls \cup {SLCR(\hB70), SLCR(\h900), SLCR(\h240),
       DDRC(\h000), UART0(\h00)}
  /\ SLCR(\hB70) \notin PllCtrls \cup {SLCR(\h900), SLCR(\h240), DDRC(\h000),
       UART0(\h00)}
  /\ SLCR(\h900) \notin PllCtrls \cup {SLCR(\h240), DDRC(\h000), UART0(\h00)}
  /\ SLCR(\h240) \notin PllCtrls \cup {DDRC(\h000), UART0(\h00)}
  /\ DDRC(\h000) \notin PllCtrls \cup {UART0(\h00)}
  /\ UART0(\h00) \notin PllCtrls
<1>1. SLCR(\h124) \notin PllCtrls \cup {SLCR(\h128), SLCR(\h12C), SLCR(\h154),
           MIO(46), MIO(47), SLCR(\hB48), SLCR(\hB50), SLCR(\hB70), SLCR(\h900),
           SLCR(\h240), DDRC(\h000), UART0(\h00)}
  BY CtrlNames DEF SLCR, MIO, DDRC, UART0
<1>2. SLCR(\h128) \notin PllCtrls \cup {SLCR(\h12C), SLCR(\h154), MIO(46), MIO(47),
           SLCR(\hB48), SLCR(\hB50), SLCR(\hB70), SLCR(\h900), SLCR(\h240), DDRC(\h000),
           UART0(\h00)}
  BY CtrlNames DEF SLCR, MIO, DDRC, UART0
<1>3. SLCR(\h12C) \notin PllCtrls \cup {SLCR(\h154), MIO(46), MIO(47), SLCR(\hB48),
           SLCR(\hB50), SLCR(\hB70), SLCR(\h900), SLCR(\h240), DDRC(\h000), UART0(\h00)}
  BY CtrlNames DEF SLCR, MIO, DDRC, UART0
<1>4. SLCR(\h154) \notin PllCtrls \cup {MIO(46), MIO(47), SLCR(\hB48), SLCR(\hB50),
           SLCR(\hB70), SLCR(\h900), SLCR(\h240), DDRC(\h000), UART0(\h00)}
  BY CtrlNames DEF SLCR, MIO, DDRC, UART0
<1>5. MIO(46) \notin PllCtrls \cup {MIO(47), SLCR(\hB48), SLCR(\hB50), SLCR(\hB70),
           SLCR(\h900), SLCR(\h240), DDRC(\h000), UART0(\h00)}
  BY CtrlNames DEF SLCR, MIO, DDRC, UART0
<1>6. MIO(47) \notin PllCtrls \cup {SLCR(\hB48), SLCR(\hB50), SLCR(\hB70),
           SLCR(\h900), SLCR(\h240), DDRC(\h000), UART0(\h00)}
  BY CtrlNames DEF SLCR, MIO, DDRC, UART0
<1>7. SLCR(\hB48) \notin PllCtrls \cup {SLCR(\hB50), SLCR(\hB70), SLCR(\h900),
           SLCR(\h240), DDRC(\h000), UART0(\h00)}
  BY CtrlNames DEF SLCR, MIO, DDRC, UART0
<1>8. SLCR(\hB50) \notin PllCtrls \cup {SLCR(\hB70), SLCR(\h900), SLCR(\h240),
           DDRC(\h000), UART0(\h00)}
  BY CtrlNames DEF SLCR, MIO, DDRC, UART0
<1>9. SLCR(\hB70) \notin PllCtrls \cup {SLCR(\h900), SLCR(\h240), DDRC(\h000),
           UART0(\h00)}
  BY CtrlNames DEF SLCR, MIO, DDRC, UART0
<1>10. SLCR(\h900) \notin PllCtrls \cup {SLCR(\h240), DDRC(\h000), UART0(\h00)}
  BY CtrlNames DEF SLCR, MIO, DDRC, UART0
<1>11. SLCR(\h240) \notin PllCtrls \cup {DDRC(\h000), UART0(\h00)}
  BY CtrlNames DEF SLCR, MIO, DDRC, UART0
<1>12. DDRC(\h000) \notin PllCtrls \cup {UART0(\h00)}
  BY CtrlNames DEF SLCR, MIO, DDRC, UART0
<1>13. UART0(\h00) \notin PllCtrls
  BY CtrlNames DEF SLCR, MIO, DDRC, UART0
<1> QED BY <1>1, <1>2, <1>3, <1>4, <1>5, <1>6, <1>7, <1>8, <1>9, <1>10, <1>11, <1>12, <1>13

(* The other registers somebody reads, and their fields.                     *)
LEMMA RegisterFacts ==
  /\ {SLCR(\h124), SLCR(\h128), SLCR(\h12C), SLCR(\h154), MIO(46), MIO(47), SLCR(\hB48),
      SLCR(\hB50), SLCR(\hB70), SLCR(\h900), SLCR(\h240), DDRC(\h000), UART0(\h00)}
       \subseteq Registers
  /\ FieldNames(SLCR(\h124)) = {"DDR_3XCLKACT", "DDR_2XCLKACT"}
  /\ FieldNames(SLCR(\h12C)) = {"UART0_CPU_1XCLKACT", "LQSPI_CPU_1XCLKACT"}
  /\ FieldNames(SLCR(\h154)) = {"CLKACT0"}
  /\ FieldNames(SLCR(\h128)) = {"CLKACT"}
  /\ \A reg \in {MIO(46), MIO(47)} : FieldNames(reg) = {"TRI_ENABLE", "L3_SEL"}
  /\ \A reg \in {SLCR(\hB48), SLCR(\hB50)} : FieldNames(reg) = {"IBUF_DISABLE_MODE"}
  /\ FieldNames(SLCR(\hB70)) = {"RESET", "ENABLE"}
  /\ FieldNames(SLCR(\h900)) = {"USER_LVL_EN"}
  /\ FieldNames(SLCR(\h240)) = {"FPGA_OUT_RST"}
  /\ FieldNames(DDRC(\h000)) = {"reg_ddrc_soft_rstb"}
  /\ FieldNames(UART0(\h00)) = {"TXEN"}
  BY Distinct DEF Registers, FieldNames

(* A write that reaches its register leaves what it does not name.           *)
LEMMA StoreEffect ==
  ASSUME MemOK, NEW reg, NEW fields, Store(reg, fields),
         \A f \in DOMAIN fields : fields[f] \in Nat,
         IsSlcr(reg) => ~slcr_locked
  PROVE  /\ MemOK'
         /\ \A r \in Registers : r # reg \/ fields = NoFields => mem'[r] = mem[r]
         /\ reg \in Registers =>
              mem'[reg] = [f \in FieldNames(reg) |->
                             IF f \in DOMAIN fields THEN fields[f] ELSE mem[reg][f]]
<1>1. DOMAIN mem = Registers
  BY DEF MemOK
<1>2. CASE reg \notin Registers
  BY <1>1, <1>2 DEF Store, MemOK
<1>3. CASE reg \in Registers
  <2> DEFINE new == [f \in FieldNames(reg) |->
                       IF f \in DOMAIN fields THEN fields[f] ELSE mem[reg][f]]
  <2>1. mem[reg] \in [FieldNames(reg) -> Nat] /\ DOMAIN mem[reg] = FieldNames(reg)
    BY <1>3 DEF MemOK
  <2>2. mem' = [mem EXCEPT ![reg] = new]
    BY <1>1, <1>3, <2>1 DEF Store
  <2>3. new \in [FieldNames(reg) -> Nat]
    BY <2>1
  <2>4. fields = NoFields => new = mem[reg]
    BY <2>1 DEF NoFields
  <2> HIDE DEF new
  <2>5. mem' = [r \in Registers |-> IF r = reg THEN new ELSE mem[r]]
    BY <1>1, <2>2, <1>3 DEF MemOK
  <2>6. MemOK'
    BY <2>5, <2>3 DEF MemOK
  <2>7. mem'[reg] = new
    BY <2>5, <1>3
  <2> QED BY <2>4, <2>5, <2>6, <2>7 DEF new
<1> QED BY <1>2, <1>3
-----------------------------------------------------------------------------
(* Where the interpreter is.                                                 *)

(* Every table is well formed.                                               *)
LEMMA TablesWellFormed ==
  ASSUME TablesShape
  PROVE  /\ \A n \in 1..5 : WellFormed(InitTables[n])
         /\ WellFormed(PostConfigTable) /\ WellFormed(DebugTable)
<1>1. WellFormed(InitTables[1])
  BY DEF TablesShape, InitTablesShape, MioShape
<1>2. WellFormed(InitTables[2])
  BY DEF TablesShape, InitTablesShape, PllShape
<1>3. WellFormed(InitTables[3])
  BY DEF TablesShape, InitTablesShape, ClockShape
<1>4. WellFormed(InitTables[4])
  BY DEF TablesShape, InitTablesShape, DdrShape
<1>5. WellFormed(InitTables[5])
  BY DEF TablesShape, InitTablesShape, PeripheralsShape
<1>6. WellFormed(PostConfigTable) /\ WellFormed(DebugTable)
  BY DEF TablesShape, PostConfigShape, DebugShape
<1> HIDE DEF InitTables
<1> QED BY <1>1, <1>2, <1>3, <1>4, <1>5, <1>6

(* A well-formed table has a first instruction.                              *)
LEMMA NotEmpty ==
  ASSUME NEW t, WellFormed(t)
  PROVE  Len(t) \in Nat /\ Len(t) > 0 /\ 1 \in 1..Len(t)
<1>1. Len(t) \in Nat \ {0}
  BY Zenon DEF WellFormed
<1> QED BY <1>1

(* Stages are counted from the end.                                          *)
LEMMA StageArithmetic ==
  ASSUME NEW l \in 1..5
  PROVE  6 - l \in 1..5 /\ l = 6 - (6 - l) /\ 5 - l + 1 = 6 - l /\ 6 - (l - 1) = (6 - l) + 1
  OBVIOUS

(* ps7_init has five tables.                                                 *)
LEMMA FiveTables ==
  /\ Len(InitTables) = 5 /\ InitTables \in Seq(TheFive)
  /\ Head(InitTables) = InitTables[1]
<1>1. ASSUME NEW a, NEW b, NEW c, NEW d, NEW e, InitTables = <<a, b, c, d, e>>
      PROVE  /\ Len(InitTables) = 5 /\ InitTables \in Seq(TheFive)
             /\ Head(InitTables) = InitTables[1]
  <2>1. InitTables \in Seq({a, b, c, d, e})
    BY <1>1
  <2>2. InitTables[1] = a /\ InitTables[2] = b /\ InitTables[3] = c /\ InitTables[4] = d
        /\ InitTables[5] = e /\ Len(InitTables) = 5 /\ Head(InitTables) = a
    BY <1>1
  <2>3. {a, b, c, d, e} \subseteq TheFive
    BY <2>2 DEF TheFive
  <2>4. InitTables \in Seq(TheFive)
    BY <2>1, <2>3, SeqMonotonic
  <2> QED BY <2>2, <2>4
<1>2. CASE version = PCW_SILICON_VERSION_1
  BY <1>1, <1>2 DEF InitTables
<1>3. CASE version # PCW_SILICON_VERSION_1 /\ version = PCW_SILICON_VERSION_2
  BY <1>1, <1>3 DEF InitTables
<1>4. CASE version # PCW_SILICON_VERSION_1 /\ version # PCW_SILICON_VERSION_2
  BY <1>1, <1>4 DEF InitTables
<1> QED BY <1>2, <1>3, <1>4

(* While ps7_init runs, its instruction is one of the table of its stage.    *)
LEMMA Position ==
  ASSUME TablesShape, ControlOK, fn = "ps7_init"
  PROVE  /\ Stage \in 1..5 /\ Len(tables) = 6 - Stage /\ tables # <<>>
         /\ Head(tables) = InitTables[Stage] /\ Instruction = InitTables[Stage][ptr]
         /\ ptr \in 1..Len(InitTables[Stage]) /\ WellFormed(InitTables[Stage])
<1>1. Len(tables) \in 1..5 /\ tables[1] = InitTables[5 - Len(tables) + 1]
  BY DEF ControlOK
<1>2. Stage \in 1..5 /\ Len(tables) = 6 - Stage /\ 5 - Len(tables) + 1 = Stage
  BY <1>1, StageArithmetic DEF Stage
<1>3. tables # <<>> /\ Head(tables) = tables[1]
  BY <1>1 DEF ControlOK
<1>4. WellFormed(InitTables[Stage])
  BY <1>2, TablesWellFormed
<1> QED BY <1>1, <1>2, <1>3, <1>4 DEF Instruction, ControlOK

(* The table under way is well formed, whatever the call.                    *)
LEMMA UnderWay ==
  ASSUME TablesShape, ControlOK, fn # "none"
  PROVE  /\ tables # <<>> /\ WellFormed(Head(tables)) /\ ptr \in 1..Len(Head(tables))
         /\ Instruction = Head(tables)[ptr]
         /\ Instruction.opcode = "EXIT" <=> ptr = Len(Head(tables))
<1>1. tables # <<>> /\ WellFormed(Head(tables)) /\ ptr \in 1..Len(Head(tables))
  <2>1. CASE fn = "ps7_init"
    BY <2>1, Position
  <2>2. CASE fn # "ps7_init"
    BY <2>2, TablesWellFormed DEF ControlOK
  <2> QED BY <2>1, <2>2
<1>2. Instruction = Head(tables)[ptr]
  BY DEF Instruction
<1>3. Instruction.opcode = "EXIT" <=> ptr = Len(Head(tables))
  BY <1>1, <1>2 DEF WellFormed
<1> QED BY <1>1, <1>2, <1>3

(* The tables follow from the silicon version, which does not change.        *)
LEMMA SameTables ==
  ASSUME version' = version
  PROVE  /\ InitTables' = InitTables /\ PostConfigTable' = PostConfigTable
         /\ DebugTable' = DebugTable /\ TheFive' = TheFive /\ (TablesShape => TablesShape')
<1>1. /\ InitTables' = InitTables /\ PostConfigTable' = PostConfigTable
      /\ DebugTable' = DebugTable
  BY DEF InitTables, PostConfigTable, DebugTable
<1> QED BY <1>1 DEF TablesShape, TheFive

(* The next instruction of the same table.                                   *)
LEMMA ContinueStep ==
  ASSUME TablesShape, ControlOK, fn # "none", Instruction.opcode # "EXIT", Continue
  PROVE  /\ ControlOK' \/ slcr_locked' \notin BOOLEAN
         /\ \A n, k \in Nat : Passed(n, k)' <=>
              Passed(n, k) \/ (fn = "ps7_init" /\ Stage = n /\ ptr = k)
         /\ fn' = fn /\ Stage' = Stage /\ ptr' = ptr + 1 /\ tables' = tables
<1>1. /\ fn' = fn /\ Stage' = Stage /\ ptr' = ptr + 1 /\ tables' = tables /\ version' = version
      /\ i' = 0 /\ ret' = ret /\ done' = done /\ calls' = calls
  BY DEF Continue, Stage
<1>2. ptr \in 1..Len(Head(tables)) /\ Len(Head(tables)) \in Nat /\ ptr # Len(Head(tables))
  BY UnderWay DEF WellFormed
<1>3. ptr' \in 1..Len(Head(tables)')
  BY <1>1, <1>2
<1>4. ControlOK' \/ slcr_locked' \notin BOOLEAN
  BY <1>1, <1>3, SameTables, Ps7Assumption DEF ControlOK
<1>5. fn = "ps7_init" => Stage \in 1..5
  BY Position
<1>6. \A n, k \in Nat : Passed(n, k)' <=>
        Passed(n, k) \/ (fn = "ps7_init" /\ Stage = n /\ ptr = k)
  BY <1>1, <1>2, <1>5 DEF Passed
<1> QED BY <1>1, <1>4, <1>6

(* The next table of ps7_init.                                               *)
LEMMA NextTable ==
  ASSUME TablesShape, ControlOK, fn # "none", Finish(PS7_INIT_SUCCESS),
         Instruction.opcode = "EXIT", Len(tables) # 1
  PROVE  /\ ControlOK' /\ fn = "ps7_init" /\ fn' = fn /\ ret' = ret /\ done' = done
         /\ Stage' = Stage + 1 /\ ptr' = 1
         /\ \A n \in 1..5 : \A k \in 1..(Len(InitTables[n]) - 1) :
              Passed(n, k)' <=> Passed(n, k)
<1>1. fn = "ps7_init"
  BY DEF ControlOK
<1>2. /\ fn' = fn /\ ptr' = 1 /\ tables' = Tail(tables) /\ version' = version /\ i' = 0
      /\ ret' = ret /\ done' = done /\ calls' = calls /\ slcr_locked' = slcr_locked
  BY DEF Finish, LastTable
<1>3. /\ Stage \in 1..5 /\ Len(tables) = 6 - Stage /\ ptr = Len(InitTables[Stage])
      /\ Len(InitTables[Stage]) \in Nat
  BY <1>1, Position, UnderWay DEF WellFormed
<1>4. tables \in Seq(TheFive) /\ Len(tables) \in 2..5
  BY <1>1, <1>3 DEF ControlOK
<1>5. /\ tables' \in Seq(TheFive) /\ Len(tables') = Len(tables) - 1
      /\ \A k \in 1..Len(tables') : tables'[k] = tables[k + 1]
  <2>1. tables \in Seq(TheFive) /\ tables # <<>>
    BY <1>4
  <2>2. /\ Tail(tables) \in Seq(TheFive) /\ Len(Tail(tables)) = Len(tables) - 1
        /\ \A k \in 1..Len(Tail(tables)) : Tail(tables)[k] = tables[k + 1]
    BY <2>1, HeadTailProperties
  <2> QED BY <2>2, <1>2
<1>6. \A k \in 1..Len(tables') : tables'[k] = InitTables[5 - Len(tables') + k]
  <2> TAKE k \in 1..Len(tables')
  <2>1. k + 1 \in 1..Len(tables) /\ 5 - Len(tables) + (k + 1) = 5 - Len(tables') + k
    BY <1>4, <1>5
  <2>2. tables[k + 1] = InitTables[5 - Len(tables) + (k + 1)]
    BY <1>1, <2>1 DEF ControlOK
  <2>3. tables'[k] = tables[k + 1]
    BY ONLY <1>5
  <2>4. InitTables[5 - Len(tables) + (k + 1)] = InitTables[5 - Len(tables') + k]
    BY ONLY <2>1
  <2> QED BY ONLY <2>2, <2>3, <2>4
<1>7. Stage' = Stage + 1 /\ Stage' \in 2..5
  <2>1. Stage = 6 - Len(tables) /\ Stage' = 6 - Len(tables') /\ Len(tables') = Len(tables) - 1
    BY ONLY <1>5 DEF Stage
  <2>2. Len(tables) \in 2..5
    BY ONLY <1>4
  <2>3. ASSUME NEW l \in 2..5
        PROVE  6 - (l - 1) = (6 - l) + 1 /\ 6 - (l - 1) \in 2..5
    BY ONLY <2>3
  <2>4. 6 - (Len(tables) - 1) = (6 - Len(tables)) + 1 /\ 6 - (Len(tables) - 1) \in 2..5
    BY ONLY <2>2, <2>3
  <2> QED BY ONLY <2>1, <2>4, Zenon
<1>8. ptr' \in 1..Len(Head(tables)')
  <2>1. Head(tables') = InitTables[Stage']
    <3>1. Len(tables') \in 1..4 /\ Head(tables') = tables'[1]
      BY <1>4, <1>5
    <3>2. 5 - Len(tables') + 1 = Stage'
      BY <3>1 DEF Stage
    <3> QED BY <1>6, <3>1, <3>2
  <2>2. WellFormed(InitTables[Stage'])
    BY <1>7, TablesWellFormed
  <2> QED BY <1>2, <2>1, <2>2, NotEmpty
<1>9. ControlOK'
  <2>1. Len(tables') \in 1..5 /\ tables' \in Seq(TheFive)
    BY <1>4, <1>5
  <2>2. InitTables' = InitTables /\ TheFive' = TheFive
    BY <1>2, SameTables
  <2>3. \A k \in 1..Len(tables') : tables'[k] = (InitTables')[5 - Len(tables') + k]
    BY <1>6, <2>2
  <2>4. version' \in 0..2 /\ calls' \in 0..MAX_CALLS /\ i' \in 0..PS7_MASK_POLL_TIME
    BY <1>2, Ps7Assumption DEF ControlOK
  <2> QED BY <1>1, <1>2, <1>8, <2>1, <2>2, <2>3, <2>4 DEF ControlOK
<1>10. \A n \in 1..5 : \A k \in 1..(Len(InitTables[n]) - 1) : Passed(n, k)' <=> Passed(n, k)
  BY <1>1, <1>2, <1>3, <1>7 DEF Passed
<1> QED BY <1>1, <1>2, <1>7, <1>9, <1>10

(* The call returns.                                                         *)
LEMMA Return ==
  ASSUME TablesShape, ControlOK, fn # "none", NEW finish \in {PS7_INIT_SUCCESS, PS7_INIT_TIMEOUT},
         Finish(finish), LastTable(finish)
  PROVE  /\ ControlOK' /\ fn' = "none" /\ ret' = finish /\ done' = fn
         /\ \A n, k : ~Passed(n, k)'
<1>1. /\ fn' = "none" /\ ret' = finish /\ done' = fn /\ i' = 0 /\ version' = version
      /\ calls' = calls /\ slcr_locked' = slcr_locked
  BY DEF Finish
<1> QED BY <1>1, Ps7Assumption DEF ControlOK, Passed

(* A call starts at the first instruction.                                   *)
LEMMA CallStep ==
  ASSUME TablesShape, ControlOK, ps7_init \/ ps7_post_config \/ ps7_debug
  PROVE  /\ ControlOK' /\ fn = "none" /\ fn' # "none" /\ ptr' = 1
         /\ \A n \in 1..5, k \in Nat \ {0} : ~Passed(n, k)' /\ ~Passed(n, k)
         /\ UNCHANGED <<version, ret, done, slcr_locked, mem, hardwareVars>>
<1>1. /\ fn = "none" /\ calls < MAX_CALLS /\ calls' = calls + 1 /\ ptr' = 1 /\ i' = 0
      /\ UNCHANGED <<version, ret, done, slcr_locked, mem, hardwareVars>>
      /\ \/ fn' = "ps7_init" /\ tables' = InitTables
         \/ fn' = "ps7_post_config" /\ tables' = <<PostConfigTable>>
         \/ fn' = "ps7_debug" /\ tables' = <<DebugTable>>
  BY DEF ps7_init, ps7_post_config, ps7_debug, Call
<1>2. calls' \in 0..MAX_CALLS
  BY <1>1, Ps7Assumption DEF ControlOK
<1>3. CASE fn' = "ps7_init" /\ tables' = InitTables
  <2>1. Len(tables') = 5 /\ Head(tables') = InitTables[1]
    BY <1>3, FiveTables
  <2>2. \A k \in 1..Len(tables') : tables'[k] = InitTables[5 - Len(tables') + k]
    BY <1>3, <2>1
  <2>3. ptr' \in 1..Len(Head(tables)')
    BY <1>1, <2>1, TablesWellFormed, NotEmpty
  <2>4. ControlOK'
    BY <1>1, <1>2, <1>3, <2>1, <2>2, <2>3, FiveTables, SameTables, Ps7Assumption DEF ControlOK
  <2>5. Stage' = 1
    BY <2>1 DEF Stage
  <2> QED BY <1>1, <1>3, <2>4, <2>5 DEF Passed
<1>4. CASE fn' = "ps7_post_config" /\ tables' = <<PostConfigTable>>
  <2>1. WellFormed(PostConfigTable)
    BY TablesWellFormed
  <2>2. ptr' \in 1..Len(Head(tables)')
    BY <1>1, <1>4, <2>1, NotEmpty
  <2> QED BY <1>1, <1>2, <1>4, <2>2, SameTables, Ps7Assumption DEF ControlOK, Passed
<1>5. CASE fn' = "ps7_debug" /\ tables' = <<DebugTable>>
  <2>1. WellFormed(DebugTable)
    BY TablesWellFormed
  <2>2. ptr' \in 1..Len(Head(tables)')
    BY <1>1, <1>5, <2>1, NotEmpty
  <2> QED BY <1>1, <1>2, <1>5, <2>2, SameTables, Ps7Assumption DEF ControlOK, Passed
<1> QED BY <1>1, <1>3, <1>4, <1>5
-----------------------------------------------------------------------------
(* Writes of fields.                                                         *)

(* What the shapes say of the instruction under way, stage by stage.         *)
LEMMA WriteOfStage ==
  ASSUME TablesShape, ControlOK, Executes("MASKWRITE")
  PROVE  /\ fn = "ps7_init" /\ Stage \in {1, 2, 3} =>
              /\ IsSlcr(Instruction.reg) /\ ptr \in 2..(Len(InitTables[Stage]) - 2)
              /\ Len(InitTables[Stage]) \in Nat
         /\ fn = "ps7_init" /\ Stage = 4 =>
              /\ Instruction.reg[1] = "DDRC"
              /\ \/ ptr = 1 /\ Instruction = SoftReset(0)
                 \/ ptr \in 2..(Len(InitTables[4]) - 4)
                 \/ ptr = Len(InitTables[4]) - 2 /\ Instruction = SoftReset(1)
         /\ fn = "ps7_init" /\ Stage = 5 =>
              /\ Instruction.reg[1] \in {"SLCR", "UART0", "QSPI", "DEVCFG"}
              /\ ptr \in 2..13 /\ ptr # 6 /\ (IsSlcr(Instruction.reg) => ptr < 6)
         /\ fn = "ps7_post_config" =>
              /\ Instruction.reg[1] \in {"SLCR", "AFI0"}
              /\ ptr \in 2..Len(PostConfigTable) /\ ptr # 6
              /\ IsSlcr(Instruction.reg) => ptr < 6
         /\ fn \in {"ps7_init", "ps7_post_config"}
<1>1. /\ Instruction.opcode = "MASKWRITE" /\ fn # "none"
      /\ ptr \in 1..Len(Head(tables)) /\ Instruction = Head(tables)[ptr]
      /\ WellFormed(Head(tables))
  BY UnderWay DEF Executes
<1>2. Unlock.opcode = "WRITE" /\ Lock.opcode = "WRITE"
  BY DEF Unlock, Lock, EMIT_WRITE
<1>3. ASSUME NEW t, NEW l, KeyedUpTo(t, l), t = Head(tables)
      PROVE  ptr # 1 /\ ptr # l /\ (IsSlcr(Instruction.reg) => ptr < l)
  BY <1>1, <1>2, <1>3 DEF KeyedUpTo
<1>4. CASE fn = "ps7_init" /\ Stage \in {1, 2, 3}
  <2>1. Head(tables) = InitTables[Stage] /\ Len(InitTables[Stage]) \in Nat
    BY <1>1, <1>4, Position DEF WellFormed
  <2>2. CASE Stage = 1
    <3>1. KeyedUpTo(InitTables[1], Len(InitTables[1]) - 1) /\ WritesOnly(InitTables[1], {"SLCR"})
      BY DEF TablesShape, InitTablesShape, MioShape
    <3>2. IsSlcr(Instruction.reg)
      BY <1>1, <2>1, <2>2, <3>1 DEF WritesOnly, IsSlcr
    <3>3. ptr # 1 /\ ptr < Len(InitTables[1]) - 1
      BY <1>3, <2>1, <2>2, <3>1, <3>2
    <3> QED BY <1>1, <1>4, <2>1, <2>2, <3>2, <3>3
  <2>3. CASE Stage = 2
    <3>1. KeyedUpTo(InitTables[2], 25) /\ WritesOnly(InitTables[2], {"SLCR"})
          /\ Len(InitTables[2]) = 26
      BY DEF TablesShape, InitTablesShape, PllShape
    <3>2. IsSlcr(Instruction.reg)
      BY <1>1, <2>1, <2>3, <3>1 DEF WritesOnly, IsSlcr
    <3>3. ptr # 1 /\ ptr < 25
      BY <1>3, <2>1, <2>3, <3>1, <3>2
    <3> QED BY <1>1, <1>4, <2>1, <2>3, <3>1, <3>2, <3>3
  <2>4. CASE Stage = 3
    <3>1. KeyedUpTo(InitTables[3], 14) /\ WritesOnly(InitTables[3], {"SLCR"})
          /\ Len(InitTables[3]) = 15
      BY DEF TablesShape, InitTablesShape, ClockShape
    <3>2. IsSlcr(Instruction.reg)
      BY <1>1, <2>1, <2>4, <3>1 DEF WritesOnly, IsSlcr
    <3>3. ptr # 1 /\ ptr < 14
      BY <1>3, <2>1, <2>4, <3>1, <3>2
    <3> QED BY <1>1, <1>4, <2>1, <2>4, <3>1, <3>2, <3>3
  <2> QED BY <1>4, <2>2, <2>3, <2>4
<1>5. CASE fn = "ps7_init" /\ Stage = 4
  <2>1. Head(tables) = InitTables[4] /\ DdrShape(InitTables[4])
    BY <1>5, Position DEF TablesShape, InitTablesShape
  <2>2. Instruction.reg[1] = "DDRC"
    BY <1>1, <2>1 DEF DdrShape, WritesOnly
  <2>3. /\ Len(InitTables[4]) \in Nat /\ ptr \in 1..Len(InitTables[4])
        /\ ptr # Len(InitTables[4]) - 2 => ptr < Len(InitTables[4]) - 3
        /\ InitTables[4][1] = SoftReset(0)
        /\ InitTables[4][Len(InitTables[4]) - 2] = SoftReset(1)
    BY <1>1, <2>1 DEF DdrShape
  <2> QED BY <1>1, <1>5, <2>1, <2>2, <2>3
<1>6. CASE fn = "ps7_init" /\ Stage = 5
  <2>1. Head(tables) = InitTables[5] /\ PeripheralsShape(InitTables[5])
    BY <1>6, Position DEF TablesShape, InitTablesShape
  <2>2. /\ KeyedUpTo(InitTables[5], 6) /\ Len(InitTables[5]) = 13
        /\ WritesOnly(InitTables[5], {"SLCR", "UART0", "QSPI", "DEVCFG"})
    BY <2>1 DEF PeripheralsShape
  <2>3. Instruction.reg[1] \in {"SLCR", "UART0", "QSPI", "DEVCFG"}
    BY <1>1, <2>1, <2>2 DEF WritesOnly
  <2>4. ptr # 1 /\ ptr # 6 /\ (IsSlcr(Instruction.reg) => ptr < 6)
    BY ONLY <1>3, <2>1, <2>2
  <2>5. ptr \in 1..13
    BY ONLY <1>1, <2>1, <2>2
  <2>6. ptr \in 2..13
    BY ONLY <2>4, <2>5
  <2> QED BY <1>6, <2>3, <2>4, <2>6
<1>7. CASE fn = "ps7_post_config"
  <2>1. Head(tables) = PostConfigTable /\ PostConfigShape(PostConfigTable)
    BY <1>7 DEF TablesShape, ControlOK
  <2>2. KeyedUpTo(PostConfigTable, 6) /\ WritesOnly(PostConfigTable, {"SLCR", "AFI0"})
    BY <2>1 DEF PostConfigShape
  <2> QED BY <1>1, <1>3, <1>7, <2>1, <2>2 DEF WritesOnly
<1>8. fn # "ps7_debug"
  <2>1. SUFFICES ASSUME fn = "ps7_debug" PROVE FALSE
    OBVIOUS
  <2>2. Head(tables) = DebugTable /\ DebugShape(DebugTable)
    BY <2>1 DEF TablesShape, ControlOK
  <2> QED BY <1>1, <2>2 DEF DebugShape
<1> QED BY <1>1, <1>4, <1>5, <1>6, <1>7, <1>8, Position DEF ControlOK

(* Every write finds the SLCR unlocked, the DDR controller in reset and the  *)
(* clock of its block running.                                               *)
LEMMA WritesArrive ==
  ASSUME TablesShape, IInv
  PROVE  WritesTakeEffect
<1>1. SUFFICES ASSUME Executes("MASKWRITE")
               PROVE  /\ IsSlcr(Instruction.reg) => ~slcr_locked
                      /\ Instruction.reg[1] = "DDRC" /\ Instruction.reg # DDRC(\h000) =>
                            Field(DDRC(\h000), "reg_ddrc_soft_rstb") = 0
                      /\ Instruction.reg[1] \in {"UART0", "QSPI"} =>
                            /\ Field(SLCR(\h12C), "UART0_CPU_1XCLKACT") = 1
                            /\ Field(SLCR(\h12C), "LQSPI_CPU_1XCLKACT") = 1
  BY DEF WritesTakeEffect
<1>2. ControlOK /\ KeyInv /\ DdrInv /\ ClockInv /\ slcr_locked \in BOOLEAN
  BY DEF IInv, ControlOK
<1>3. CASE fn = "ps7_init" /\ Stage \in {1, 2, 3}
  <2>1. IsSlcr(Instruction.reg) /\ ptr \in 2..(Len(InitTables[Stage]) - 2)
        /\ Head(tables) = InitTables[Stage] /\ Len(InitTables[Stage]) \in Nat
    BY <1>1, <1>2, <1>3, WriteOfStage, Position
  <2> QED BY <1>2, <1>3, <2>1 DEF KeyInv, IsSlcr
<1>4. CASE fn = "ps7_init" /\ Stage = 4
  <2> DEFINE n == Len(InitTables[4])
  <2>1. n \in Nat /\ n > 4
    BY DEF TablesShape, InitTablesShape, DdrShape
  <2>2. Instruction.reg[1] = "DDRC"
    BY <1>1, <1>2, <1>4, WriteOfStage
  <2>3. CASE ptr \in 2..(n - 4)
    <3>1. Passed(4, 1) /\ ~Passed(4, n - 2)
      BY <1>4, <2>1, <2>3 DEF Passed
    <3> QED BY <1>2, <2>2, <3>1 DEF DdrInv, IsSlcr
  <2>4. CASE Instruction \in {SoftReset(0), SoftReset(1)}
    BY <2>2, <2>4 DEF SoftReset, EMIT_MASKWRITE, IsSlcr
  <2> QED BY <1>1, <1>2, <1>4, <2>3, <2>4, WriteOfStage
<1>5. CASE fn = "ps7_init" /\ Stage = 5
  <2>1. ptr \in 2..13 /\ (IsSlcr(Instruction.reg) => ptr < 6)
        /\ Instruction.reg[1] \in {"SLCR", "UART0", "QSPI", "DEVCFG"}
    BY <1>1, <1>2, <1>5, WriteOfStage
  <2>2. Passed(3, 12)
    BY <1>5 DEF Passed
  <2> QED BY <1>2, <1>5, <2>1, <2>2 DEF KeyInv, ClockInv
<1>6. CASE fn = "ps7_post_config"
  <2>1. ptr \in 2..Len(PostConfigTable) /\ (IsSlcr(Instruction.reg) => ptr < 6)
        /\ Instruction.reg[1] \in {"SLCR", "AFI0"}
    BY <1>1, <1>2, <1>6, WriteOfStage
  <2> QED BY <1>2, <1>6, <2>1 DEF KeyInv
<1> QED BY <1>1, <1>2, <1>3, <1>4, <1>5, <1>6, WriteOfStage, Position

(* What a write does to the fields.                                          *)
LEMMA MaskWriteEffect ==
  ASSUME TablesShape, IInv, MaskWrite
  PROVE  /\ MemOK'
         /\ \A r \in Registers : ~Sets(Instruction, r) => mem'[r] = mem[r]
         /\ \A r \in Registers : Sets(Instruction, r) =>
              mem'[r] = [f \in FieldNames(r) |-> IF f \in DOMAIN Instruction.fields
                                                 THEN Instruction.fields[f] ELSE mem[r][f]]
<1>1. /\ Executes("MASKWRITE") /\ fn # "none" /\ Instruction.opcode = "MASKWRITE"
      /\ Store(Instruction.reg, Instruction.fields)
  BY DEF MaskWrite, Executes
<1>2. MemOK /\ ControlOK
  BY DEF IInv
<1>3. \A f \in DOMAIN Instruction.fields : Instruction.fields[f] \in Nat
  BY <1>1, <1>2, UnderWay DEF WellFormed
<1>4. IsSlcr(Instruction.reg) => ~slcr_locked
  BY <1>1, WritesArrive DEF WritesTakeEffect
<1>5. /\ MemOK'
      /\ \A r \in Registers : r # Instruction.reg \/ Instruction.fields = NoFields =>
           mem'[r] = mem[r]
      /\ Instruction.reg \in Registers =>
           mem'[Instruction.reg] =
             [f \in FieldNames(Instruction.reg) |->
                IF f \in DOMAIN Instruction.fields
                THEN Instruction.fields[f] ELSE mem[Instruction.reg][f]]
  BY <1>1, <1>2, <1>3, <1>4, StoreEffect
<1>6. \A r \in Registers : ~Sets(Instruction, r) => mem'[r] = mem[r]
  BY <1>1, <1>5 DEF Sets
<1>7. \A r \in Registers : Sets(Instruction, r) =>
        mem'[r] = [f \in FieldNames(r) |-> IF f \in DOMAIN Instruction.fields
                                           THEN Instruction.fields[f] ELSE mem[r][f]]
  BY <1>5 DEF Sets
<1> QED BY <1>5, <1>6, <1>7

(* What it does to the hardware behind them.                                 *)
LEMMA HardwareEffect ==
  ASSUME HardwareOK, MaskWrite
  PROVE  /\ HardwareOK'
         /\ \A p \in Plls :
              /\ pll'[p].fdiv = pll[p].fdiv
              /\ pll'[p].locked = (pll[p].locked /\ mem'[Ctrl[p]]["PLL_RESET"] # 1)
         /\ dci_done' <=> /\ dci_done /\ mem'[SLCR(\hB70)]["RESET"] = 1
                          /\ mem'[SLCR(\hB70)]["ENABLE"] = 1
         /\ operating' <=> operating /\ mem'[DDRC(\h000)]["reg_ddrc_soft_rstb"] = 1
<1>1. HardwareFollows
  BY DEF MaskWrite, Store
<1>2. /\ dci_done' = (dci_done /\ mem'[SLCR(\hB70)]["RESET"] = 1
                       /\ mem'[SLCR(\hB70)]["ENABLE"] = 1)
      /\ operating' = (operating /\ mem'[DDRC(\h000)]["reg_ddrc_soft_rstb"] = 1)
  BY <1>1 DEF HardwareFollows
<1>3. pll' = [p \in Plls |-> IF mem'[Ctrl[p]].PLL_RESET = 1
                             THEN [pll[p] EXCEPT !.locked = FALSE] ELSE pll[p]]
  BY <1>1 DEF HardwareFollows
<1>4. /\ pll' \in [Plls -> [locked : BOOLEAN, fdiv : Nat]]
      /\ \A p \in Plls :
           /\ pll'[p].fdiv = pll[p].fdiv
           /\ pll'[p].locked = (pll[p].locked /\ mem'[Ctrl[p]]["PLL_RESET"] # 1)
  BY <1>3 DEF HardwareOK
<1> QED BY <1>2, <1>4 DEF HardwareOK
-----------------------------------------------------------------------------
(* The PLLs.                                                                 *)

(* Which instruction sets a register that belongs to one table only?         *)
LEMMA WhoSets ==
  ASSUME TablesShape, ControlOK, Executes("MASKWRITE"), NEW reg \in Registers,
         Sets(Instruction, reg)
  PROVE  /\ reg \in PllCtrls \cup {SLCR(\h124)} => fn = "ps7_init" /\ Stage = 2
         /\ reg \in {SLCR(\h128), SLCR(\h154), SLCR(\h12C)} => fn = "ps7_init" /\ Stage = 3
         /\ reg = DDRC(\h000) => fn = "ps7_init" /\ Stage = 4
         /\ reg = UART0(\h00) => fn = "ps7_init" /\ Stage = 5
         /\ reg \in {SLCR(\hB70), MIO(47)} => fn = "ps7_init" /\ Stage = 1
         /\ reg = SLCR(\hB48) => fn = "ps7_init" /\ Stage \in {1, 5}
         /\ reg \in {SLCR(\h900), SLCR(\h240)} => fn = "ps7_post_config"
<1> DEFINE Here ==
      \/ fn = "ps7_init" /\ Stage = 1 /\ reg \in Pads
      \/ fn = "ps7_init" /\ Stage = 2 /\ reg \in PllCtrls \cup {SLCR(\h124)}
      \/ fn = "ps7_init" /\ Stage = 3 /\ reg \in {SLCR(\h128), SLCR(\h154), SLCR(\h12C)}
      \/ fn = "ps7_init" /\ Stage = 4 /\ reg = DDRC(\h000)
      \/ fn = "ps7_init" /\ Stage = 5 /\ reg \in {SLCR(\hB48), SLCR(\hB50), UART0(\h00)}
      \/ fn = "ps7_post_config" /\ reg \in {SLCR(\h900), SLCR(\h240)}
<1>1. /\ fn # "none" /\ ptr \in 1..Len(Head(tables)) /\ Instruction = Head(tables)[ptr]
  BY UnderWay DEF Executes
<1>2. ASSUME NEW R, SetsOnly(Head(tables), R)
      PROVE  reg \in R
  BY <1>1, <1>2 DEF SetsOnly
<1>3. Here
  <2>1. CASE fn = "ps7_init"
    <3>1. Head(tables) = InitTables[Stage] /\ Stage \in 1..5
      BY <2>1, Position
    <3>2. /\ SetsOnly(InitTables[1], Pads)
          /\ SetsOnly(InitTables[2], PllCtrls \cup {SLCR(\h124)})
          /\ SetsOnly(InitTables[3], {SLCR(\h128), SLCR(\h154), SLCR(\h12C)})
          /\ SetsOnly(InitTables[4], {DDRC(\h000)})
          /\ SetsOnly(InitTables[5], {SLCR(\hB48), SLCR(\hB50), UART0(\h00)})
      BY DEF TablesShape, InitTablesShape, MioShape, PllShape, ClockShape, DdrShape,
             PeripheralsShape
    <3> QED BY <1>2, <2>1, <3>1, <3>2
  <2>2. CASE fn = "ps7_post_config"
    <3>1. Head(tables) = PostConfigTable /\ SetsOnly(PostConfigTable, {SLCR(\h900), SLCR(\h240)})
      BY <2>2 DEF ControlOK, TablesShape, PostConfigShape
    <3> QED BY <1>2, <2>2, <3>1
  <2> QED BY <2>1, <2>2, WriteOfStage
<1> HIDE DEF Here
<1>4. /\ \A p \in Plls : Ctrl[p] \notin Pads
      /\ \A p \in Plls : Ctrl[p] \notin {SLCR(\h124), SLCR(\h128), SLCR(\h154), SLCR(\h12C),
           DDRC(\h000), SLCR(\hB48), SLCR(\hB50), SLCR(\hB70), MIO(47), UART0(\h00),
           SLCR(\h900), SLCR(\h240)}
  <2>1. \A p \in Plls : Ctrl[p] \in {SLCR(\h100), SLCR(\h104), SLCR(\h108)}
    BY PllFacts
  <2> QED BY <2>1 DEF SLCR, MIO, DDRC, UART0, Pads
<1>5. CASE reg \in PllCtrls
  <2>1. PICK p \in Plls : reg = Ctrl[p]
    BY <1>5 DEF PllCtrls
  <2>2. /\ reg \notin Pads
        /\ reg \notin {SLCR(\h124), SLCR(\h128), SLCR(\h154), SLCR(\h12C),
             DDRC(\h000), SLCR(\hB48), SLCR(\hB50), SLCR(\hB70), MIO(47), UART0(\h00),
             SLCR(\h900), SLCR(\h240)}
    BY <1>4, <2>1
  <2> QED BY <1>3, <2>2 DEF Here
<1>6. CASE reg \notin PllCtrls
  BY <1>3, <1>6 DEF Here, Pads, SLCR, MIO, DDRC, UART0
<1> QED BY <1>5, <1>6

(* A write of a control register is one of the five of its row.              *)
LEMMA WriteOfRow ==
  ASSUME TablesShape, ControlOK, Executes("MASKWRITE"), NEW p \in Plls
  PROVE  /\ Sets(Instruction, Ctrl[p]) => 
              /\ fn = "ps7_init" /\ Stage = 2
              /\ \/ ptr = First[p] + 1 /\ \E n \in Nat \ {RomDivider} :
                                             Instruction.fields = [PLL_FDIV |-> n]
                 \/ ptr = First[p] + 2 /\ Instruction.fields = [PLL_BYPASS_FORCE |-> 1]
                 \/ ptr = First[p] + 3 /\ Instruction.fields = [PLL_RESET |-> 1]
                 \/ ptr = First[p] + 4 /\ Instruction.fields = [PLL_RESET |-> 0]
                 \/ ptr = First[p] + 6 /\ Instruction.fields = [PLL_BYPASS_FORCE |-> 0]
         /\ ~Sets(Instruction, Ctrl[p]) /\ fn = "ps7_init" /\ Stage = 2 =>
              ptr \notin (First[p] + 1)..(First[p] + 6)
<1> DEFINE b == First[p]  t == InitTables[2]
<1>1. Instruction.opcode = "MASKWRITE"
  BY DEF Executes
<1>2. b \in Nat /\ Ctrl[p] \in Registers /\ Ctrl[p] \in PllCtrls
  BY CtrlDistinct
<1>3. PICK n \in Nat \ {RomDivider} : Row(t, p, n)
  BY DEF TablesShape, InitTablesShape, PllShape
<1>4. ASSUME fn = "ps7_init", Stage = 2
      PROVE  Instruction = t[ptr] /\ ptr \in 1..Len(t)
  BY <1>4, Position
<1>5. ASSUME Sets(Instruction, Ctrl[p])
      PROVE  /\ fn = "ps7_init" /\ Stage = 2
             /\ \/ ptr = b + 1 /\ Instruction.fields = [PLL_FDIV |-> n]
                \/ ptr = b + 2 /\ Instruction.fields = [PLL_BYPASS_FORCE |-> 1]
                \/ ptr = b + 3 /\ Instruction.fields = [PLL_RESET |-> 1]
                \/ ptr = b + 4 /\ Instruction.fields = [PLL_RESET |-> 0]
                \/ ptr = b + 6 /\ Instruction.fields = [PLL_BYPASS_FORCE |-> 0]
  <2>1. fn = "ps7_init" /\ Stage = 2
    BY <1>2, <1>5, WhoSets
  <2>2. ptr \in {b+1, b+2, b+3, b+4, b+6}
    BY <1>3, <1>4, <1>5, <2>1 DEF Row
  <2>3. Instruction = t[ptr]
    BY <1>4, <2>1
  <2>4. /\ t[b+1].fields = [PLL_FDIV |-> n]
        /\ t[b+2].fields = [PLL_BYPASS_FORCE |-> 1]
        /\ t[b+3].fields = [PLL_RESET |-> 1]
        /\ t[b+4].fields = [PLL_RESET |-> 0]
        /\ t[b+6].fields = [PLL_BYPASS_FORCE |-> 0]
    BY ONLY <1>3 DEF Row, EMIT_MASKWRITE
  <2> HIDE DEF b, t
  <2> QED BY ONLY <2>1, <2>2, <2>3, <2>4
<1>6. ASSUME ~Sets(Instruction, Ctrl[p]), fn = "ps7_init", Stage = 2
      PROVE  ptr \notin (b + 1)..(b + 6)
  <2>1. SUFFICES ASSUME ptr \in (b + 1)..(b + 6)
                 PROVE  FALSE
    OBVIOUS
  <2>2. ptr \in {b+1, b+2, b+3, b+4, b+5, b+6}
    BY <1>2, <2>1
  <2>3. ptr # b + 5
    BY <1>1, <1>3, <1>4, <1>6 DEF Row, EMIT_MASKPOLL
  <2>4. /\ Instruction.reg = Ctrl[p]
        /\ Instruction.fields \in {[PLL_FDIV |-> n], [PLL_BYPASS_FORCE |-> 1], [PLL_RESET |-> 1],
                                  [PLL_RESET |-> 0], [PLL_BYPASS_FORCE |-> 0]}
    <3>1. Instruction = t[ptr] /\ ptr \in {b+1, b+2, b+3, b+4, b+6}
      BY <1>4, <1>6, <2>2, <2>3
    <3>2. \A k \in {b+1, b+2, b+3, b+4, b+6} :
             /\ t[k].reg = Ctrl[p]
             /\ t[k].fields \in {[PLL_FDIV |-> n], [PLL_BYPASS_FORCE |-> 1], [PLL_RESET |-> 1],
                                [PLL_RESET |-> 0], [PLL_BYPASS_FORCE |-> 0]}
      BY ONLY <1>3 DEF Row, EMIT_MASKWRITE
    <3> HIDE DEF b, t
    <3> QED BY ONLY <3>1, <3>2
  <2>5. Instruction.fields # NoFields
    BY <2>4 DEF NoFields
  <2> QED BY <1>1, <1>6, <2>4, <2>5 DEF Sets
<1> QED BY <1>5, <1>6

(* A write keeps what is known of a PLL, and gives back its clock only with  *)
(* the PLL locked.                                                           *)
LEMMA PllMaskWrite ==
  ASSUME TablesShape, IInv, MaskWrite, NEW p \in Plls
  PROVE  /\ PllInv(p)'
         /\ pll'[p].locked => mem'[Ctrl[p]]["PLL_RESET"] # 1
         /\ mem'[Ctrl[p]]["PLL_BYPASS_FORCE"] = 0 => pll'[p].locked
<1> DEFINE b == First[p]  m == mem[Ctrl[p]]  mm == mem'[Ctrl[p]]
<1>1. /\ Executes("MASKWRITE") /\ fn # "none" /\ Instruction.opcode # "EXIT" /\ Continue
  BY DEF MaskWrite, Executes
<1>2. /\ ControlOK /\ MemOK /\ HardwareOK /\ PllInv(p)
      /\ m["PLL_BYPASS_FORCE"] = 0 => pll[p].locked
      /\ pll[p].locked => m["PLL_RESET"] # 1
  BY DEF IInv, ClocksFromLockedPll, AnswersHold, Field
<1>3. \A k \in Nat : Passed(2, k)' <=> Passed(2, k) \/ (fn = "ps7_init" /\ Stage = 2 /\ ptr = k)
  BY <1>1, <1>2, ContinueStep
<1>4. b \in {2, 10, 18} /\ Ctrl[p] \in Registers
      /\ FieldNames(Ctrl[p]) = {"PLL_FDIV", "PLL_BYPASS_FORCE", "PLL_RESET"}
  BY CtrlDistinct
<1>5. /\ pll'[p].fdiv = pll[p].fdiv /\ pll[p].locked \in BOOLEAN
      /\ pll'[p].locked = (pll[p].locked /\ mm["PLL_RESET"] # 1)
  BY <1>2, HardwareEffect DEF HardwareOK
<1>6. CASE ~Sets(Instruction, Ctrl[p])
  <2>1. mm = m
    BY <1>4, <1>6, MaskWriteEffect
  <2>2. \A k \in (b+1)..(b+6) : Passed(2, k)' <=> Passed(2, k)
    BY <1>1, <1>2, <1>3, <1>4, <1>6, WriteOfRow
  <2>3. pll'[p].locked = pll[p].locked
    BY <1>2, <1>5, <2>1
  <2> QED BY <1>2, <1>4, <1>5, <2>1, <2>2, <2>3 DEF PllInv, Field
<1>7. CASE Sets(Instruction, Ctrl[p])
  <2>1. fn = "ps7_init" /\ Stage = 2 /\ ptr \in Nat
    BY <1>1, <1>2, <1>7, WriteOfRow, Position
  <2>2. \A k \in Nat : (Passed(2, k) <=> ptr > k) /\ (Passed(2, k)' <=> ptr >= k)
    BY <1>3, <2>1 DEF Passed
  <2>3. mm = [f \in {"PLL_FDIV", "PLL_BYPASS_FORCE", "PLL_RESET"} |->
                IF f \in DOMAIN Instruction.fields THEN Instruction.fields[f] ELSE m[f]]
    BY <1>4, <1>7, MaskWriteEffect
  <2>4. CASE ptr = b + 1 /\ \E n \in Nat \ {RomDivider} : Instruction.fields = [PLL_FDIV |-> n]
    <3>1. /\ mm["PLL_FDIV"] \in Nat \ {RomDivider}
          /\ mm["PLL_BYPASS_FORCE"] = m["PLL_BYPASS_FORCE"] /\ mm["PLL_RESET"] = m["PLL_RESET"]
      BY <2>3, <2>4
    <3> QED BY <1>2, <1>4, <1>5, <2>2, <2>4, <3>1 DEF PllInv, Field
  <2>5. CASE ptr = b + 2 /\ Instruction.fields = [PLL_BYPASS_FORCE |-> 1]
    <3>1. /\ mm["PLL_FDIV"] = m["PLL_FDIV"]
          /\ mm["PLL_BYPASS_FORCE"] = 1 /\ mm["PLL_RESET"] = m["PLL_RESET"]
      BY <2>3, <2>5
    <3> QED BY <1>2, <1>4, <1>5, <2>2, <2>5, <3>1 DEF PllInv, Field
  <2>6. CASE ptr = b + 3 /\ Instruction.fields = [PLL_RESET |-> 1]
    <3>1. /\ mm["PLL_FDIV"] = m["PLL_FDIV"]
          /\ mm["PLL_BYPASS_FORCE"] = m["PLL_BYPASS_FORCE"] /\ mm["PLL_RESET"] = 1
      BY <2>3, <2>6
    <3>2. m["PLL_BYPASS_FORCE"] = 1
      BY <1>2, <1>4, <2>2, <2>6 DEF PllInv, Field
    <3>3. ~pll'[p].locked
      BY <1>5, <3>1
    <3>4. ~Passed(2, b + 5)' /\ ~Passed(2, b + 6)' /\ (Passed(2, b + 1)' => Passed(2, b + 1))
      BY <1>4, <2>2, <2>6
    <3> QED BY <1>2, <1>4, <3>1, <3>2, <3>3, <3>4 DEF PllInv, Field
  <2>7. CASE ptr = b + 4 /\ Instruction.fields = [PLL_RESET |-> 0]
    <3>1. /\ mm["PLL_FDIV"] = m["PLL_FDIV"]
          /\ mm["PLL_BYPASS_FORCE"] = m["PLL_BYPASS_FORCE"] /\ mm["PLL_RESET"] = 0
      BY <2>3, <2>7
    <3> QED BY <1>2, <1>4, <1>5, <2>2, <2>7, <3>1 DEF PllInv, Field
  <2>8. CASE ptr = b + 6 /\ Instruction.fields = [PLL_BYPASS_FORCE |-> 0]
    <3>1. /\ mm["PLL_FDIV"] = m["PLL_FDIV"]
          /\ mm["PLL_BYPASS_FORCE"] = 0 /\ mm["PLL_RESET"] = m["PLL_RESET"]
      BY <2>3, <2>8
    <3> QED BY <1>2, <1>4, <1>5, <2>2, <2>8, <3>1 DEF PllInv, Field
  <2> QED BY <1>1, <1>2, <1>7, <2>4, <2>5, <2>6, <2>7, <2>8, WriteOfRow
<1> QED BY <1>6, <1>7
-----------------------------------------------------------------------------
(* The other facts under a write.                                            *)

(* What a write reaches in the tables after that of the PLLs.                *)
LEMMA WriteOfClocks ==
  ASSUME TablesShape, ControlOK, Executes("MASKWRITE")
  PROVE  /\ Sets(Instruction, SLCR(\h124)) =>
              fn = "ps7_init" /\ Stage = 2 /\ ptr = 17
         /\ fn = "ps7_init" /\ Stage = 2 /\ ptr = 17 => Instruction = DdrClocksOn
         /\ Sets(Instruction, SLCR(\h154)) => fn = "ps7_init" /\ Stage = 3 /\ ptr = 7
         /\ fn = "ps7_init" /\ Stage = 3 /\ ptr = 7 =>
              Instruction = EMIT_MASKWRITE(SLCR(\h154), [CLKACT0 |-> 1, CLKACT1 |-> 0])
         /\ Sets(Instruction, SLCR(\h12C)) => fn = "ps7_init" /\ Stage = 3 /\ ptr = 12
         /\ fn = "ps7_init" /\ Stage = 3 /\ ptr = 12 => Instruction = PeripheralClocksOn
<1>1. {SLCR(\h124), SLCR(\h154), SLCR(\h12C)} \subseteq Registers
  BY RegisterFacts
<1>2. ASSUME fn = "ps7_init"
      PROVE  Instruction = InitTables[Stage][ptr] /\ ptr \in 1..Len(InitTables[Stage])
  BY <1>2, Position
<1>3. /\ Len(InitTables[2]) = 26 /\ InitTables[2][17] = DdrClocksOn
      /\ \A k \in 1..26 : Sets(InitTables[2][k], SLCR(\h124)) => k = 17
  BY DEF TablesShape, InitTablesShape, PllShape
<1>4. /\ Len(InitTables[3]) = 15 /\ InitTables[3][12] = PeripheralClocksOn
      /\ InitTables[3][7] = EMIT_MASKWRITE(SLCR(\h154), [CLKACT0 |-> 1, CLKACT1 |-> 0])
      /\ \A k \in 1..15 : /\ Sets(InitTables[3][k], SLCR(\h154)) => k = 7
                          /\ Sets(InitTables[3][k], SLCR(\h12C)) => k = 12
  BY DEF TablesShape, InitTablesShape, ClockShape
<1>5. /\ Sets(Instruction, SLCR(\h124)) => fn = "ps7_init" /\ Stage = 2
      /\ Sets(Instruction, SLCR(\h154)) => fn = "ps7_init" /\ Stage = 3
      /\ Sets(Instruction, SLCR(\h12C)) => fn = "ps7_init" /\ Stage = 3
  BY <1>1, WhoSets
<1>6. ASSUME fn = "ps7_init", Stage = 2
      PROVE  /\ Sets(Instruction, SLCR(\h124)) => ptr = 17
             /\ ptr = 17 => Instruction = DdrClocksOn
  <2>1. Instruction = InitTables[2][ptr] /\ ptr \in 1..26
    BY <1>2, <1>3, <1>6
  <2> QED BY <1>3, <2>1
<1>7. ASSUME fn = "ps7_init", Stage = 3
      PROVE  /\ Sets(Instruction, SLCR(\h154)) => ptr = 7
             /\ Sets(Instruction, SLCR(\h12C)) => ptr = 12
             /\ ptr = 12 => Instruction = PeripheralClocksOn
             /\ ptr = 7 =>
                  Instruction = EMIT_MASKWRITE(SLCR(\h154), [CLKACT0 |-> 1, CLKACT1 |-> 0])
  <2>1. Instruction = InitTables[3][ptr] /\ ptr \in 1..15
    BY <1>2, <1>4, <1>7
  <2> QED BY <1>4, <2>1
<1> QED BY <1>5, <1>6, <1>7

(* A write of the table under way keeps what is true of the clocks.          *)
LEMMA ClockMaskWrite ==
  ASSUME TablesShape, IInv, MaskWrite
  PROVE  ClockInv'
<1>1. /\ Executes("MASKWRITE") /\ fn # "none" /\ Instruction.opcode # "EXIT" /\ Continue
      /\ Instruction.opcode = "MASKWRITE" /\ ControlOK /\ ClockInv
  BY DEF MaskWrite, Executes, IInv
<1>2. \A n, k \in Nat : Passed(n, k)' <=>
        Passed(n, k) \/ (fn = "ps7_init" /\ Stage = n /\ ptr = k)
  BY <1>1, ContinueStep
<1>3. /\ {SLCR(\h124), SLCR(\h154), SLCR(\h12C)} \subseteq Registers
      /\ FieldNames(SLCR(\h124)) = {"DDR_3XCLKACT", "DDR_2XCLKACT"}
      /\ FieldNames(SLCR(\h12C)) = {"UART0_CPU_1XCLKACT", "LQSPI_CPU_1XCLKACT"}
      /\ FieldNames(SLCR(\h154)) = {"CLKACT0"}
  BY RegisterFacts
<1>4. Passed(2, 17)' => /\ mem'[SLCR(\h124)]["DDR_3XCLKACT"] = 1
                        /\ mem'[SLCR(\h124)]["DDR_2XCLKACT"] = 1
  <2>1. CASE fn = "ps7_init" /\ Stage = 2 /\ ptr = 17
    <3>1. /\ Instruction.fields = [DDR_3XCLKACT |-> 1, DDR_2XCLKACT |-> 1]
          /\ Instruction.reg = SLCR(\h124)
      BY <1>1, <2>1, WriteOfClocks DEF DdrClocksOn, EMIT_MASKWRITE
    <3>2. Sets(Instruction, SLCR(\h124))
      BY <1>1, <3>1 DEF Sets, NoFields
    <3>3. mem'[SLCR(\h124)] = [f \in {"DDR_3XCLKACT", "DDR_2XCLKACT"} |->
             IF f \in DOMAIN Instruction.fields
             THEN Instruction.fields[f] ELSE mem[SLCR(\h124)][f]]
      BY <1>3, <3>2, MaskWriteEffect
    <3> QED BY <3>1, <3>3
  <2>2. CASE ~(fn = "ps7_init" /\ Stage = 2 /\ ptr = 17)
    <3>1. mem'[SLCR(\h124)] = mem[SLCR(\h124)]
      BY <1>1, <1>3, <2>2, WriteOfClocks, MaskWriteEffect
    <3>2. Passed(2, 17)' => Passed(2, 17)
      BY <1>2, <2>2
    <3> QED BY <1>1, <3>1, <3>2 DEF ClockInv, Field
  <2> QED BY <2>1, <2>2
<1>5. Passed(3, 7)' => mem'[SLCR(\h154)]["CLKACT0"] = 1
  <2>1. CASE fn = "ps7_init" /\ Stage = 3 /\ ptr = 7
    <3>1. /\ Instruction.fields = [CLKACT0 |-> 1, CLKACT1 |-> 0]
          /\ Instruction.reg = SLCR(\h154)
      BY <1>1, <2>1, WriteOfClocks DEF EMIT_MASKWRITE
    <3>2. Sets(Instruction, SLCR(\h154))
      BY <1>1, <3>1 DEF Sets, NoFields
    <3>3. mem'[SLCR(\h154)] = [f \in {"CLKACT0"} |->
             IF f \in DOMAIN Instruction.fields
             THEN Instruction.fields[f] ELSE mem[SLCR(\h154)][f]]
      BY <1>3, <3>2, MaskWriteEffect
    <3> QED BY <3>1, <3>3
  <2>2. CASE ~(fn = "ps7_init" /\ Stage = 3 /\ ptr = 7)
    <3>1. mem'[SLCR(\h154)] = mem[SLCR(\h154)]
      BY <1>1, <1>3, <2>2, WriteOfClocks, MaskWriteEffect
    <3>2. Passed(3, 7)' => Passed(3, 7)
      BY <1>2, <2>2
    <3> QED BY <1>1, <3>1, <3>2 DEF ClockInv, Field
  <2> QED BY <2>1, <2>2
<1>6. Passed(3, 12)' => /\ mem'[SLCR(\h12C)]["UART0_CPU_1XCLKACT"] = 1
                        /\ mem'[SLCR(\h12C)]["LQSPI_CPU_1XCLKACT"] = 1
  <2>1. CASE fn = "ps7_init" /\ Stage = 3 /\ ptr = 12
    <3>1. /\ Instruction.fields = [UART0_CPU_1XCLKACT |-> 1, LQSPI_CPU_1XCLKACT |-> 1]
          /\ Instruction.reg = SLCR(\h12C)
      BY <1>1, <2>1, WriteOfClocks DEF PeripheralClocksOn, EMIT_MASKWRITE
    <3>2. Sets(Instruction, SLCR(\h12C))
      BY <1>1, <3>1 DEF Sets, NoFields
    <3>3. mem'[SLCR(\h12C)] = [f \in {"UART0_CPU_1XCLKACT", "LQSPI_CPU_1XCLKACT"} |->
             IF f \in DOMAIN Instruction.fields
             THEN Instruction.fields[f] ELSE mem[SLCR(\h12C)][f]]
      BY <1>3, <3>2, MaskWriteEffect
    <3> QED BY <3>1, <3>3
  <2>2. CASE ~(fn = "ps7_init" /\ Stage = 3 /\ ptr = 12)
    <3>1. mem'[SLCR(\h12C)] = mem[SLCR(\h12C)]
      BY <1>1, <1>3, <2>2, WriteOfClocks, MaskWriteEffect
    <3>2. Passed(3, 12)' => Passed(3, 12)
      BY <1>2, <2>2
    <3> QED BY <1>1, <3>1, <3>2 DEF ClockInv, Field
  <2> QED BY <2>1, <2>2
<1> QED BY <1>4, <1>5, <1>6 DEF ClockInv, Field

(* The key, and the answers of the hardware.                                 *)
LEMMA KeyMaskWrite ==
  ASSUME TablesShape, IInv, MaskWrite
  PROVE  KeyInv' /\ ControlOK'
<1>1. /\ Executes("MASKWRITE") /\ fn # "none" /\ Instruction.opcode # "EXIT" /\ Continue
      /\ slcr_locked' = slcr_locked /\ ControlOK /\ KeyInv /\ slcr_locked \in BOOLEAN
  BY DEF MaskWrite, Executes, IInv, ControlOK
<1>2. /\ ControlOK' /\ fn' = fn /\ Stage' = Stage /\ ptr' = ptr + 1 /\ tables' = tables
  BY <1>1, ContinueStep
<1>3. fn' = "ps7_init" /\ Stage' \in {1, 2, 3} /\ 1 < ptr' =>
        (slcr_locked' <=> ptr' = Len(Head(tables)'))
  <2>1. SUFFICES ASSUME fn = "ps7_init", Stage \in {1, 2, 3}
                 PROVE  ~slcr_locked /\ ptr + 1 # Len(Head(tables))
    BY <1>1, <1>2
  <2>2. /\ Head(tables) = InitTables[Stage] /\ Len(InitTables[Stage]) \in Nat
        /\ ptr \in 2..(Len(InitTables[Stage]) - 2)
    BY <1>1, <2>1, WriteOfStage, Position
  <2> QED BY <1>1, <2>1, <2>2 DEF KeyInv
<1>4. fn' = "ps7_init" /\ Stage' = 5 /\ 1 < ptr' => (slcr_locked' <=> ptr' > 6)
  <2>1. SUFFICES ASSUME fn = "ps7_init", Stage = 5
                 PROVE  slcr_locked <=> ptr + 1 > 6
    BY <1>1, <1>2
  <2>2. ptr \in 2..13 /\ ptr # 6
    BY <1>1, <2>1, WriteOfStage
  <2> QED BY <1>1, <2>1, <2>2 DEF KeyInv
<1>5. fn' = "ps7_post_config" /\ 1 < ptr' => (slcr_locked' <=> ptr' > 6)
  <2>1. SUFFICES ASSUME fn = "ps7_post_config"
                 PROVE  slcr_locked <=> ptr + 1 > 6
    BY <1>1, <1>2
  <2>2. ptr \in 2..Len(PostConfigTable) /\ ptr # 6
    BY <1>1, <2>1, WriteOfStage
  <2> QED BY <1>1, <2>1, <2>2 DEF KeyInv
<1> QED BY <1>2, <1>3, <1>4, <1>5 DEF KeyInv

(* A write that makes the hardware start over takes its answer away.         *)
LEMMA AnswersMaskWrite ==
  ASSUME TablesShape, IInv, MaskWrite
  PROVE  AnswersHold' /\ ClocksFromLockedPll'
<1>1. \A p \in Plls : /\ pll'[p].locked => mem'[Ctrl[p]]["PLL_RESET"] # 1
                      /\ mem'[Ctrl[p]]["PLL_BYPASS_FORCE"] = 0 => pll'[p].locked
  BY PllMaskWrite
<1>2. /\ dci_done' => mem'[SLCR(\hB70)]["RESET"] = 1 /\ mem'[SLCR(\hB70)]["ENABLE"] = 1
      /\ operating' => mem'[DDRC(\h000)]["reg_ddrc_soft_rstb"] = 1
  BY HardwareEffect DEF IInv
<1> QED BY <1>1, <1>2 DEF AnswersHold, ClocksFromLockedPll, Field

(* A write of the reset of the DDR controller is one of two.                 *)
LEMMA WriteOfDdr ==
  ASSUME TablesShape, ControlOK, Executes("MASKWRITE"), NEW n, n = Len(InitTables[4])
  PROVE  /\ n \in Nat /\ n > 4
         /\ fn = "ps7_init" /\ Stage = 4 => ptr # n - 3 /\ ptr # n - 1 /\ ptr \in 1..n
         /\ Sets(Instruction, DDRC(\h000)) =>
              /\ fn = "ps7_init" /\ Stage = 4
              /\ \/ ptr = 1     /\ Instruction.fields = [reg_ddrc_soft_rstb |-> 0]
                 \/ ptr = n - 2 /\ Instruction.fields = [reg_ddrc_soft_rstb |-> 1]
         /\ ~Sets(Instruction, DDRC(\h000)) /\ fn = "ps7_init" /\ Stage = 4 =>
              ptr # 1 /\ ptr # n - 2
<1>1. Instruction.opcode = "MASKWRITE"
  BY DEF Executes
<1>2. /\ n \in Nat /\ n > 4
      /\ InitTables[4][1] = SoftReset(0) /\ InitTables[4][n - 2] = SoftReset(1)
      /\ \A k \in 1..n : Sets(InitTables[4][k], DDRC(\h000)) => k \in {1, n - 2}
      /\ \A k \in 1..n : InitTables[4][k].opcode = "MASKWRITE" /\ k # n - 2 => k < n - 3
  <2>1. DdrShape(InitTables[4])
    BY DEF TablesShape, InitTablesShape
  <2>2. n = Len(InitTables[4])
    OBVIOUS
  <2>3. n \in Nat /\ n > 4
    BY ONLY <2>1, <2>2 DEF DdrShape
  <2>4. InitTables[4][1] = SoftReset(0) /\ InitTables[4][n - 2] = SoftReset(1)
    BY ONLY <2>1, <2>2 DEF DdrShape
  <2>5. \A k \in 1..n : Sets(InitTables[4][k], DDRC(\h000)) => k \in {1, n - 2}
    BY ONLY <2>1, <2>2 DEF DdrShape
  <2>6. \A k \in 1..n : InitTables[4][k].opcode = "MASKWRITE" /\ k # n - 2 => k < n - 3
    BY ONLY <2>1, <2>2 DEF DdrShape
  <2> QED BY ONLY <2>3, <2>4, <2>5, <2>6
<1>3. ASSUME fn = "ps7_init", Stage = 4
      PROVE  /\ Instruction = InitTables[4][ptr] /\ ptr \in 1..n
             /\ ptr # n - 3 /\ ptr # n - 1
             /\ ptr \in {1, n - 2} \/ ~Sets(Instruction, DDRC(\h000))
  BY <1>1, <1>2, <1>3, Position
<1>4. \A v \in {0, 1} : /\ SoftReset(v).fields = [reg_ddrc_soft_rstb |-> v]
                        /\ Sets(SoftReset(v), DDRC(\h000))
  BY DEF SoftReset, EMIT_MASKWRITE, Sets, NoFields
<1>5. Sets(Instruction, DDRC(\h000)) => fn = "ps7_init" /\ Stage = 4
  BY WhoSets, RegisterFacts
<1>6. ASSUME fn = "ps7_init", Stage = 4, ptr = 1
      PROVE  Sets(Instruction, DDRC(\h000)) /\ Instruction.fields = [reg_ddrc_soft_rstb |-> 0]
  BY <1>2, <1>3, <1>4, <1>6
<1>7. ASSUME fn = "ps7_init", Stage = 4, ptr = n - 2
      PROVE  Sets(Instruction, DDRC(\h000)) /\ Instruction.fields = [reg_ddrc_soft_rstb |-> 1]
  BY <1>2, <1>3, <1>4, <1>7
<1> QED BY <1>2, <1>3, <1>5, <1>6, <1>7

(* A write keeps what is true of the DDR controller.                         *)
LEMMA DdrMaskWrite ==
  ASSUME TablesShape, IInv, MaskWrite
  PROVE  DdrInv'
<1> DEFINE rstb == mem[DDRC(\h000)]["reg_ddrc_soft_rstb"]
<1>0. PICK n : n = Len(InitTables[4])
  OBVIOUS
<1>1. /\ Executes("MASKWRITE") /\ fn # "none" /\ Instruction.opcode # "EXIT" /\ Continue
      /\ ControlOK /\ HardwareOK /\ DdrInv /\ AnswersHold /\ version' = version
  BY DEF MaskWrite, Executes, IInv, Continue
<1>2. /\ Passed(4, 1) /\ ~Passed(4, n - 2) => rstb = 0
      /\ Passed(4, n - 3) => dci_done
      /\ Passed(4, n - 1) => operating
  BY <1>0, <1>1 DEF DdrInv, Field
<1>3. n = Len(InitTables[4])'
  BY <1>0, <1>1, SameTables
<1>4. /\ n \in Nat /\ n > 4
      /\ fn = "ps7_init" /\ Stage = 4 => ptr # n - 3 /\ ptr # n - 1 /\ ptr \in 1..n
      /\ Sets(Instruction, DDRC(\h000)) =>
           /\ fn = "ps7_init" /\ Stage = 4
           /\ \/ ptr = 1     /\ Instruction.fields = [reg_ddrc_soft_rstb |-> 0]
              \/ ptr = n - 2 /\ Instruction.fields = [reg_ddrc_soft_rstb |-> 1]
      /\ ~Sets(Instruction, DDRC(\h000)) /\ fn = "ps7_init" /\ Stage = 4 =>
           ptr # 1 /\ ptr # n - 2
  BY <1>0, <1>1, WriteOfDdr
<1>5. \A k \in {1, n - 3, n - 2, n - 1} :
        Passed(4, k)' <=> Passed(4, k) \/ (fn = "ps7_init" /\ Stage = 4 /\ ptr = k)
  <2>1. 1 \in Nat /\ 4 \in Nat /\ n - 3 \in Nat /\ n - 2 \in Nat /\ n - 1 \in Nat
    BY <1>4
  <2>2. \A k \in Nat : Passed(4, k)' <=>
          Passed(4, k) \/ (fn = "ps7_init" /\ Stage = 4 /\ ptr = k)
    BY <1>1, <2>1, ContinueStep
  <2> QED BY <2>1, <2>2
<1>6. /\ Sets(Instruction, DDRC(\h000)) /\ Instruction.fields = [reg_ddrc_soft_rstb |-> 0] =>
           rstb' = 0
      /\ ~Sets(Instruction, DDRC(\h000)) => rstb' = rstb
  <2>1. DDRC(\h000) \in Registers /\ FieldNames(DDRC(\h000)) = {"reg_ddrc_soft_rstb"}
    BY RegisterFacts
  <2>2. Sets(Instruction, DDRC(\h000)) =>
          mem'[DDRC(\h000)] = [f \in {"reg_ddrc_soft_rstb"} |->
             IF f \in DOMAIN Instruction.fields
             THEN Instruction.fields[f] ELSE mem[DDRC(\h000)][f]]
    BY <2>1, MaskWriteEffect
  <2>3. ~Sets(Instruction, DDRC(\h000)) => mem'[DDRC(\h000)] = mem[DDRC(\h000)]
    BY <2>1, MaskWriteEffect
  <2> QED BY <2>2, <2>3
<1>7. Passed(4, n - 3)' => dci_done'
  <2>1. SUFFICES ASSUME Passed(4, n - 3)'
                 PROVE  dci_done'
    OBVIOUS
  <2>2. Passed(4, n - 3) /\ dci_done
    BY <1>2, <1>4, <1>5, <2>1
  <2>3. mem'[SLCR(\hB70)] = mem[SLCR(\hB70)]
    <3>1. fn = "ps7_init" /\ Stage # 1 /\ SLCR(\hB70) \in Registers
      BY <1>1, <2>2, RegisterFacts, Position DEF Passed
    <3>2. ~Sets(Instruction, SLCR(\hB70))
      BY <1>1, <3>1, WhoSets
    <3> QED BY <3>1, <3>2, MaskWriteEffect
  <2>4. dci_done' <=> /\ dci_done /\ mem'[SLCR(\hB70)]["RESET"] = 1
                      /\ mem'[SLCR(\hB70)]["ENABLE"] = 1
    BY <1>1, HardwareEffect
  <2> QED BY <1>1, <2>2, <2>3, <2>4 DEF AnswersHold, Field
<1>8. Passed(4, n - 1)' => operating'
  <2>1. SUFFICES ASSUME Passed(4, n - 1)'
                 PROVE  operating'
    OBVIOUS
  <2>2. Passed(4, n - 1) /\ operating
    BY <1>2, <1>4, <1>5, <2>1
  <2>3. ~Sets(Instruction, DDRC(\h000))
    <3>1. SUFFICES ASSUME Stage = 4, fn = "ps7_init"
                   PROVE  ptr # 1 /\ ptr # n - 2
      BY <1>4
    <3> QED BY <1>4, <2>2, <3>1 DEF Passed
  <2>4. rstb' = rstb /\ rstb = 1
    BY <1>1, <1>6, <2>2, <2>3 DEF AnswersHold, Field
  <2>5. operating' <=> operating /\ rstb' = 1
    BY <1>1, HardwareEffect
  <2> QED BY <2>2, <2>4, <2>5
<1>9. Passed(4, 1)' /\ ~Passed(4, n - 2)' => rstb' = 0
  <2>1. CASE Sets(Instruction, DDRC(\h000))
    <3>1. CASE ptr = 1 /\ Instruction.fields = [reg_ddrc_soft_rstb |-> 0]
      BY <1>6, <2>1, <3>1
    <3>2. CASE ptr = n - 2
      BY <1>4, <1>5, <2>1, <3>2
    <3> QED BY <1>4, <2>1, <3>1, <3>2
  <2>2. CASE ~Sets(Instruction, DDRC(\h000))
    <3>1. (Passed(4, 1)' <=> Passed(4, 1)) /\ (Passed(4, n - 2) => Passed(4, n - 2)')
      BY <1>4, <1>5, <2>2
    <3> QED BY <1>2, <1>6, <2>2, <3>1
  <2> QED BY <2>1, <2>2
<1> QED
  <2>1. /\ Passed(4, n - 3)' => dci_done'
        /\ Passed(4, n - 1)' => operating'
        /\ Passed(4, 1)' /\ ~Passed(4, n - 2)' => rstb' = 0
    BY <1>7, <1>8, <1>9
  <2> QED BY <1>3, <2>1 DEF DdrInv, Field

(* A write of the transmit pin, of the UART or of the level shifters.        *)
LEMMA PeripheralsMaskWrite ==
  ASSUME TablesShape, IInv, MaskWrite
  PROVE  PeripheralsInv'
<1>1. /\ Executes("MASKWRITE") /\ fn # "none" /\ Instruction.opcode # "EXIT" /\ Continue
      /\ Instruction.opcode = "MASKWRITE" /\ ControlOK /\ PeripheralsInv /\ version' = version
  BY DEF MaskWrite, Executes, IInv, Continue
<1>2. /\ \A n, k \in Nat : Passed(n, k)' <=>
           Passed(n, k) \/ (fn = "ps7_init" /\ Stage = n /\ ptr = k)
      /\ fn' = fn /\ ptr' = ptr + 1
  BY <1>1, ContinueStep
<1>3. InitTables' = InitTables
  BY <1>1, SameTables
<1>4. /\ {MIO(47), UART0(\h00), SLCR(\h900)} \subseteq Registers
      /\ FieldNames(MIO(47)) = {"TRI_ENABLE", "L3_SEL"}
      /\ FieldNames(UART0(\h00)) = {"TXEN"}
      /\ FieldNames(SLCR(\h900)) = {"USER_LVL_EN"}
  BY RegisterFacts
<1>5. ASSUME NEW k \in 1..Len(InitTables[1]), LastOnPin(InitTables[1], k), Passed(1, k)'
      PROVE  mem'[MIO(47)] = [TRI_ENABLE |-> 0, L3_SEL |-> 7]
  <2>0. k \in Nat /\ Len(InitTables[1]) \in Nat
    <3>1. WellFormed(InitTables[1])
      BY TablesWellFormed
    <3> QED BY <3>1, NotEmpty
  <2>1. CASE fn = "ps7_init" /\ Stage = 1 /\ ptr = k
    <3>1. Instruction = UartTx
      BY <1>1, <1>5, <2>1, Position DEF LastOnPin
    <3>2. Sets(Instruction, MIO(47))
      BY <3>1 DEF UartTx, EMIT_MASKWRITE, Sets, NoFields
    <3>3. mem'[MIO(47)] = [f \in {"TRI_ENABLE", "L3_SEL"} |->
             IF f \in DOMAIN Instruction.fields
             THEN Instruction.fields[f] ELSE mem[MIO(47)][f]]
      <4>1. MIO(47) \in Registers /\ FieldNames(MIO(47)) = {"TRI_ENABLE", "L3_SEL"}
        BY RegisterFacts
      <4>2. mem'[MIO(47)] = [f \in FieldNames(MIO(47)) |->
               IF f \in DOMAIN Instruction.fields
               THEN Instruction.fields[f] ELSE mem[MIO(47)][f]]
        BY <3>2, <4>1, MaskWriteEffect
      <4> QED BY <4>1, <4>2
    <3>4. /\ Instruction.fields["TRI_ENABLE"] = 0 /\ Instruction.fields["L3_SEL"] = 7
          /\ {"TRI_ENABLE", "L3_SEL"} \subseteq DOMAIN Instruction.fields
      <4>1. Instruction.fields = [TRI_ENABLE |-> 0, L0_SEL |-> 0, L3_SEL |-> 7]
        BY <3>1 DEF UartTx, EMIT_MASKWRITE
      <4> QED BY <4>1
    <3>5. mem'[MIO(47)] = [f \in {"TRI_ENABLE", "L3_SEL"} |-> IF f = "TRI_ENABLE" THEN 0 ELSE 7]
      BY <3>3, <3>4
    <3>6. [f \in {"TRI_ENABLE", "L3_SEL"} |-> IF f = "TRI_ENABLE" THEN 0 ELSE 7] =
            [TRI_ENABLE |-> 0, L3_SEL |-> 7]
      OBVIOUS
    <3> QED BY <3>5, <3>6
  <2>2. CASE ~(fn = "ps7_init" /\ Stage = 1 /\ ptr = k)
    <3>1. Passed(1, k)
      BY <1>2, <1>5, <2>0, <2>2
    <3>2. ~Sets(Instruction, MIO(47))
      <4>1. SUFFICES ASSUME Sets(Instruction, MIO(47)) PROVE FALSE
        OBVIOUS
      <4>2. fn = "ps7_init" /\ Stage = 1
        BY <1>1, <1>4, <4>1, WhoSets
      <4>3. ptr \in (k + 1)..Len(InitTables[1]) /\ Instruction = InitTables[1][ptr]
        BY <1>1, <2>0, <3>1, <4>2, Position DEF Passed
      <4> QED BY <1>5, <4>1, <4>3 DEF LastOnPin
    <3>3. mem'[MIO(47)] = mem[MIO(47)]
      BY <1>4, <3>2, MaskWriteEffect
    <3> QED BY <1>1, <1>5, <3>1, <3>3 DEF PeripheralsInv
  <2> QED BY <2>1, <2>2
<1>6. Passed(5, 9)' => mem'[UART0(\h00)]["TXEN"] = 1
  <2>1. /\ Len(InitTables[5]) = 13
        /\ InitTables[5][9] = EMIT_MASKWRITE(UART0(\h00), [TXEN |-> 1, TXDIS |-> 0])
        /\ \A k \in 1..13 : Sets(InitTables[5][k], UART0(\h00)) => k = 9
    BY DEF TablesShape, InitTablesShape, PeripheralsShape
  <2>2. CASE fn = "ps7_init" /\ Stage = 5 /\ ptr = 9
    <3>1. Instruction = EMIT_MASKWRITE(UART0(\h00), [TXEN |-> 1, TXDIS |-> 0])
      BY <1>1, <2>1, <2>2, Position
    <3>2. /\ Instruction.fields = [TXEN |-> 1, TXDIS |-> 0]
          /\ Sets(Instruction, UART0(\h00))
      BY <3>1 DEF EMIT_MASKWRITE, Sets, NoFields
    <3>3. mem'[UART0(\h00)] = [f \in {"TXEN"} |->
             IF f \in DOMAIN Instruction.fields
             THEN Instruction.fields[f] ELSE mem[UART0(\h00)][f]]
      BY <1>4, <3>2, MaskWriteEffect
    <3> QED BY <3>2, <3>3
  <2>3. CASE ~(fn = "ps7_init" /\ Stage = 5 /\ ptr = 9)
    <3>1. ~Sets(Instruction, UART0(\h00))
      <4>1. SUFFICES ASSUME Sets(Instruction, UART0(\h00)) PROVE FALSE
        OBVIOUS
      <4>2. fn = "ps7_init" /\ Stage = 5
        BY <1>1, <1>4, <4>1, WhoSets
      <4> QED BY <1>1, <2>1, <2>3, <4>1, <4>2, Position
    <3>2. Passed(5, 9)' => Passed(5, 9)
      BY <1>2, <2>3
    <3> QED BY <1>1, <1>4, <3>1, <3>2, MaskWriteEffect DEF PeripheralsInv, Field
  <2> QED BY <2>2, <2>3
<1>7. fn' = "ps7_post_config" /\ 2 < ptr' => mem'[SLCR(\h900)]["USER_LVL_EN"] = 1
  <2>1. SUFFICES ASSUME fn = "ps7_post_config", 2 < ptr + 1
                 PROVE  mem'[SLCR(\h900)]["USER_LVL_EN"] = 1
    BY <1>2
  <2>2. /\ PostConfigTable[2] = EMIT_MASKWRITE(SLCR(\h900), [USER_LVL_EN |-> 1])
        /\ \A k \in 1..Len(PostConfigTable) : Sets(PostConfigTable[k], SLCR(\h900)) => k = 2
        /\ Head(tables) = PostConfigTable /\ Instruction = PostConfigTable[ptr]
        /\ ptr \in 1..Len(PostConfigTable) /\ Len(PostConfigTable) \in Nat
    <3>1. /\ PostConfigTable[2] = EMIT_MASKWRITE(SLCR(\h900), [USER_LVL_EN |-> 1])
          /\ \A k \in 1..Len(PostConfigTable) : Sets(PostConfigTable[k], SLCR(\h900)) => k = 2
          /\ WellFormed(PostConfigTable)
      BY DEF TablesShape, PostConfigShape
    <3>2. Head(tables) = PostConfigTable
      BY <1>1, <2>1 DEF ControlOK
    <3>3. Len(PostConfigTable) \in Nat
      BY <3>1, NotEmpty
    <3> QED BY <1>1, <3>1, <3>2, <3>3, UnderWay
  <2>3. CASE ptr = 2
    <3>0. /\ Instruction.fields = [USER_LVL_EN |-> 1] /\ Instruction.opcode = "MASKWRITE"
          /\ Instruction.reg = SLCR(\h900)
      BY ONLY <2>2, <2>3 DEF EMIT_MASKWRITE
    <3>1. /\ Instruction.fields = [USER_LVL_EN |-> 1]
          /\ Sets(Instruction, SLCR(\h900))
      BY ONLY <3>0 DEF Sets, NoFields
    <3>2. mem'[SLCR(\h900)] = [f \in {"USER_LVL_EN"} |->
             IF f \in DOMAIN Instruction.fields
             THEN Instruction.fields[f] ELSE mem[SLCR(\h900)][f]]
      BY <1>4, <3>1, MaskWriteEffect
    <3> QED BY <3>1, <3>2
  <2>4. CASE ptr # 2
    <3>1. ~Sets(Instruction, SLCR(\h900)) /\ 2 < ptr
      BY <2>1, <2>2, <2>4
    <3> QED BY <1>1, <1>4, <2>1, <3>1, MaskWriteEffect DEF PeripheralsInv, Field
  <2> QED BY <2>3, <2>4
<1> QED BY <1>3, <1>5, <1>6, <1>7 DEF PeripheralsInv, Field

(* A write keeps the invariant.                                              *)
LEMMA MaskWriteStep ==
  ASSUME TablesShape, IInv, MaskWrite
  PROVE  IInv'
<1>1. SuccessMeansUp'
  BY DEF MaskWrite, Executes, Continue, SuccessMeansUp
<1>2. MemOK' /\ ControlOK' /\ KeyInv' /\ AnswersHold' /\ ClocksFromLockedPll'
  BY MaskWriteEffect, KeyMaskWrite, AnswersMaskWrite
<1>3. HardwareOK'
  BY HardwareEffect DEF IInv
<1>4. \A p \in Plls : PllInv(p)'
  BY PllMaskWrite
<1>5. ClockInv' /\ DdrInv' /\ PeripheralsInv'
  BY ClockMaskWrite, DdrMaskWrite, PeripheralsMaskWrite
<1> QED BY <1>1, <1>2, <1>3, <1>4, <1>5 DEF IInv, Plls
-----------------------------------------------------------------------------
(* Writes of whole words, and polls that end.                                *)

(* The instructions the invariant looks back at.                             *)
LEMMA Milestones ==
  ASSUME TablesShape
  PROVE  /\ \A p \in Plls : \A k \in {1, 2, 3, 6} :
              InitTables[2][First[p] + k].opcode = "MASKWRITE"
         /\ \A p \in Plls :
              /\ InitTables[2][First[p] + 5].opcode = "MASKPOLL"
              /\ InitTables[2][First[p] + 5].status = PollOf[p]
         /\ InitTables[2][17].opcode = "MASKWRITE"
         /\ InitTables[3][7].opcode = "MASKWRITE" /\ InitTables[3][12].opcode = "MASKWRITE"
         /\ InitTables[4][1].opcode = "MASKWRITE"
         /\ InitTables[5][9].opcode = "MASKWRITE"
         /\ PostConfigTable[2].opcode = "MASKWRITE"
<1>1. ASSUME NEW p \in Plls
      PROVE  /\ \A k \in {1, 2, 3, 6} : InitTables[2][First[p] + k].opcode = "MASKWRITE"
             /\ InitTables[2][First[p] + 5].opcode = "MASKPOLL"
             /\ InitTables[2][First[p] + 5].status = PollOf[p]
  <2>1. PICK n : Row(InitTables[2], p, n)
    BY DEF TablesShape, InitTablesShape, PllShape
  <2> QED BY <2>1 DEF Row, EMIT_MASKWRITE, EMIT_MASKPOLL
<1>2. InitTables[2][17].opcode = "MASKWRITE"
  BY DEF TablesShape, InitTablesShape, PllShape, DdrClocksOn, EMIT_MASKWRITE
<1>3. InitTables[3][7].opcode = "MASKWRITE" /\ InitTables[3][12].opcode = "MASKWRITE"
  BY DEF TablesShape, InitTablesShape, ClockShape, PeripheralClocksOn, EMIT_MASKWRITE
<1>4. InitTables[4][1].opcode = "MASKWRITE"
  BY DEF TablesShape, InitTablesShape, DdrShape, SoftReset, EMIT_MASKWRITE
<1>5. InitTables[5][9].opcode = "MASKWRITE"
  BY DEF TablesShape, InitTablesShape, PeripheralsShape, EMIT_MASKWRITE
<1>6. PostConfigTable[2].opcode = "MASKWRITE"
  BY DEF TablesShape, PostConfigShape, EMIT_MASKWRITE
<1> QED BY <1>1, <1>2, <1>3, <1>4, <1>5, <1>6

(* What a poll of these waits for.                                           *)
LEMMA Polled ==
  /\ \A p \in Plls : Status(PollOf[p]) = pll[p].locked
  /\ Status("DONE") = dci_done /\ Status("ddrc_reg_operating_mode") = operating
<1>1. /\ Status("ARM_PLL_LOCK") = pll["ARM"].locked
      /\ Status("DDR_PLL_LOCK") = pll["DDR"].locked
      /\ Status("IO_PLL_LOCK") = pll["IO"].locked
  BY DEF Status
<1>2. Status("DONE") = dci_done
  BY DEF Status
<1>3. Status("ddrc_reg_operating_mode") = operating
  BY DEF Status
<1> QED BY <1>1, <1>2, <1>3 DEF Plls, PollOf

(* An instruction that leaves the registers alone: a poll has been seen.     *)
Quiet == /\ fn # "none" /\ Instruction.opcode \in {"WRITE", "MASKPOLL"} /\ Continue
         /\ Instruction.opcode = "MASKPOLL" => Status(Instruction.status)
         /\ UNCHANGED <<mem, hardwareVars>>

(* It is at no write of a field.                                             *)
LEMMA QuietPassed ==
  ASSUME TablesShape, ControlOK, Quiet, NEW n \in 1..5, NEW k \in Nat
  PROVE  /\ Passed(n, k) => Passed(n, k)'
         /\ Passed(n, k)' => Passed(n, k) \/ (/\ fn = "ps7_init"
                                              /\ Instruction = InitTables[n][k]
                                              /\ Instruction.opcode # "MASKWRITE")
         /\ InitTables[n][k].opcode = "MASKWRITE" => (Passed(n, k)' <=> Passed(n, k))
<1>1. Passed(n, k)' <=> Passed(n, k) \/ (fn = "ps7_init" /\ Stage = n /\ ptr = k)
  BY ContinueStep DEF Quiet
<1>2. fn = "ps7_init" /\ Stage = n /\ ptr = k => Instruction = InitTables[n][k]
  BY Position
<1> QED BY <1>1, <1>2 DEF Quiet

(* A step that writes nothing keeps what is true of the PLLs.                *)
LEMMA QuietPll ==
  ASSUME TablesShape, IInv, Quiet, NEW p \in Plls
  PROVE  PllInv(p)'
<1> DEFINE b == First[p]
<1>1. ControlOK /\ PllInv(p) /\ mem' = mem /\ pll' = pll
  BY DEF IInv, Quiet, hardwareVars
<1>2. b \in {2, 10, 18}
  BY CtrlDistinct
<1>3. \A k \in {1, 2, 3, 6} : Passed(2, b + k)' <=> Passed(2, b + k)
  <2> SUFFICES ASSUME NEW k \in {1, 2, 3, 6}
               PROVE  Passed(2, b + k)' <=> Passed(2, b + k)
    OBVIOUS
  <2>1. b + k \in Nat /\ InitTables[2][b + k].opcode = "MASKWRITE"
    BY <1>2, Milestones
  <2> QED BY <1>1, <2>1, QuietPassed
<1>4. Passed(2, b + 5)' => pll[p].locked
  <2>1. CASE Passed(2, b + 5)
    BY <1>1, <2>1 DEF PllInv
  <2>2. CASE ~Passed(2, b + 5) /\ Passed(2, b + 5)'
    <3>1. Instruction = InitTables[2][b + 5]
      BY <1>1, <1>2, <2>2, QuietPassed
    <3>2. Status(PollOf[p])
      BY <3>1, Milestones DEF Quiet
    <3> QED BY <3>2, Polled
  <2> QED BY <2>1, <2>2
<1> HIDE DEF b
<1> QED BY <1>1, <1>3, <1>4 DEF PllInv, Field, b

(* It keeps what is true of the clocks.                                      *)
LEMMA QuietClocks ==
  ASSUME TablesShape, IInv, Quiet
  PROVE  ClockInv'
<1>1. ControlOK /\ ClockInv /\ mem' = mem
  BY DEF IInv, Quiet
<1>2. Passed(2, 17)' <=> Passed(2, 17)
  BY <1>1, QuietPassed, Milestones
<1>3. Passed(3, 7)' <=> Passed(3, 7)
  BY <1>1, QuietPassed, Milestones
<1>4. Passed(3, 12)' <=> Passed(3, 12)
  BY <1>1, QuietPassed, Milestones
<1> QED BY <1>1, <1>2, <1>3, <1>4 DEF ClockInv, Field

(* It keeps what is true of the DDR controller.                              *)
LEMMA QuietDdr ==
  ASSUME TablesShape, IInv, Quiet
  PROVE  DdrInv'
<1>0. PICK n : n = Len(InitTables[4])
  OBVIOUS
<1>1. /\ ControlOK /\ DdrInv /\ mem' = mem /\ dci_done' = dci_done /\ operating' = operating
      /\ version' = version
  BY DEF IInv, Quiet, hardwareVars, Continue
<1>2. n = Len(InitTables[4])'
  BY <1>0, <1>1, SameTables
<1>3. /\ n \in Nat /\ n > 4
      /\ InitTables[4][n - 3] = EMIT_MASKPOLL(SLCR(\hB74), "DONE")
      /\ InitTables[4][n - 2] = SoftReset(1)
      /\ InitTables[4][n - 1] = EMIT_MASKPOLL(DDRC(\h054), "ddrc_reg_operating_mode")
  BY <1>0 DEF TablesShape, InitTablesShape, DdrShape
<1>4. n - 3 \in Nat /\ n - 2 \in Nat /\ n - 1 \in Nat
  BY <1>3
<1>5. Passed(4, 1)' <=> Passed(4, 1)
  BY <1>1, QuietPassed, Milestones
<1>6. Passed(4, n - 2) => Passed(4, n - 2)'
  BY <1>1, <1>4, QuietPassed
<1>7. Passed(4, n - 3)' => dci_done
  <2>1. CASE Passed(4, n - 3)
    BY <1>0, <1>1, <2>1 DEF DdrInv
  <2>2. CASE ~Passed(4, n - 3) /\ Passed(4, n - 3)'
    <3>1. Instruction = InitTables[4][n - 3]
      BY <1>1, <1>4, <2>2, QuietPassed
    <3>2. Status("DONE")
      BY <1>3, <3>1 DEF Quiet, EMIT_MASKPOLL
    <3> QED BY <3>2, Polled
  <2> QED BY <2>1, <2>2
<1>8. Passed(4, n - 1)' => operating
  <2>1. CASE Passed(4, n - 1)
    BY <1>0, <1>1, <2>1 DEF DdrInv
  <2>2. CASE ~Passed(4, n - 1) /\ Passed(4, n - 1)'
    <3>1. Instruction = InitTables[4][n - 1]
      BY <1>1, <1>4, <2>2, QuietPassed
    <3>2. Status("ddrc_reg_operating_mode")
      BY <1>3, <3>1 DEF Quiet, EMIT_MASKPOLL
    <3> QED BY <3>2, Polled
  <2> QED BY <2>1, <2>2
<1>9. Passed(4, 1)' /\ ~Passed(4, n - 2)' => Field(DDRC(\h000), "reg_ddrc_soft_rstb") = 0
  BY <1>0, <1>1, <1>5, <1>6 DEF DdrInv
<1> QED BY <1>1, <1>2, <1>7, <1>8, <1>9 DEF DdrInv, Field

(* It keeps what is true of the peripherals.                                 *)
LEMMA QuietPeripherals ==
  ASSUME TablesShape, IInv, Quiet
  PROVE  PeripheralsInv'
<1>1. ControlOK /\ PeripheralsInv /\ mem' = mem /\ fn # "none"
      /\ Instruction.opcode # "MASKWRITE" /\ Instruction.opcode # "EXIT" /\ Continue
  BY DEF IInv, Quiet
<1>2. InitTables' = InitTables
  BY <1>1, SameTables DEF Continue
<1>3. ASSUME NEW k \in 1..Len(InitTables[1]), LastOnPin(InitTables[1], k), Passed(1, k)'
      PROVE  mem[MIO(47)] = [TRI_ENABLE |-> 0, L3_SEL |-> 7]
  <2>1. k \in Nat
    OBVIOUS
  <2>2. InitTables[1][k].opcode = "MASKWRITE"
    BY <1>3 DEF LastOnPin, UartTx, EMIT_MASKWRITE
  <2>3. Passed(1, k)
    BY <1>1, <1>3, <2>1, <2>2, QuietPassed
  <2> QED BY <1>1, <1>3, <2>3 DEF PeripheralsInv
<1>4. Passed(5, 9)' <=> Passed(5, 9)
  BY <1>1, QuietPassed, Milestones
<1>5. fn' = "ps7_post_config" /\ 2 < ptr' => fn = "ps7_post_config" /\ 2 < ptr
  <2>1. SUFFICES ASSUME fn = "ps7_post_config", 2 < ptr + 1
                 PROVE  2 < ptr
    BY <1>1 DEF Continue
  <2>2. Head(tables) = PostConfigTable /\ WellFormed(PostConfigTable)
    BY <1>1, <2>1, TablesWellFormed DEF ControlOK
  <2>3. ptr \in 1..Len(PostConfigTable) /\ Instruction = PostConfigTable[ptr]
    BY <1>1, <2>2, UnderWay
  <2>4. ptr # 2
    BY <1>1, <2>3, Milestones
  <2>5. Len(PostConfigTable) \in Nat
    BY <2>2, NotEmpty
  <2> QED BY <2>1, <2>3, <2>4, <2>5
<1> QED BY <1>1, <1>2, <1>3, <1>4, <1>5 DEF PeripheralsInv, Field

(* It keeps the invariant.                                                   *)
LEMMA QuietStep ==
  ASSUME TablesShape, IInv, Quiet, ControlOK', KeyInv'
  PROVE  IInv'
<1>1. /\ MemOK /\ HardwareOK /\ AnswersHold /\ ClocksFromLockedPll /\ SuccessMeansUp
      /\ mem' = mem /\ pll' = pll /\ dci_done' = dci_done /\ operating' = operating
      /\ fn # "none" /\ fn' = fn
  BY DEF IInv, Quiet, hardwareVars, Continue
<1>2. MemOK' /\ HardwareOK' /\ SuccessMeansUp'
  BY <1>1 DEF MemOK, HardwareOK, SuccessMeansUp
<1>3. AnswersHold' /\ ClocksFromLockedPll'
  BY <1>1 DEF AnswersHold, ClocksFromLockedPll, Field
<1>4. \A p \in Plls : PllInv(p)'
  BY QuietPll
<1>5. ClockInv' /\ DdrInv' /\ PeripheralsInv'
  BY QuietClocks, QuietDdr, QuietPeripherals
<1> QED BY <1>2, <1>3, <1>4, <1>5 DEF IInv, Plls

(* Where the keys are.                                                       *)
LEMMA Keys ==
  ASSUME TablesShape, ControlOK, fn # "none", Instruction.opcode \in {"WRITE", "MASKPOLL"},
         NEW l, KeyedUpTo(Head(tables), l)
  PROVE  /\ l \in 2..(Len(Head(tables)) - 1) /\ ptr \in 1..(Len(Head(tables)) - 1)
         /\ Len(Head(tables)) \in Nat
         /\ Instruction.opcode = "WRITE" => \/ ptr = 1 /\ Instruction = Unlock
                                            \/ ptr = l /\ Instruction = Lock
         /\ Instruction.opcode = "MASKPOLL" => ptr # 1 /\ ptr # l
<1>1. /\ ptr \in 1..Len(Head(tables)) /\ Instruction = Head(tables)[ptr]
      /\ ptr # Len(Head(tables)) /\ WellFormed(Head(tables))
  BY UnderWay
<1>2. Len(Head(tables)) \in Nat
  BY <1>1, NotEmpty
<1>3. /\ l \in 2..(Len(Head(tables)) - 1) /\ Head(tables)[1] = Unlock /\ Head(tables)[l] = Lock
      /\ \A k \in 1..Len(Head(tables)) : Head(tables)[k].opcode = "WRITE" => k \in {1, l}
  BY DEF KeyedUpTo
<1>4. Unlock.opcode = "WRITE" /\ Lock.opcode = "WRITE"
  BY DEF Unlock, Lock, EMIT_WRITE
<1> QED BY <1>1, <1>2, <1>3, <1>4

(* Which tables give and take the key, and where they take it.               *)
LEMMA KeyTables ==
  ASSUME TablesShape, ControlOK
  PROVE  /\ fn = "ps7_init" /\ Stage \in {1, 2, 3} =>
              KeyedUpTo(Head(tables), Len(Head(tables)) - 1)
         /\ fn = "ps7_init" /\ Stage = 5 => KeyedUpTo(Head(tables), 6)
         /\ fn = "ps7_post_config" => KeyedUpTo(Head(tables), 6)
<1>1. KeyedUpTo(InitTables[1], Len(InitTables[1]) - 1)
  BY DEF TablesShape, InitTablesShape, MioShape
<1>2. KeyedUpTo(InitTables[2], Len(InitTables[2]) - 1)
  BY DEF TablesShape, InitTablesShape, PllShape
<1>3. KeyedUpTo(InitTables[3], Len(InitTables[3]) - 1)
  BY DEF TablesShape, InitTablesShape, ClockShape
<1>4. KeyedUpTo(InitTables[5], 6)
  BY DEF TablesShape, InitTablesShape, PeripheralsShape
<1>5. KeyedUpTo(PostConfigTable, 6)
  BY DEF TablesShape, PostConfigShape
<1>6. fn = "ps7_init" => Head(tables) = InitTables[Stage]
  BY Position
<1>7. fn = "ps7_post_config" => Head(tables) = PostConfigTable
  BY DEF ControlOK
<1> QED BY <1>1, <1>2, <1>3, <1>4, <1>5, <1>6, <1>7

(* A write of a whole word gives the key or takes it.                        *)
LEMMA WriteStep ==
  ASSUME TablesShape, IInv, Write
  PROVE  IInv'
<1>1. /\ fn # "none" /\ Instruction.opcode = "WRITE" /\ Continue /\ ControlOK /\ KeyInv
      /\ slcr_locked \in BOOLEAN
      /\ slcr_locked' = IF Instruction.reg = Unlock.reg THEN FALSE
                        ELSE IF Instruction.reg = Lock.reg THEN TRUE ELSE slcr_locked
  BY DEF Write, Executes, IInv, ControlOK
<1>2. Quiet
  BY <1>1 DEF Quiet, Write
<1>3. Unlock.reg # Lock.reg
  BY DEF Unlock, Lock, EMIT_WRITE, SLCR
<1>4. /\ ControlOK' /\ fn' = fn /\ Stage' = Stage /\ ptr' = ptr + 1 /\ tables' = tables
  <2>1. slcr_locked' \in BOOLEAN
    BY <1>1
  <2> QED BY <1>1, <2>1, ContinueStep
<1>5. Instruction = Unlock => slcr_locked' = FALSE
  BY <1>1
<1>6. Instruction = Lock => slcr_locked' = TRUE
  BY <1>1, <1>3
<1>7. ASSUME NEW l, KeyedUpTo(Head(tables), l)
      PROVE  /\ slcr_locked' <=> ptr + 1 = l + 1
             /\ ptr \in {1, l} /\ l \in 2..(Len(Head(tables)) - 1) /\ Len(Head(tables)) \in Nat
  BY <1>1, <1>5, <1>6, <1>7, Keys
<1>8. fn' = "ps7_init" /\ Stage' \in {1, 2, 3} /\ 1 < ptr' =>
        (slcr_locked' <=> ptr' = Len(Head(tables)'))
  <2>1. SUFFICES ASSUME fn = "ps7_init", Stage \in {1, 2, 3}
                 PROVE  slcr_locked' <=> ptr + 1 = Len(Head(tables))
    BY <1>4
  <2>2. KeyedUpTo(Head(tables), Len(Head(tables)) - 1)
    BY <1>1, <2>1, KeyTables
  <2> QED BY <1>7, <2>2
<1>9. fn' = "ps7_init" /\ Stage' = 5 /\ 1 < ptr' => (slcr_locked' <=> ptr' > 6)
  <2>1. SUFFICES ASSUME fn = "ps7_init", Stage = 5
                 PROVE  slcr_locked' <=> ptr + 1 > 6
    BY <1>4
  <2>2. KeyedUpTo(Head(tables), 6)
    BY <1>1, <2>1, KeyTables
  <2> QED BY <1>7, <2>2
<1>10. fn' = "ps7_post_config" /\ 1 < ptr' => (slcr_locked' <=> ptr' > 6)
  <2>1. SUFFICES ASSUME fn = "ps7_post_config"
                 PROVE  slcr_locked' <=> ptr + 1 > 6
    BY <1>4
  <2>2. KeyedUpTo(Head(tables), 6)
    BY <1>1, <2>1, KeyTables
  <2> QED BY <1>7, <2>2
<1>11. KeyInv'
  BY <1>8, <1>9, <1>10 DEF KeyInv
<1> QED BY <1>2, <1>4, <1>11, QuietStep

(* A poll that has seen what it waits for.                                   *)
LEMMA PollEndsStep ==
  ASSUME TablesShape, IInv, PollEnds
  PROVE  IInv'
<1>1. /\ fn # "none" /\ Instruction.opcode = "MASKPOLL" /\ Continue /\ ControlOK /\ KeyInv
      /\ slcr_locked \in BOOLEAN /\ slcr_locked' = slcr_locked
  BY DEF PollEnds, PollSeen, Executes, IInv, ControlOK
<1>2. Quiet
  BY <1>1 DEF Quiet, PollEnds, PollSeen
<1>3. /\ ControlOK' /\ fn' = fn /\ Stage' = Stage /\ ptr' = ptr + 1 /\ tables' = tables
  BY <1>1, ContinueStep
<1>4. ASSUME NEW l, KeyedUpTo(Head(tables), l)
      PROVE  /\ ptr # 1 /\ ptr # l /\ ptr \in 1..(Len(Head(tables)) - 1)
             /\ l \in 2..(Len(Head(tables)) - 1) /\ Len(Head(tables)) \in Nat
  BY <1>1, <1>4, Keys
<1>5. fn' = "ps7_init" /\ Stage' \in {1, 2, 3} /\ 1 < ptr' =>
        (slcr_locked' <=> ptr' = Len(Head(tables)'))
  <2>1. SUFFICES ASSUME fn = "ps7_init", Stage \in {1, 2, 3}
                 PROVE  slcr_locked <=> ptr + 1 = Len(Head(tables))
    BY <1>1, <1>3
  <2>2. KeyedUpTo(Head(tables), Len(Head(tables)) - 1)
    BY <1>1, <2>1, KeyTables
  <2> QED BY <1>1, <1>4, <2>1, <2>2 DEF KeyInv
<1>6. fn' = "ps7_init" /\ Stage' = 5 /\ 1 < ptr' => (slcr_locked' <=> ptr' > 6)
  <2>1. SUFFICES ASSUME fn = "ps7_init", Stage = 5
                 PROVE  slcr_locked <=> ptr + 1 > 6
    BY <1>1, <1>3
  <2>2. KeyedUpTo(Head(tables), 6)
    BY <1>1, <2>1, KeyTables
  <2> QED BY <1>1, <1>4, <2>1, <2>2 DEF KeyInv
<1>7. fn' = "ps7_post_config" /\ 1 < ptr' => (slcr_locked' <=> ptr' > 6)
  <2>1. SUFFICES ASSUME fn = "ps7_post_config"
                 PROVE  slcr_locked <=> ptr + 1 > 6
    BY <1>1, <1>3
  <2>2. KeyedUpTo(Head(tables), 6)
    BY <1>1, <2>1, KeyTables
  <2> QED BY <1>1, <1>4, <2>1, <2>2 DEF KeyInv
<1>8. KeyInv'
  BY <1>5, <1>6, <1>7 DEF KeyInv
<1> QED BY <1>2, <1>3, <1>8, QuietStep
-----------------------------------------------------------------------------
(* Steps that go to another table, and steps of the hardware.                *)

(* What has been passed stays as it was, or a call begins or ends.           *)
PassedAsBefore == \A n \in 1..5 : \A k \in 1..(Len(InitTables[n]) - 1) :
                    Passed(n, k)' <=> Passed(n, k)

NothingPassed == \A n \in 1..5 : \A k \in 1..(Len(InitTables[n]) - 1) : ~Passed(n, k)'

(* Such a step keeps the invariant if it leaves the registers and the        *)
(* hardware alone.                                                           *)
LEMMA Elsewhere ==
  ASSUME TablesShape, IInv, UNCHANGED <<version, mem, hardwareVars>>,
         PassedAsBefore \/ NothingPassed,
         ~(fn' = "ps7_post_config" /\ 2 < ptr')
  PROVE  /\ MemOK' /\ HardwareOK' /\ AnswersHold' /\ ClocksFromLockedPll'
         /\ (\A p \in Plls : PllInv(p)') /\ ClockInv' /\ DdrInv' /\ PeripheralsInv'
<1>1. /\ MemOK /\ HardwareOK /\ AnswersHold /\ ClocksFromLockedPll /\ ClockInv /\ DdrInv
      /\ PeripheralsInv /\ mem' = mem /\ pll' = pll /\ dci_done' = dci_done
      /\ operating' = operating /\ version' = version
      /\ \A p \in Plls : PllInv(p)
  BY DEF IInv, hardwareVars
<1>2. MemOK' /\ HardwareOK' /\ AnswersHold' /\ ClocksFromLockedPll'
  BY <1>1 DEF MemOK, HardwareOK, AnswersHold, ClocksFromLockedPll, Field
<1>3. InitTables' = InitTables
  BY <1>1, SameTables
<1>4. ASSUME NEW n \in 1..5
      PROVE  \/ \A k \in 1..(Len(InitTables[n]) - 1) : Passed(n, k)' <=> Passed(n, k)
             \/ \A k \in 1..(Len(InitTables[n]) - 1) : ~Passed(n, k)'
  BY DEF PassedAsBefore, NothingPassed
<1>5. /\ \/ \A k \in 1..25 : Passed(2, k)' <=> Passed(2, k)
         \/ \A k \in 1..25 : ~Passed(2, k)'
      /\ \A k \in 1..14 : Passed(3, k)' => Passed(3, k)
      /\ \A k \in 1..12 : Passed(5, k)' => Passed(5, k)
  <2>1. /\ Len(InitTables[2]) - 1 = 25 /\ Len(InitTables[3]) - 1 = 14
        /\ Len(InitTables[5]) - 1 = 12
    BY DEF TablesShape, InitTablesShape, PllShape, ClockShape, PeripheralsShape
  <2>2. \/ \A k \in 1..25 : Passed(2, k)' <=> Passed(2, k)
        \/ \A k \in 1..25 : ~Passed(2, k)'
    <3>1. \/ \A k \in 1..(Len(InitTables[2]) - 1) : Passed(2, k)' <=> Passed(2, k)
          \/ \A k \in 1..(Len(InitTables[2]) - 1) : ~Passed(2, k)'
      BY <1>4
    <3> QED BY <2>1, <3>1
  <2>3. \A k \in 1..14 : Passed(3, k)' => Passed(3, k)
    <3>1. \A k \in 1..(Len(InitTables[3]) - 1) : Passed(3, k)' => Passed(3, k)
      BY <1>4
    <3> QED BY <2>1, <3>1
  <2>4. \A k \in 1..12 : Passed(5, k)' => Passed(5, k)
    <3>1. \A k \in 1..(Len(InitTables[5]) - 1) : Passed(5, k)' => Passed(5, k)
      BY <1>4
    <3> QED BY <2>1, <3>1
  <2> QED BY <2>2, <2>3, <2>4
<1>6. ASSUME NEW p \in Plls
      PROVE  PllInv(p)'
  <2> DEFINE b == First[p]
  <2>1. b \in {2, 10, 18}
    BY CtrlDistinct
  <2>2. \A k \in {1, 2, 3, 5, 6} : b + k \in 1..25
    BY <2>1
  <2> HIDE DEF b
  <2>3. \/ \A k \in {1, 2, 3, 5, 6} : ~Passed(2, b + k)'
        \/ \A k \in {1, 2, 3, 5, 6} : Passed(2, b + k)' <=> Passed(2, b + k)
    BY <1>5, <2>2
  <2> QED BY <1>1, <2>3 DEF PllInv, Field, b
<1>7. ClockInv'
  <2>1. (Passed(2, 17)' => Passed(2, 17)) /\ (Passed(3, 7)' => Passed(3, 7))
        /\ (Passed(3, 12)' => Passed(3, 12))
    BY <1>5
  <2> QED BY <1>1, <2>1 DEF ClockInv, Field
<1>8. DdrInv'
  <2>0. PICK n : n = Len(InitTables[4])
    OBVIOUS
  <2>1. n = Len(InitTables[4])' /\ n \in Nat /\ n > 4
    BY <1>3, <2>0 DEF TablesShape, InitTablesShape, DdrShape
  <2>2. \A k \in {1, n - 3, n - 2, n - 1} : k \in 1..(Len(InitTables[4]) - 1)
    BY <2>0, <2>1
  <2>3. \/ \A k \in {1, n - 3, n - 2, n - 1} : ~Passed(4, k)'
        \/ \A k \in {1, n - 3, n - 2, n - 1} : Passed(4, k)' <=> Passed(4, k)
    BY <1>4, <2>2
  <2>4. /\ Passed(4, 1) /\ ~Passed(4, n-2) => Field(DDRC(\h000), "reg_ddrc_soft_rstb") = 0
        /\ Passed(4, n-3) => dci_done
        /\ Passed(4, n-1) => operating
    BY <1>1, <2>0 DEF DdrInv
  <2>5. /\ Passed(4, 1)' /\ ~Passed(4, n-2)' => Field(DDRC(\h000), "reg_ddrc_soft_rstb") = 0
        /\ Passed(4, n-3)' => dci_done
        /\ Passed(4, n-1)' => operating
    BY <2>3, <2>4
  <2> QED BY <1>1, <2>1, <2>5 DEF DdrInv, Field
<1>9. PeripheralsInv'
  <2>1. ASSUME NEW k \in 1..Len(InitTables[1]), LastOnPin(InitTables[1], k), Passed(1, k)'
        PROVE  mem[MIO(47)] = [TRI_ENABLE |-> 0, L3_SEL |-> 7]
    <3>1. WellFormed(InitTables[1])
      BY TablesWellFormed
    <3>2. Len(InitTables[1]) \in Nat /\ InitTables[1][k].opcode = "MASKWRITE"
      BY <2>1, <3>1, NotEmpty DEF LastOnPin, UartTx, EMIT_MASKWRITE
    <3>3. k # Len(InitTables[1])
      BY <3>1, <3>2 DEF WellFormed
    <3>4. k \in 1..(Len(InitTables[1]) - 1)
      BY <3>2, <3>3
    <3>5. Passed(1, k)
      BY <1>4, <2>1, <3>4
    <3> QED BY <1>1, <2>1, <3>5 DEF PeripheralsInv
  <2>2. Passed(5, 9)' => Passed(5, 9)
    BY <1>5
  <2> QED BY <1>1, <1>3, <2>1, <2>2 DEF PeripheralsInv, Field
<1> QED BY <1>2, <1>6, <1>7, <1>8, <1>9

(* All that ps7_init has passed when its last table ends.                    *)
LEMMA AllPassed ==
  ASSUME TablesShape, IInv, fn = "ps7_init", Stage = 5, Instruction.opcode = "EXIT"
  PROVE  /\ \A p \in Plls : /\ pll[p].locked /\ pll[p].fdiv # RomDivider
                            /\ Field(Ctrl[p], "PLL_BYPASS_FORCE") = 0
         /\ operating /\ dci_done
         /\ Field(UART0(\h00), "TXEN") = 1 /\ Field(SLCR(\h154), "CLKACT0") = 1
         /\ mem[MIO(47)] = [TRI_ENABLE |-> 0, L3_SEL |-> 7]
         /\ slcr_locked
<1>1. ControlOK /\ KeyInv /\ ClockInv /\ DdrInv /\ PeripheralsInv
  BY DEF IInv
<1>2. Len(InitTables[5]) = 13
  BY DEF TablesShape, InitTablesShape, PeripheralsShape
<1>3. ptr = 13
  BY <1>1, <1>2, UnderWay, Position
<1>4. \A n, k : n \in 1..4 => Passed(n, k)
  BY DEF Passed
<1>5. Passed(5, 9)
  BY <1>3 DEF Passed
<1>6. ASSUME NEW p \in Plls
      PROVE  /\ pll[p].locked /\ pll[p].fdiv # RomDivider
             /\ Field(Ctrl[p], "PLL_BYPASS_FORCE") = 0
  <2>1. PllInv(p)
    BY DEF IInv
  <2> QED BY <1>4, <2>1 DEF PllInv
<1>7. operating /\ dci_done
  BY <1>1, <1>4 DEF DdrInv
<1>8. Field(UART0(\h00), "TXEN") = 1 /\ Field(SLCR(\h154), "CLKACT0") = 1
  BY <1>1, <1>4, <1>5 DEF PeripheralsInv, ClockInv
<1>9. mem[MIO(47)] = [TRI_ENABLE |-> 0, L3_SEL |-> 7]
  <2>1. PICK k \in 1..Len(InitTables[1]) : LastOnPin(InitTables[1], k)
    BY DEF TablesShape, InitTablesShape, MioShape
  <2> QED BY <1>1, <1>4, <2>1 DEF PeripheralsInv
<1>10. slcr_locked
  BY <1>1, <1>3 DEF KeyInv
<1> QED BY <1>6, <1>7, <1>8, <1>9, <1>10

(* A table ends.                                                             *)
LEMMA ExitStep ==
  ASSUME TablesShape, IInv, Exit
  PROVE  IInv'
<1>1. /\ fn # "none" /\ Instruction.opcode = "EXIT" /\ Finish(PS7_INIT_SUCCESS) /\ ControlOK
      /\ UNCHANGED <<version, mem, hardwareVars>> /\ ptr' = 1 /\ slcr_locked' = slcr_locked
      /\ mem' = mem /\ pll' = pll /\ dci_done' = dci_done /\ operating' = operating
  BY DEF Exit, Executes, IInv, Finish, hardwareVars
<1>2. KeyInv'
  BY <1>1 DEF KeyInv
<1>3. CASE Len(tables) # 1
  <2>1. /\ ControlOK' /\ fn' = "ps7_init"
        /\ PassedAsBefore
    BY <1>1, <1>3, NextTable DEF PassedAsBefore
  <2>2. SuccessMeansUp'
    BY <2>1 DEF SuccessMeansUp
  <2> QED BY <1>1, <1>2, <2>1, <2>2, Elsewhere DEF IInv, Plls
<1>4. CASE Len(tables) = 1
  <2>1. LastTable(PS7_INIT_SUCCESS)
    BY <1>4 DEF LastTable
  <2>2. ControlOK' /\ fn' = "none" /\ done' = fn /\ \A n, k : ~Passed(n, k)'
    BY <1>1, <2>1, Return
  <2>3. SuccessMeansUp'
    <3>1. SUFFICES ASSUME fn = "ps7_init"
                   PROVE  SuccessMeansUp'
      BY <2>2 DEF SuccessMeansUp
    <3>2. Stage = 5
      BY <1>4 DEF Stage
    <3> QED BY <1>1, <3>1, <3>2, AllPassed DEF SuccessMeansUp, Field
  <2>4. NothingPassed
    BY <2>2 DEF NothingPassed
  <2> QED BY <1>1, <1>2, <2>2, <2>3, <2>4, Elsewhere DEF IInv, Plls
<1> QED BY <1>3, <1>4

(* A poll that gives up ends the call.                                       *)
LEMMA PollTimesOutStep ==
  ASSUME TablesShape, IInv, PollTimesOut
  PROVE  IInv'
<1>1. /\ fn # "none" /\ Finish(PS7_INIT_TIMEOUT) /\ ControlOK
      /\ UNCHANGED <<version, mem, hardwareVars>> /\ ptr' = 1
  BY DEF PollTimesOut, Executes, IInv, Finish
<1>2. LastTable(PS7_INIT_TIMEOUT) /\ PS7_INIT_TIMEOUT # PS7_INIT_SUCCESS
  BY DEF LastTable, PS7_INIT_TIMEOUT, PS7_INIT_SUCCESS
<1>3. ControlOK' /\ fn' = "none" /\ ret' = PS7_INIT_TIMEOUT /\ \A n, k : ~Passed(n, k)'
  BY <1>1, <1>2, Return
<1>4. KeyInv' /\ SuccessMeansUp'
  BY <1>2, <1>3 DEF KeyInv, SuccessMeansUp
<1>5. NothingPassed
  BY <1>3 DEF NothingPassed
<1>6. ~(fn' = "ps7_post_config" /\ 2 < ptr')
  BY <1>1
<1> QED BY <1>1, <1>3, <1>4, <1>5, <1>6, Elsewhere DEF IInv, Plls

(* A call starts.                                                            *)
LEMMA CallsStep ==
  ASSUME TablesShape, IInv, ps7_init \/ ps7_post_config \/ ps7_debug
  PROVE  IInv'
<1>1. /\ ControlOK' /\ fn' # "none" /\ ptr' = 1
      /\ \A n \in 1..5, k \in Nat \ {0} : ~Passed(n, k)' /\ ~Passed(n, k)
      /\ UNCHANGED <<version, ret, done, slcr_locked, mem, hardwareVars>>
  BY CallStep DEF IInv
<1>2. KeyInv' /\ SuccessMeansUp'
  BY <1>1 DEF KeyInv, SuccessMeansUp
<1>3. NothingPassed
  <2> SUFFICES ASSUME NEW n \in 1..5, NEW k \in 1..(Len(InitTables[n]) - 1)
               PROVE  ~Passed(n, k)'
    BY DEF NothingPassed
  <2>1. Len(InitTables[n]) \in Nat
    BY TablesWellFormed, NotEmpty
  <2>2. k \in Nat \ {0}
    BY <2>1
  <2> QED BY <1>1, <2>2
<1>4. ~(fn' = "ps7_post_config" /\ 2 < ptr')
  BY <1>1
<1> QED BY <1>1, <1>2, <1>3, <1>4, Elsewhere DEF IInv, Plls

(* One more turn of a poll.                                                  *)
LEMMA PollAgainStep ==
  ASSUME TablesShape, IInv, PollAgain
  PROVE  IInv'
<1>1. /\ UNCHANGED <<version, fn, tables, ptr, ret, done, calls, slcr_locked, mem>>
      /\ UNCHANGED <<pll, dci_done, operating>>
      /\ i # PS7_MASK_POLL_TIME /\ i' = i + 1
      /\ ControlOK /\ KeyInv /\ SuccessMeansUp
  BY DEF PollAgain, hardwareVars, TimedOut, Counted, IInv
<1>2. i' \in 0..PS7_MASK_POLL_TIME
  BY <1>1, Ps7Assumption DEF ControlOK
<1>3. InitTables' = InitTables /\ TheFive' = TheFive /\ PostConfigTable' = PostConfigTable
      /\ DebugTable' = DebugTable
  BY <1>1, SameTables
<1>4. ControlOK'
  BY <1>1, <1>2, <1>3 DEF ControlOK
<1>5. KeyInv' /\ SuccessMeansUp'
  BY <1>1 DEF KeyInv, SuccessMeansUp, Stage, Field
<1>6. MemOK' /\ HardwareOK' /\ AnswersHold' /\ ClocksFromLockedPll'
  BY <1>1 DEF IInv, MemOK, HardwareOK, AnswersHold, ClocksFromLockedPll, Field
<1>7. \A n, k : Passed(n, k)' <=> Passed(n, k)
  BY <1>1 DEF Passed, Stage
<1>8. \A p \in Plls : PllInv(p)'
  BY <1>1, <1>7 DEF IInv, PllInv, Field
<1>9. ClockInv' /\ DdrInv' /\ PeripheralsInv'
  BY <1>1, <1>3, <1>7 DEF IInv, ClockInv, DdrInv, PeripheralsInv, Field
<1> QED BY <1>4, <1>5, <1>6, <1>8, <1>9 DEF IInv, Plls

(* What the hardware does alone: its answers only come.                      *)
LEMMA HardwareStep ==
  ASSUME TablesShape, IInv, Hardware
  PROVE  IInv'
<1>1. /\ UNCHANGED <<version, fn, tables, ptr, i, ret, done, calls, slcr_locked, mem>>
      /\ ControlOK /\ KeyInv /\ MemOK /\ HardwareOK /\ AnswersHold /\ ClocksFromLockedPll
      /\ ClockInv /\ DdrInv /\ PeripheralsInv /\ SuccessMeansUp
  BY DEF Hardware, cpuVars, IInv
<1>2. /\ HardwareOK'
      /\ \A p \in Plls : \/ pll'[p] = pll[p]
                         \/ /\ ~pll[p].locked /\ pll'[p].locked
                            /\ pll'[p].fdiv = Field(Ctrl[p], "PLL_FDIV")
                            /\ Field(Ctrl[p], "PLL_RESET") = 0
      /\ (dci_done => dci_done') /\ (operating => operating')
      /\ dci_done' => \/ dci_done
                      \/ Field(SLCR(\hB70), "RESET") = 1 /\ Field(SLCR(\hB70), "ENABLE") = 1
      /\ operating' => operating \/ Field(DDRC(\h000), "reg_ddrc_soft_rstb") = 1
  <2>1. CASE \E p \in Plls : PllLocks(p)
    <3>1. PICK a \in Plls : PllLocks(a)
      BY <2>1
    <3>2. Field(Ctrl[a], "PLL_FDIV") \in Nat
      <4>1. /\ Ctrl[a] \in Registers
            /\ FieldNames(Ctrl[a]) = {"PLL_FDIV", "PLL_BYPASS_FORCE", "PLL_RESET"}
        BY CtrlDistinct
      <4>2. mem[Ctrl[a]] \in [FieldNames(Ctrl[a]) -> Nat]
        BY <1>1, <4>1 DEF MemOK
      <4> QED BY <4>1, <4>2 DEF Field
    <3> DEFINE new == [locked |-> TRUE, fdiv |-> Field(Ctrl[a], "PLL_FDIV")]
    <3>3. /\ ~pll[a].locked /\ Field(Ctrl[a], "PLL_RESET") = 0
          /\ pll' = [pll EXCEPT ![a] = new]
          /\ dci_done' = dci_done /\ operating' = operating
      BY <3>1 DEF PllLocks
    <3>4. /\ new \in [locked : BOOLEAN, fdiv : Nat] /\ new.locked
          /\ new.fdiv = Field(Ctrl[a], "PLL_FDIV")
      BY <3>2
    <3> HIDE DEF new
    <3>5. pll' \in [Plls -> [locked : BOOLEAN, fdiv : Nat]]
      BY <1>1, <3>3, <3>4 DEF HardwareOK
    <3>6. HardwareOK'
      BY <1>1, <3>3, <3>5 DEF HardwareOK
    <3>7. pll'[a] = new /\ \A q \in Plls : q # a => pll'[q] = pll[q]
      <4>1. DOMAIN pll = Plls
        BY <1>1 DEF HardwareOK
      <4> QED BY <3>3, <4>1
    <3>8. ASSUME NEW q \in Plls
          PROVE  \/ pll'[q] = pll[q]
                 \/ /\ ~pll[q].locked /\ pll'[q].locked
                    /\ pll'[q].fdiv = Field(Ctrl[q], "PLL_FDIV")
                    /\ Field(Ctrl[q], "PLL_RESET") = 0
      BY <3>3, <3>4, <3>7
    <3> QED BY <3>3, <3>6, <3>8
  <2>2. CASE DciCalibrated
    <3>1. pll' = pll /\ operating' = operating /\ dci_done' = TRUE
          /\ Field(SLCR(\hB70), "RESET") = 1 /\ Field(SLCR(\hB70), "ENABLE") = 1
      BY <2>2 DEF DciCalibrated
    <3>2. HardwareOK'
      BY <1>1, <3>1 DEF HardwareOK
    <3> QED BY <3>1, <3>2
  <2>3. CASE DdrOperates
    BY <1>1, <2>3 DEF DdrOperates, HardwareOK
  <2> QED BY <2>1, <2>2, <2>3 DEF Hardware
<1>3. InitTables' = InitTables /\ TheFive' = TheFive /\ PostConfigTable' = PostConfigTable
      /\ DebugTable' = DebugTable
  BY <1>1, SameTables
<1>4. ControlOK' /\ KeyInv' /\ MemOK'
  BY <1>1, <1>3 DEF ControlOK, KeyInv, MemOK, Stage
<1>5. \A n, k : Passed(n, k)' <=> Passed(n, k)
  BY <1>1 DEF Passed, Stage
<1>6. (dci_done => dci_done') /\ (operating => operating')
      /\ \A p \in Plls : pll[p].locked => pll'[p] = pll[p]
  BY <1>1, <1>2 DEF HardwareOK
<1>7. AnswersHold' /\ ClocksFromLockedPll'
  BY <1>1, <1>2, <1>6 DEF AnswersHold, ClocksFromLockedPll, Field
<1>8. ASSUME NEW p \in Plls
      PROVE  PllInv(p)'
  <2>1. PllInv(p)
    BY DEF IInv
  <2>2. CASE pll'[p] = pll[p]
    BY <1>1, <1>5, <2>1, <2>2 DEF PllInv, Field
  <2>3. CASE /\ ~pll[p].locked /\ pll'[p].locked
             /\ pll'[p].fdiv = Field(Ctrl[p], "PLL_FDIV")
    BY <1>1, <1>5, <2>1, <2>3 DEF PllInv, Field
  <2> QED BY <1>2, <2>2, <2>3
<1>9. ClockInv' /\ DdrInv' /\ PeripheralsInv'
  BY <1>1, <1>3, <1>5, <1>6 DEF ClockInv, DdrInv, PeripheralsInv, Field
<1>10. SuccessMeansUp'
  BY <1>1, <1>6 DEF SuccessMeansUp, Field
<1> QED BY <1>4, <1>2, <1>7, <1>8, <1>9, <1>10 DEF IInv, Plls
-----------------------------------------------------------------------------
(* The initial states.                                                       *)

(* The boot ROM leaves each register with the fields it has.                 *)
LEMMA RomFieldsOK ==
  ASSUME NEW reg \in Registers, NEW off \in {0, 1}, NEW clock \in {0, 1}
  PROVE  RomFields(reg, off, clock) \in [FieldNames(reg) -> Nat]
<1>1. CASE reg \in PllCtrls
  <2>1. /\ RomFields(reg, off, clock) =
             [PLL_FDIV |-> RomDivider, PLL_BYPASS_FORCE |-> off, PLL_RESET |-> off]
        /\ FieldNames(reg) = {"PLL_FDIV", "PLL_BYPASS_FORCE", "PLL_RESET"}
    BY <1>1, CtrlNames, Distinct DEF RomFields, FieldNames
  <2> QED BY <2>1 DEF RomDivider
<1>2. CASE reg = SLCR(\h124)
  <2>1. RomFields(reg, off, clock) = [DDR_3XCLKACT |-> 0, DDR_2XCLKACT |-> 0]
    BY <1>2, Distinct DEF RomFields
  <2>2. FieldNames(reg) = {"DDR_3XCLKACT", "DDR_2XCLKACT"}
    BY ONLY <1>2, RegisterFacts
  <2>3. off \in Nat /\ clock \in Nat /\ 0 \in Nat /\ 1 \in Nat
    OBVIOUS
  <2> QED BY ONLY <2>1, <2>2, <2>3
<1>3. CASE reg = SLCR(\h128)
  <2>1. RomFields(reg, off, clock) = [CLKACT |-> 0]
    BY <1>3, Distinct DEF RomFields
  <2>2. FieldNames(reg) = {"CLKACT"}
    BY ONLY <1>3, RegisterFacts
  <2>3. off \in Nat /\ clock \in Nat /\ 0 \in Nat /\ 1 \in Nat
    OBVIOUS
  <2> QED BY ONLY <2>1, <2>2, <2>3
<1>4. CASE reg = SLCR(\h12C)
  <2>1. RomFields(reg, off, clock) =
          [UART0_CPU_1XCLKACT |-> clock, LQSPI_CPU_1XCLKACT |-> clock]
    BY <1>4, Distinct DEF RomFields
  <2>2. FieldNames(reg) = {"UART0_CPU_1XCLKACT", "LQSPI_CPU_1XCLKACT"}
    BY ONLY <1>4, RegisterFacts
  <2>3. off \in Nat /\ clock \in Nat /\ 0 \in Nat /\ 1 \in Nat
    OBVIOUS
  <2> QED BY ONLY <2>1, <2>2, <2>3
<1>5. CASE reg = SLCR(\h154)
  <2>1. RomFields(reg, off, clock) = [CLKACT0 |-> clock]
    BY <1>5, Distinct DEF RomFields
  <2>2. FieldNames(reg) = {"CLKACT0"}
    BY ONLY <1>5, RegisterFacts
  <2>3. off \in Nat /\ clock \in Nat /\ 0 \in Nat /\ 1 \in Nat
    OBVIOUS
  <2> QED BY ONLY <2>1, <2>2, <2>3
<1>6. CASE reg \in {MIO(46), MIO(47)}
  <2>1. RomFields(reg, off, clock) = [TRI_ENABLE |-> 1, L3_SEL |-> 0]
    BY <1>6, Distinct DEF RomFields
  <2>2. FieldNames(reg) = {"TRI_ENABLE", "L3_SEL"}
    BY ONLY <1>6, RegisterFacts
  <2>3. off \in Nat /\ clock \in Nat /\ 0 \in Nat /\ 1 \in Nat
    OBVIOUS
  <2> QED BY ONLY <2>1, <2>2, <2>3
<1>7. CASE reg \in {SLCR(\hB48), SLCR(\hB50)}
  <2>1. RomFields(reg, off, clock) = [IBUF_DISABLE_MODE |-> 0]
    BY <1>7, Distinct DEF RomFields
  <2>2. FieldNames(reg) = {"IBUF_DISABLE_MODE"}
    BY ONLY <1>7, RegisterFacts
  <2>3. off \in Nat /\ clock \in Nat /\ 0 \in Nat /\ 1 \in Nat
    OBVIOUS
  <2> QED BY ONLY <2>1, <2>2, <2>3
<1>8. CASE reg = SLCR(\hB70)
  <2>1. RomFields(reg, off, clock) = [RESET |-> 0, ENABLE |-> 0]
    BY <1>8, Distinct DEF RomFields
  <2>2. FieldNames(reg) = {"RESET", "ENABLE"}
    BY ONLY <1>8, RegisterFacts
  <2>3. off \in Nat /\ clock \in Nat /\ 0 \in Nat /\ 1 \in Nat
    OBVIOUS
  <2> QED BY ONLY <2>1, <2>2, <2>3
<1>9. CASE reg = SLCR(\h900)
  <2>1. RomFields(reg, off, clock) = [USER_LVL_EN |-> 0]
    BY <1>9, Distinct DEF RomFields
  <2>2. FieldNames(reg) = {"USER_LVL_EN"}
    BY ONLY <1>9, RegisterFacts
  <2>3. off \in Nat /\ clock \in Nat /\ 0 \in Nat /\ 1 \in Nat
    OBVIOUS
  <2> QED BY ONLY <2>1, <2>2, <2>3
<1>10. CASE reg = SLCR(\h240)
  <2>1. RomFields(reg, off, clock) = [FPGA_OUT_RST |-> 1]
    BY <1>10, Distinct DEF RomFields
  <2>2. FieldNames(reg) = {"FPGA_OUT_RST"}
    BY <1>10, RegisterFacts
  <2> QED BY <2>1, <2>2
<1>11. CASE reg = DDRC(\h000)
  <2>1. RomFields(reg, off, clock) = [reg_ddrc_soft_rstb |-> 0]
    BY <1>11, Distinct DEF RomFields
  <2>2. FieldNames(reg) = {"reg_ddrc_soft_rstb"}
    BY ONLY <1>11, RegisterFacts
  <2>3. off \in Nat /\ clock \in Nat /\ 0 \in Nat /\ 1 \in Nat
    OBVIOUS
  <2> QED BY ONLY <2>1, <2>2, <2>3
<1>12. CASE reg = UART0(\h00)
  <2>1. RomFields(reg, off, clock) = [TXEN |-> 0]
    BY <1>12, Distinct DEF RomFields
  <2>2. FieldNames(reg) = {"TXEN"}
    BY ONLY <1>12, RegisterFacts
  <2>3. off \in Nat /\ clock \in Nat /\ 0 \in Nat /\ 1 \in Nat
    OBVIOUS
  <2> QED BY ONLY <2>1, <2>2, <2>3
<1> QED BY <1>1, <1>2, <1>3, <1>4, <1>5, <1>6, <1>7, <1>8, <1>9, <1>10, <1>11, <1>12
        DEF Registers

(* Nothing has been called, and no PLL is in the clock tree unlocked.        *)
LEMMA InitIInv ==
  ASSUME TablesShape, Init
  PROVE  IInv
<1>1. PICK running \in BOOLEAN, clock \in {0, 1} :
        /\ mem = [reg \in Registers |-> RomFields(reg, IF running THEN 0 ELSE 1, clock)]
        /\ pll = [p \in Plls |-> [locked |-> running, fdiv |-> RomDivider]]
  BY DEF Init
<1> DEFINE off == IF running THEN 0 ELSE 1
<1>2. /\ version \in 0..2 /\ fn = "none" /\ i = 0 /\ ret = PS7_INIT_SUCCESS /\ done = "none"
      /\ calls = 0 /\ slcr_locked \in BOOLEAN /\ dci_done = FALSE /\ operating = FALSE
  BY DEF Init
<1>3. \A reg \in Registers : mem[reg] = RomFields(reg, off, clock)
                             /\ mem[reg] \in [FieldNames(reg) -> Nat]
  BY <1>1, RomFieldsOK
<1>4. MemOK
  BY <1>1, <1>3 DEF MemOK
<1>5. ControlOK
  BY <1>2, Ps7Assumption DEF ControlOK
<1>6. HardwareOK
  BY <1>1, <1>2 DEF HardwareOK, RomDivider
<1>7. \A p \in Plls : /\ Field(Ctrl[p], "PLL_BYPASS_FORCE") = off
                      /\ Field(Ctrl[p], "PLL_RESET") = off /\ pll[p].locked = running
  <2> SUFFICES ASSUME NEW p \in Plls
               PROVE  /\ Field(Ctrl[p], "PLL_BYPASS_FORCE") = off
                      /\ Field(Ctrl[p], "PLL_RESET") = off /\ pll[p].locked = running
    OBVIOUS
  <2>1. mem[Ctrl[p]] = [PLL_FDIV |-> RomDivider, PLL_BYPASS_FORCE |-> off, PLL_RESET |-> off]
    <3>1. RomFields(Ctrl[p], off, clock) =
            [PLL_FDIV |-> RomDivider, PLL_BYPASS_FORCE |-> off, PLL_RESET |-> off]
      <4>1. Ctrl[p] \in PllCtrls
        BY CtrlDistinct
      <4> QED BY <4>1, Distinct DEF RomFields
    <3> QED BY <1>3, <3>1, CtrlDistinct
  <2> QED BY <1>1, <2>1 DEF Field
<1>8. AnswersHold /\ ClocksFromLockedPll
  BY <1>2, <1>7 DEF AnswersHold, ClocksFromLockedPll
<1>9. \A n, k : ~Passed(n, k)
  BY <1>2 DEF Passed
<1>10. KeyInv /\ SuccessMeansUp
  BY <1>2 DEF KeyInv, SuccessMeansUp
<1>11. \A p \in Plls : PllInv(p)
  BY <1>9 DEF PllInv
<1>12. ClockInv /\ DdrInv /\ PeripheralsInv
  BY <1>2, <1>9 DEF ClockInv, DdrInv, PeripheralsInv
<1> QED BY <1>4, <1>5, <1>6, <1>8, <1>10, <1>11, <1>12 DEF IInv

(* Every step keeps the invariant.                                           *)
LEMMA NextIInv ==
  ASSUME TablesShape, IInv, [Next]_vars
  PROVE  IInv'
<1>1. CASE Cpu
  BY <1>1, ExitStep, MaskWriteStep, WriteStep, PollEndsStep, PollAgainStep, PollTimesOutStep
     DEF Cpu
<1>2. CASE ps7_init \/ ps7_post_config \/ ps7_debug
  BY <1>2, CallsStep
<1>3. CASE Hardware
  BY <1>3, HardwareStep
<1>4. CASE UNCHANGED vars
  <2>1. /\ UNCHANGED <<version, fn, tables, ptr, i, ret, done, calls, slcr_locked, mem>>
        /\ UNCHANGED <<pll, dci_done, operating>>
    BY <1>4 DEF vars, cpuVars, hardwareVars
  <2>2. InitTables' = InitTables /\ TheFive' = TheFive /\ PostConfigTable' = PostConfigTable
        /\ DebugTable' = DebugTable
    BY <2>1, SameTables
  <2>3. \A n, k : Passed(n, k)' <=> Passed(n, k)
    BY <2>1 DEF Passed, Stage
  <2>4. ControlOK' /\ KeyInv' /\ SuccessMeansUp'
    BY <2>1, <2>2 DEF IInv, ControlOK, KeyInv, SuccessMeansUp, Stage, Field
  <2>5. MemOK' /\ HardwareOK' /\ AnswersHold' /\ ClocksFromLockedPll'
    BY <2>1 DEF IInv, MemOK, HardwareOK, AnswersHold, ClocksFromLockedPll, Field
  <2>6. \A p \in Plls : PllInv(p)'
    BY <2>1, <2>3 DEF IInv, PllInv, Field
  <2>7. ClockInv' /\ DdrInv' /\ PeripheralsInv'
    BY <2>1, <2>2, <2>3 DEF IInv, ClockInv, DdrInv, PeripheralsInv, Field
  <2> QED BY <2>4, <2>5, <2>6, <2>7 DEF IInv, Plls
<1> QED BY <1>1, <1>2, <1>3, <1>4 DEF Next

(* The interpreter stays in its tables.                                      *)
LEMMA IInvTypeOK ==
  ASSUME TablesShape, IInv
  PROVE  TypeOK
<1>1. ControlOK /\ MemOK /\ HardwareOK
  BY DEF IInv
<1>2. /\ version \in 0..2 /\ calls \in 0..MAX_CALLS
      /\ fn \in {"none", "ps7_init", "ps7_post_config", "ps7_debug"}
      /\ done \in {"none", "ps7_init", "ps7_post_config", "ps7_debug"}
      /\ i \in 0..PS7_MASK_POLL_TIME /\ ret \in {PS7_INIT_SUCCESS, PS7_INIT_TIMEOUT}
      /\ slcr_locked \in BOOLEAN /\ dci_done \in BOOLEAN /\ operating \in BOOLEAN
  BY <1>1 DEF ControlOK, HardwareOK
<1>3. ASSUME fn # "none"
      PROVE  /\ tables # <<>> /\ ptr \in DOMAIN Head(tables)
             /\ Instruction.opcode \in {"EXIT", "WRITE", "MASKWRITE", "MASKPOLL"}
  <2>1. /\ tables # <<>> /\ WellFormed(Head(tables)) /\ ptr \in 1..Len(Head(tables))
        /\ Instruction = Head(tables)[ptr]
    BY <1>1, <1>3, UnderWay
  <2> QED BY <2>1 DEF WellFormed, Opcodes
<1>4. \A p \in Plls : pll[p].locked \in BOOLEAN /\ pll[p].fdiv \in Nat
  BY <1>1 DEF HardwareOK
<1>5. \A reg \in DOMAIN mem : \A f \in DOMAIN mem[reg] : mem[reg][f] \in Nat
  BY <1>1 DEF MemOK
<1> QED BY <1>2, <1>3, <1>4, <1>5 DEF TypeOK
-----------------------------------------------------------------------------
(* What is let go, and the theorems.                                         *)

(* A write lets go only what has what it needs.                              *)
LEMMA ReleaseStep ==
  ASSUME TablesShape, IInv, MaskWrite
  PROVE  /\ Rises(DDRC(\h000), "reg_ddrc_soft_rstb", 1) =>
              DdrClocked /\ dci_done /\ pll["DDR"].fdiv = Field(Ctrl["DDR"], "PLL_FDIV")
         /\ Rises(SLCR(\hB48), "IBUF_DISABLE_MODE", 1) => operating
         /\ Rises(SLCR(\h240), "FPGA_OUT_RST", 0) => Field(SLCR(\h900), "USER_LVL_EN") = 1
<1>1. /\ Executes("MASKWRITE") /\ fn # "none" /\ ControlOK /\ DdrInv /\ ClockInv
      /\ PeripheralsInv /\ PllInv("DDR")
  BY DEF MaskWrite, Executes, IInv, Plls
<1>2. PICK n : n = Len(InitTables[4])
  OBVIOUS
<1>3. /\ Passed(4, n - 3) => dci_done
      /\ Passed(4, n - 1) => operating
  BY <1>1, <1>2 DEF DdrInv
<1>4. n \in Nat /\ n > 4
  BY <1>2 DEF TablesShape, InitTablesShape, DdrShape
<1>5. ASSUME Rises(DDRC(\h000), "reg_ddrc_soft_rstb", 1)
      PROVE  DdrClocked /\ dci_done /\ pll["DDR"].fdiv = Field(Ctrl["DDR"], "PLL_FDIV")
  <2>1. mem[DDRC(\h000)]["reg_ddrc_soft_rstb"] # 1 /\ mem'[DDRC(\h000)]["reg_ddrc_soft_rstb"] = 1
    BY <1>5 DEF Rises, Field
  <2>2. DDRC(\h000) \in Registers /\ FieldNames(DDRC(\h000)) = {"reg_ddrc_soft_rstb"}
    BY RegisterFacts
  <2>3. Sets(Instruction, DDRC(\h000))
    BY <2>1, <2>2, MaskWriteEffect
  <2>4. mem'[DDRC(\h000)] = [f \in {"reg_ddrc_soft_rstb"} |->
             IF f \in DOMAIN Instruction.fields
             THEN Instruction.fields[f] ELSE mem[DDRC(\h000)][f]]
    BY <2>2, <2>3, MaskWriteEffect
  <2>5. Instruction.fields # [reg_ddrc_soft_rstb |-> 0]
    BY <2>1, <2>4
  <2>6. fn = "ps7_init" /\ Stage = 4 /\ ptr = n - 2
    BY <1>1, <1>2, <2>3, <2>5, WriteOfDdr
  <2>7. Passed(4, n - 3)
    BY <1>4, <2>6 DEF Passed
  <2>8. \A k : Passed(2, k)
    BY <2>6 DEF Passed
  <2>9. pll["DDR"].locked /\ Field(Ctrl["DDR"], "PLL_BYPASS_FORCE") = 0
        /\ pll["DDR"].fdiv = Field(Ctrl["DDR"], "PLL_FDIV")
    BY <1>1, <2>8 DEF PllInv
  <2>10. Field(SLCR(\h124), "DDR_3XCLKACT") = 1 /\ Field(SLCR(\h124), "DDR_2XCLKACT") = 1
    BY <1>1, <2>8 DEF ClockInv
  <2> QED BY <1>3, <2>7, <2>9, <2>10 DEF DdrClocked
<1>6. ASSUME Rises(SLCR(\hB48), "IBUF_DISABLE_MODE", 1)
      PROVE  operating
  <2>1. mem[SLCR(\hB48)]["IBUF_DISABLE_MODE"] # 1 /\ mem'[SLCR(\hB48)]["IBUF_DISABLE_MODE"] = 1
    BY <1>6 DEF Rises, Field
  <2>2. SLCR(\hB48) \in Registers /\ FieldNames(SLCR(\hB48)) = {"IBUF_DISABLE_MODE"}
    BY RegisterFacts
  <2>3. Sets(Instruction, SLCR(\hB48))
    BY <2>1, <2>2, MaskWriteEffect
  <2>4. mem'[SLCR(\hB48)] = [f \in {"IBUF_DISABLE_MODE"} |->
             IF f \in DOMAIN Instruction.fields
             THEN Instruction.fields[f] ELSE mem[SLCR(\hB48)][f]]
    BY <2>2, <2>3, MaskWriteEffect
  <2>5. Instruction.fields["IBUF_DISABLE_MODE"] # 0
    BY <2>1, <2>4
  <2>6. fn = "ps7_init" /\ Stage \in {1, 5}
    BY <1>1, <2>2, <2>3, WhoSets
  <2>7. Stage # 1
    <3>1. SUFFICES ASSUME Stage = 1 PROVE FALSE
      OBVIOUS
    <3>2. Instruction = InitTables[1][ptr] /\ ptr \in 1..Len(InitTables[1])
      BY <1>1, <2>6, <3>1, Position
    <3>3. BuffersStayOn(InitTables[1])
      BY DEF TablesShape, InitTablesShape, MioShape
    <3> QED BY <2>3, <2>5, <3>2, <3>3 DEF BuffersStayOn
  <2>8. Passed(4, n - 1)
    BY <2>6, <2>7 DEF Passed
  <2> QED BY <1>3, <2>8
<1>7. ASSUME Rises(SLCR(\h240), "FPGA_OUT_RST", 0)
      PROVE  Field(SLCR(\h900), "USER_LVL_EN") = 1
  <2>1. mem[SLCR(\h240)]["FPGA_OUT_RST"] # 0 /\ mem'[SLCR(\h240)]["FPGA_OUT_RST"] = 0
    BY <1>7 DEF Rises, Field
  <2>2. SLCR(\h240) \in Registers
    BY RegisterFacts
  <2>3. Sets(Instruction, SLCR(\h240))
    BY <2>1, <2>2, MaskWriteEffect
  <2>4. fn = "ps7_post_config"
    BY <1>1, <2>2, <2>3, WhoSets
  <2>5. Head(tables) = PostConfigTable
    BY <1>1, <2>4 DEF ControlOK
  <2>6. ptr \in 1..Len(PostConfigTable) /\ Instruction = PostConfigTable[ptr]
    BY <1>1, <2>5, UnderWay
  <2>7. \A k \in 1..Len(PostConfigTable) : Sets(PostConfigTable[k], SLCR(\h240)) => k > 2
    BY DEF TablesShape, PostConfigShape
  <2>8. 2 < ptr
    BY <2>3, <2>6, <2>7
  <2> QED BY <1>1, <2>4, <2>8 DEF PeripheralsInv
<1> QED BY <1>5, <1>6, <1>7

(* Nothing else writes a register.                                           *)
LEMMA OnlyMaskWrite ==
  ASSUME [Next]_vars, ~MaskWrite
  PROVE  mem' = mem
  BY DEF Next, Cpu, Hardware, Exit, Write, PollEnds, PollAgain, PollTimesOut, Finish,
         ps7_init, ps7_post_config, ps7_debug, Call, vars

(* The invariant holds, whatever the hardware answers and however often      *)
(* ps7_init is called.                                                       *)
THEOREM Invariance == Spec => []IInv
<1>1. Init => IInv
  BY Shapes, InitIInv
<1>2. IInv /\ [Next]_vars => IInv'
  BY Shapes, NextIInv
<1> QED BY <1>1, <1>2, PTL DEF Spec

(* The interpreter stays inside the tables of its silicon version and finds  *)
(* an instruction it knows.                                                  *)
THEOREM TypeCorrect == Spec => []TypeOK
<1>1. IInv => TypeOK
  BY Shapes, IInvTypeOK
<1> QED BY <1>1, Invariance, PTL

(* No write of a table is lost or harmful: the SLCR is unlocked, the DDR     *)
(* controller is in reset, the bus clock of the peripheral runs.             *)
THEOREM EveryWriteTakesEffect == Spec => []WritesTakeEffect
<1>1. IInv => WritesTakeEffect
  BY Shapes, WritesArrive
<1> QED BY <1>1, Invariance, PTL

(* No part of the processing system is clocked by a PLL without a lock.      *)
THEOREM LockedClocks == Spec => []ClocksFromLockedPll
<1>1. IInv => ClocksFromLockedPll
  BY DEF IInv
<1> QED BY <1>1, Invariance, PTL

(* Success of ps7_init means that all it set up is up, with the values of    *)
(* this call.                                                                *)
THEOREM SuccessIsUp == Spec => []SuccessMeansUp
<1>1. IInv => SuccessMeansUp
  BY DEF IInv
<1> QED BY <1>1, Invariance, PTL

(* The DDR controller, the input buffers and the fabric are let go only      *)
(* after what they need.                                                     *)
THEOREM ReleasedInOrder == Spec => ReleaseOrder
<1> DEFINE Ordered ==
      /\ Rises(DDRC(\h000), "reg_ddrc_soft_rstb", 1) =>
           DdrClocked /\ dci_done /\ pll["DDR"].fdiv = Field(Ctrl["DDR"], "PLL_FDIV")
      /\ Rises(SLCR(\hB48), "IBUF_DISABLE_MODE", 1) => operating
      /\ Rises(SLCR(\h240), "FPGA_OUT_RST", 0) => Field(SLCR(\h900), "USER_LVL_EN") = 1
<1>1. IInv /\ [Next]_vars => Ordered
  <2> SUFFICES ASSUME IInv, [Next]_vars
               PROVE  Ordered
    OBVIOUS
  <2>1. CASE MaskWrite
    BY <2>1, Shapes, ReleaseStep
  <2>2. CASE ~MaskWrite
    BY <2>2, OnlyMaskWrite DEF Rises, Field
  <2> QED BY <2>1, <2>2
<1>2. IInv /\ [Next]_vars => [Ordered]_vars
  BY <1>1
<1>3. Spec => [][Ordered]_vars
  BY <1>2, Invariance, PTL DEF Spec
<1> QED BY <1>3 DEF ReleaseOrder

=============================================================================
