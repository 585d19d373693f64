------------------------------- MODULE Ps7Ops -------------------------------
(***************************************************************************)
(* The instructions of the tables that ps7_init.c interprets, as the EMIT_ *)
(* macros of ps7_init.h make them.  A register is its block and its offset *)
(* in it; the bits of a word are grouped in the fields the comments of the *)
(* tables name, and a masked write carries fields under its mask: the ones *)
(* that say what it is for.  A register whose fields tune something and no *)
(* other part looks at is only listed (Config).                            *)
(***************************************************************************)
EXTENDS Integers, Sequences

EMIT_EXIT                   == [opcode |-> "EXIT"]
EMIT_WRITE(reg, fields)     == [opcode |-> "WRITE", reg |-> reg, fields |-> fields]
EMIT_MASKWRITE(reg, fields) == [opcode |-> "MASKWRITE", reg |-> reg, fields |-> fields]
EMIT_MASKPOLL(reg, status)  == [opcode |-> "MASKPOLL", reg |-> reg, status |-> status]

SLCR(offset)  == <<"SLCR", offset>>      (* F8000000 *)
DDRC(offset)  == <<"DDRC", offset>>      (* F8006000 *)
UART0(offset) == <<"UART0", offset>>     (* E0000000 *)
MIO(pin)      == SLCR(\h700 + 4 * pin)

NoFields == [f \in {} |-> 0]

(* Masked writes to the registers of `block` at `offsets`.                   *)
Config(block, offsets) ==
  [i \in DOMAIN offsets |-> EMIT_MASKWRITE(<<block, offsets[i]>>, NoFields)]

(* The offsets of consecutive registers.                                     *)
From(first, last) == [i \in 1..((last - first) \div 4 + 1) |-> first + 4 * (i - 1)]

(* The same fields for the pins first..last.                                 *)
Pins(first, last, fields) ==
  [i \in 1..(last - first + 1) |-> EMIT_MASKWRITE(MIO(first + i - 1), fields)]

(* What a pin is connected to; a pin without a selected layer is a GPIO.     *)
GPIO    == [TRI_ENABLE |-> 0, L0_SEL |-> 0, L3_SEL |-> 0]
L0      == [GPIO EXCEPT !.L0_SEL = 1]
L3(sel) == [GPIO EXCEPT !.L3_SEL = sel]
Input(fields) == [fields EXCEPT !.TRI_ENABLE = 1]

Unlock == EMIT_WRITE(SLCR(\h008), [UNLOCK_KEY |-> \hDF0D])
Lock   == EMIT_WRITE(SLCR(\h004), [LOCK_KEY |-> \h767B])

(* Mutant: the table is written without the key.                             *)
StillLocked(body) == body \o <<Lock>>

(* The registers of the SLCR take writes between these two.                  *)
Unlocked(body) == <<Unlock>> \o body \o <<Lock>>

(* Mutant: the PLL is bypassed and given a new divider, but not reset.       *)
PLL_INIT_without_reset(ctrl, cfg, fdiv, lock) ==
  << EMIT_MASKWRITE(SLCR(cfg), NoFields),
     EMIT_MASKWRITE(SLCR(ctrl), [PLL_FDIV |-> fdiv]),
     EMIT_MASKWRITE(SLCR(ctrl), [PLL_BYPASS_FORCE |-> 1]),
     EMIT_MASKPOLL(SLCR(\h10C), lock),
     EMIT_MASKWRITE(SLCR(ctrl), [PLL_BYPASS_FORCE |-> 0]) >>

(* Mutant: the bypass is removed before the lock is seen.                    *)
PLL_INIT_early(ctrl, cfg, fdiv, lock) ==
  << EMIT_MASKWRITE(SLCR(cfg), NoFields),
     EMIT_MASKWRITE(SLCR(ctrl), [PLL_FDIV |-> fdiv]),
     EMIT_MASKWRITE(SLCR(ctrl), [PLL_BYPASS_FORCE |-> 1]),
     EMIT_MASKWRITE(SLCR(ctrl), [PLL_RESET |-> 1]),
     EMIT_MASKWRITE(SLCR(ctrl), [PLL_RESET |-> 0]),
     EMIT_MASKWRITE(SLCR(ctrl), [PLL_BYPASS_FORCE |-> 0]),
     EMIT_MASKPOLL(SLCR(\h10C), lock) >>

(* A PLL gets a new feedback divider: under bypass and reset, and back into  *)
(* the clock tree when its lock bit has been seen.                           *)
PLL_INIT(ctrl, cfg, fdiv, lock) ==
  << EMIT_MASKWRITE(SLCR(cfg), NoFields),
     EMIT_MASKWRITE(SLCR(ctrl), [PLL_FDIV |-> fdiv]),
     EMIT_MASKWRITE(SLCR(ctrl), [PLL_BYPASS_FORCE |-> 1]),
     EMIT_MASKWRITE(SLCR(ctrl), [PLL_RESET |-> 1]),
     EMIT_MASKWRITE(SLCR(ctrl), [PLL_RESET |-> 0]),
     EMIT_MASKPOLL(SLCR(\h10C), lock),
     EMIT_MASKWRITE(SLCR(ctrl), [PLL_BYPASS_FORCE |-> 0]) >>

(* The reset of the DDR controller, whose release comes last.                *)
SoftReset(rstb) == EMIT_MASKWRITE(DDRC(\h000), [reg_ddrc_soft_rstb |-> rstb])

(* Mutant: the controller is released and the calibration looked at after.   *)
DdrReleasedEarly ==
  << SoftReset(1), EMIT_MASKPOLL(SLCR(\hB74), "DONE"),
     EMIT_MASKPOLL(DDRC(\h054), "ddrc_reg_operating_mode") >>

DdrReleased ==
  << EMIT_MASKPOLL(SLCR(\hB74), "DONE"), SoftReset(1),
     EMIT_MASKPOLL(DDRC(\h054), "ddrc_reg_operating_mode") >>

=============================================================================
