------------------------------- MODULE Ps7Init -------------------------------
(***************************************************************************)
(* The first code the processing system of the readout board runs out of   *)
(* the FSBL: ps7_init.c, which interprets tables of register writes and    *)
(* polls that bring up the PLLs, the clocks, the DDR memory and the UART,  *)
(* and later (ps7_post_config) let the firmware of the fabric go.          *)
(*                                                                         *)
(* A step of the processor is one instruction of a table, or one turn of   *)
(* the loop of a poll.  Between any two of them the hardware may do its    *)
(* part: lock a PLL, finish the impedance calibration, start the DDR       *)
(* controller; or never do it.  The hardware is external: what it waits    *)
(* for and what makes it start over is the order the tables keep.          *)
(***************************************************************************)
EXTENDS Ps7Ops

CONSTANTS
  PS7_MASK_POLL_TIME,    (* turns of a poll before it gives up (10^8)         *)
  MAX_CALLS              (* calls of the three functions after a power-up     *)

ASSUME Ps7Assumption == PS7_MASK_POLL_TIME \in Nat /\ MAX_CALLS \in Nat

VARIABLES
  version,        (* PS_VERSION, bits 31:28 of MCTRL: 0, 1, 2 or more         *)
  fn,             (* the function under way, or "none"                        *)
  tables,         (* its tables still to interpret, the current one first     *)
  ptr, i,         (* next instruction of that table, turns of its poll        *)
  ret,            (* what the last call returned                              *)
  done,           (* the last call that returned                              *)
  calls,          (* calls since the power-up                                 *)
  slcr_locked,    (* do the registers of the SLCR ignore writes?              *)
  mem,            (* the fields of the registers somebody reads               *)
  pll,            (* each PLL: is it locked, and with which divider           *)
  dci_done, operating      (* what the other two polls look at                *)

cpuVars      == <<fn, tables, ptr, i, ret, done>>
hardwareVars == <<pll, dci_done, operating>>
vars         == <<version, cpuVars, calls, slcr_locked, mem, hardwareVars>>

-----------------------------------------------------------------------------

Silicon1 == INSTANCE Ps7Silicon1
Silicon2 == INSTANCE Ps7Silicon2
Silicon3 == INSTANCE Ps7Silicon3

PCW_SILICON_VERSION_1 == 0
PCW_SILICON_VERSION_2 == 1

PS7_INIT_SUCCESS == 0
PS7_INIT_TIMEOUT == 2

(* The pointers ps7_init sets, in the order it uses them.                    *)
InitTables ==
  CASE version = PCW_SILICON_VERSION_1 ->
         <<Silicon1!ps7_mio_init_data, Silicon1!ps7_pll_init_data,
           Silicon1!ps7_clock_init_data, Silicon1!ps7_ddr_init_data,
           Silicon1!ps7_peripherals_init_data>>
    [] version = PCW_SILICON_VERSION_2 ->
         <<Silicon2!ps7_mio_init_data, Silicon2!ps7_pll_init_data,
           Silicon2!ps7_clock_init_data, Silicon2!ps7_ddr_init_data,
           Silicon2!ps7_peripherals_init_data>>
    [] OTHER ->
         <<Silicon3!ps7_mio_init_data, Silicon3!ps7_pll_init_data,
           Silicon3!ps7_clock_init_data, Silicon3!ps7_ddr_init_data,
           Silicon3!ps7_peripherals_init_data>>

PostConfigTable ==
  CASE version = PCW_SILICON_VERSION_1 -> Silicon1!ps7_post_config_data
    [] version = PCW_SILICON_VERSION_2 -> Silicon2!ps7_post_config_data
    [] OTHER -> Silicon3!ps7_post_config_data

DebugTable ==
  CASE version = PCW_SILICON_VERSION_1 -> Silicon1!ps7_debug_data
    [] version = PCW_SILICON_VERSION_2 -> Silicon2!ps7_debug_data
    [] OTHER -> Silicon3!ps7_debug_data

-----------------------------------------------------------------------------
(* The hardware.                                                             *)

Plls == {"ARM", "DDR", "IO"}
Ctrl == [ARM |-> SLCR(\h100), DDR |-> SLCR(\h104), IO |-> SLCR(\h108)]

Field(reg, field) == mem[reg][field]

(* What a poll sees.                                                         *)
Status(status) ==
  CASE status = "ARM_PLL_LOCK" -> pll["ARM"].locked
    [] status = "DDR_PLL_LOCK" -> pll["DDR"].locked
    [] status = "IO_PLL_LOCK"  -> pll["IO"].locked
    [] status = "DONE"         -> dci_done
    [] status = "ddrc_reg_operating_mode" -> operating

(* A PLL in reset loses its lock, a calibration in reset or disabled its     *)
(* result, a DDR controller in reset stops.                                  *)
HardwareFollows ==
  /\ pll' = [p \in Plls |-> IF mem'[Ctrl[p]].PLL_RESET = 1
                            THEN [pll[p] EXCEPT !.locked = FALSE] ELSE pll[p]]
  /\ dci_done' = (dci_done /\ mem'[SLCR(\hB70)].RESET = 1 /\ mem'[SLCR(\hB70)].ENABLE = 1)
  /\ operating' = (operating /\ mem'[DDRC(\h000)].reg_ddrc_soft_rstb = 1)

(* A PLL takes its divider when it locks, and only then.                     *)
PllLocks(p) ==
  /\ ~pll[p].locked /\ Field(Ctrl[p], "PLL_RESET") = 0
  /\ pll' = [pll EXCEPT ![p] = [locked |-> TRUE, fdiv |-> Field(Ctrl[p], "PLL_FDIV")]]
  /\ UNCHANGED <<dci_done, operating>>

DdrClocked == /\ pll["DDR"].locked /\ Field(Ctrl["DDR"], "PLL_BYPASS_FORCE") = 0
              /\ Field(SLCR(\h124), "DDR_3XCLKACT") = 1
              /\ Field(SLCR(\h124), "DDR_2XCLKACT") = 1

DciCalibrated ==
  /\ ~dci_done /\ pll["DDR"].locked /\ Field(SLCR(\h128), "CLKACT") = 1
  /\ Field(SLCR(\hB70), "RESET") = 1 /\ Field(SLCR(\hB70), "ENABLE") = 1
  /\ dci_done' = TRUE
  /\ UNCHANGED <<pll, operating>>

DdrOperates ==
  /\ ~operating /\ DdrClocked /\ Field(DDRC(\h000), "reg_ddrc_soft_rstb") = 1
  /\ operating' = TRUE
  /\ UNCHANGED <<pll, dci_done>>

Hardware ==
  /\ (\E p \in Plls : PllLocks(p)) \/ DciCalibrated \/ DdrOperates
  /\ UNCHANGED <<version, cpuVars, calls, slcr_locked, mem>>

-----------------------------------------------------------------------------
(* ps7_config.                                                               *)

Instruction == Head(tables)[ptr]
Executes(opcode) == fn # "none" /\ Instruction.opcode = opcode

Continue ==
  /\ ptr' = ptr + 1 /\ i' = 0
  /\ UNCHANGED <<version, fn, tables, ret, done, calls>>

(* After which table does the caller return?                                 *)
LastTable(finish) == finish # PS7_INIT_SUCCESS \/ Len(tables) = 1

(* ps7_config returns `finish`; its caller goes on with the next table or    *)
(* returns it.                                                               *)
Finish(finish) ==
  /\ ptr' = 1 /\ i' = 0
  /\ IF LastTable(finish)
     THEN fn' = "none" /\ tables' = <<>> /\ ret' = finish /\ done' = fn
     ELSE tables' = Tail(tables) /\ UNCHANGED <<fn, ret, done>>
  /\ UNCHANGED <<version, calls, slcr_locked, mem, hardwareVars>>

Exit == Executes("EXIT") /\ Finish(PS7_INIT_SUCCESS)

IsSlcr(reg) == reg[1] = "SLCR"

(* A write that reaches its register; the other fields of the register, and  *)
(* all fields nobody reads, are left out.                                    *)
Store(reg, fields) ==
  /\ mem' = IF reg \in DOMAIN mem /\ ~(IsSlcr(reg) /\ slcr_locked)
            THEN [mem EXCEPT ![reg] = [f \in DOMAIN @ |-> IF f \in DOMAIN fields
                                                          THEN fields[f] ELSE @[f]]]
            ELSE mem
  /\ HardwareFollows

MaskWrite ==
  /\ Executes("MASKWRITE")
  /\ Store(Instruction.reg, Instruction.fields)
  /\ Continue
  /\ UNCHANGED slcr_locked

(* The tables write whole words only to the two keys of the SLCR and to the  *)
(* keys of the trace components, which nothing here depends on.              *)
Write ==
  /\ Executes("WRITE")
  /\ slcr_locked' = IF Instruction.reg = Unlock.reg THEN FALSE
                    ELSE IF Instruction.reg = Lock.reg THEN TRUE ELSE slcr_locked
  /\ Continue
  /\ UNCHANGED <<mem, hardwareVars>>

PollSeen == Executes("MASKPOLL") /\ Status(Instruction.status)

PollEnds ==
  /\ PollSeen
  /\ Continue
  /\ UNCHANGED <<slcr_locked, mem, hardwareVars>>

(* Mutant: the turns of a poll are not counted.                              *)
NotCounted(n) == n

Counted(n) == n + 1

(* Mutant: one turn too many.                                                *)
TimedOutLate == i = PS7_MASK_POLL_TIME + 1

TimedOut == i = PS7_MASK_POLL_TIME

PollAgain ==
  /\ Executes("MASKPOLL") /\ ~Status(Instruction.status)
  /\ ~TimedOut
  /\ i' = Counted(i)
  /\ UNCHANGED <<version, fn, tables, ptr, ret, done, calls, slcr_locked, mem,
                 hardwareVars>>

PollTimesOut ==
  /\ Executes("MASKPOLL") /\ ~Status(Instruction.status)
  /\ TimedOut
  /\ Finish(PS7_INIT_TIMEOUT)

Cpu == Exit \/ MaskWrite \/ Write \/ PollEnds \/ PollAgain \/ PollTimesOut

-----------------------------------------------------------------------------
(* Calls.  Nothing in the code keeps ps7_init from being called again, after *)
(* a failure or after a success.  The other two are for a system that is up. *)

Call(f, ts) ==
  /\ fn = "none" /\ calls < MAX_CALLS
  /\ calls' = calls + 1
  /\ fn' = f /\ tables' = ts /\ ptr' = 1 /\ i' = 0
  /\ UNCHANGED <<version, ret, done, slcr_locked, mem, hardwareVars>>

IsUp == done # "none" /\ ret = PS7_INIT_SUCCESS

ps7_init        == Call("ps7_init", InitTables)
ps7_post_config == IsUp /\ Call("ps7_post_config", <<PostConfigTable>>)
ps7_debug       == IsUp /\ Call("ps7_debug", <<DebugTable>>)

(* What the boot ROM leaves: every PLL bypassed and in reset, or all of them *)
(* running at a divider of its own; the SLCR locked or not; clocks of        *)
(* peripherals on or off.  The DDR, the UART and the fabric are in reset.    *)
RomDivider == 0

PllCtrls == {Ctrl[p] : p \in Plls}

(* The registers somebody reads, and the fields of each that somebody does.  *)
Registers ==
  PllCtrls
    \cup {SLCR(\h124), SLCR(\h128), SLCR(\h12C), SLCR(\h154), MIO(46), MIO(47),
          SLCR(\hB48), SLCR(\hB50), SLCR(\hB70), SLCR(\h900), SLCR(\h240),
          DDRC(\h000), UART0(\h00)}

RomFields(reg, off, clock) ==
  CASE reg \in PllCtrls ->
         [PLL_FDIV |-> RomDivider, PLL_BYPASS_FORCE |-> off, PLL_RESET |-> off]
    [] reg = SLCR(\h124) -> [DDR_3XCLKACT |-> 0, DDR_2XCLKACT |-> 0]
    [] reg = SLCR(\h128) -> [CLKACT |-> 0]
    [] reg = SLCR(\h12C) -> [UART0_CPU_1XCLKACT |-> clock, LQSPI_CPU_1XCLKACT |-> clock]
    [] reg = SLCR(\h154) -> [CLKACT0 |-> clock]
    [] reg \in {MIO(46), MIO(47)} -> [TRI_ENABLE |-> 1, L3_SEL |-> 0]
    [] reg \in {SLCR(\hB48), SLCR(\hB50)} -> [IBUF_DISABLE_MODE |-> 0]
    [] reg = SLCR(\hB70) -> [RESET |-> 0, ENABLE |-> 0]
    [] reg = SLCR(\h900) -> [USER_LVL_EN |-> 0]
    [] reg = SLCR(\h240) -> [FPGA_OUT_RST |-> 1]
    [] reg = DDRC(\h000) -> [reg_ddrc_soft_rstb |-> 0]
    [] reg = UART0(\h00) -> [TXEN |-> 0]

Init ==
  /\ version \in 0..2
  /\ fn = "none" /\ tables = <<>> /\ ptr = 1 /\ i = 0
  /\ ret = PS7_INIT_SUCCESS /\ done = "none" /\ calls = 0
  /\ slcr_locked \in BOOLEAN
  /\ \E running \in BOOLEAN, clock \in {0, 1} :
       /\ mem = [reg \in Registers |-> RomFields(reg, IF running THEN 0 ELSE 1, clock)]
       /\ pll = [p \in Plls |-> [locked |-> running, fdiv |-> RomDivider]]
  /\ dci_done = FALSE /\ operating = FALSE

Next == ps7_init \/ ps7_post_config \/ ps7_debug \/ Cpu \/ Hardware

(* The processor goes on; whether the hardware ever does its part, or        *)
(* whether anybody calls, is open.                                           *)
Spec == Init /\ [][Next]_vars /\ WF_vars(Cpu)

-----------------------------------------------------------------------------
(* Properties.                                                               *)

(* The interpreter stays inside its tables: it always finds an instruction   *)
(* it knows, every write of a field is to a register that has it, and only   *)
(* the codes for success and timeout come back.                              *)
TypeOK ==
  /\ version \in 0..2 /\ calls \in 0..MAX_CALLS
  /\ fn \in {"none", "ps7_init", "ps7_post_config", "ps7_debug"}
  /\ done \in {"none", "ps7_init", "ps7_post_config", "ps7_debug"}
  /\ fn # "none" => /\ tables # <<>> /\ ptr \in DOMAIN Head(tables)
                    /\ Instruction.opcode \in {"EXIT", "WRITE", "MASKWRITE", "MASKPOLL"}
  /\ i \in 0..PS7_MASK_POLL_TIME /\ ret \in {PS7_INIT_SUCCESS, PS7_INIT_TIMEOUT}
  /\ slcr_locked \in BOOLEAN /\ dci_done \in BOOLEAN /\ operating \in BOOLEAN
  /\ \A p \in Plls : pll[p].locked \in BOOLEAN /\ pll[p].fdiv \in Nat
  /\ \A reg \in DOMAIN mem : \A f \in DOMAIN mem[reg] : mem[reg][f] \in Nat

(* No write of a table is lost or harmful: the SLCR is unlocked when one of  *)
(* its registers is written (also after an earlier call has failed and left  *)
(* it any way), a parameter of the DDR controller changes only while the     *)
(* controller is in reset, and the registers of a peripheral are touched     *)
(* only with its bus clock running: without it the processor would hang.     *)
WritesTakeEffect ==
  Executes("MASKWRITE") =>
    LET reg == Instruction.reg
    IN /\ IsSlcr(reg) => ~slcr_locked
       /\ reg[1] = "DDRC" /\ reg # DDRC(\h000) =>
             Field(DDRC(\h000), "reg_ddrc_soft_rstb") = 0
       /\ reg[1] = "UART0" => Field(SLCR(\h12C), "UART0_CPU_1XCLKACT") = 1
       /\ reg[1] = "QSPI"  => Field(SLCR(\h12C), "LQSPI_CPU_1XCLKACT") = 1

(* The processor, the memory and the peripherals are never clocked by a PLL  *)
(* that has not locked: whatever the order in which the three lock, and      *)
(* whichever poll has given up.                                              *)
ClocksFromLockedPll ==
  \A p \in Plls : Field(Ctrl[p], "PLL_BYPASS_FORCE") = 0 => pll[p].locked

(* What is let go waits for what it needs, in another table and maybe in a   *)
(* call that failed: the DDR controller leaves its reset only with its PLL   *)
(* at the new divider, its clocks on and its pads calibrated; the input      *)
(* buffers of the pads may be switched off only when the memory works; the   *)
(* fabric leaves reset only behind its level shifters.                       *)
Rises(reg, field, value) == Field(reg, field) # value /\ mem'[reg][field] = value

ReleaseOrder ==
  [][/\ Rises(DDRC(\h000), "reg_ddrc_soft_rstb", 1) =>
          DdrClocked /\ dci_done /\ pll["DDR"].fdiv = Field(Ctrl["DDR"], "PLL_FDIV")
     /\ Rises(SLCR(\hB48), "IBUF_DISABLE_MODE", 1) => operating
     /\ Rises(SLCR(\h240), "FPGA_OUT_RST", 0) => Field(SLCR(\h900), "USER_LVL_EN") = 1]_vars

(* When ps7_init returns success everything it set up is up, with the values *)
(* of this call and not of the boot ROM: the polls have not been content     *)
(* with an old lock or an old calibration.                                   *)
SuccessMeansUp ==
  fn = "none" /\ done = "ps7_init" /\ ret = PS7_INIT_SUCCESS =>
    /\ \A p \in Plls : /\ pll[p].locked /\ pll[p].fdiv # RomDivider
                       /\ Field(Ctrl[p], "PLL_BYPASS_FORCE") = 0
    /\ operating /\ dci_done
    /\ Field(UART0(\h00), "TXEN") = 1 /\ Field(SLCR(\h154), "CLKACT0") = 1
    /\ mem[MIO(47)] = [TRI_ENABLE |-> 0, L3_SEL |-> 7]
    /\ slcr_locked

(* Every call returns, even if the hardware never answers.                   *)
Returns == (fn # "none") ~> (fn = "none")

=============================================================================
