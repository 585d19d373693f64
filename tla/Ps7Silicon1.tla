----------------------------- MODULE Ps7Silicon1 -----------------------------
(***************************************************************************)
(* The tables of ps7_init.c for the processing system                      *)
(* of silicon version 1.0.                                                 *)
(***************************************************************************)
EXTENDS Ps7Ops

(* The PLLs and the clocks made of them.                                     *)

ArmPllInit == PLL_INIT(\h100, \h110, \h28, "ARM_PLL_LOCK") \o Config("SLCR", <<\h120>>)

DdrPllInit ==
  PLL_INIT(\h104, \h114, \h30, "DDR_PLL_LOCK")
    \o <<EMIT_MASKWRITE(SLCR(\h124), [DDR_3XCLKACT |-> 1, DDR_2XCLKACT |-> 1])>>

IoPllInit == PLL_INIT(\h108, \h118, \h1E, "IO_PLL_LOCK")

ps7_pll_init_data == Unlocked(ArmPllInit \o DdrPllInit \o IoPllInit) \o <<EMIT_EXIT>>

ps7_clock_init_data ==
  Unlocked(<<EMIT_MASKWRITE(SLCR(\h128), [CLKACT |-> 1])>>
           \o Config("SLCR", <<\h138, \h140, \h14C, \h150>>)
           \o <<EMIT_MASKWRITE(SLCR(\h154), [CLKACT0 |-> 1, CLKACT1 |-> 0])>>
           \o Config("SLCR", <<\h168, \h170, \h180, \h1C4>>)
           \o <<EMIT_MASKWRITE(SLCR(\h12C), [UART0_CPU_1XCLKACT |-> 1,
                                             LQSPI_CPU_1XCLKACT |-> 1])>>
           \o Config("SLCR", <<\h304>>))
    \o <<EMIT_EXIT>>

-----------------------------------------------------------------------------
(* The DDR controller, held in reset while it is configured.                 *)

DdrTiming      == Config("DDRC", From(\h004, \h020))
DdrMode        == Config("DDRC", From(\h024, \h040))
DdrOdt         == Config("DDRC", <<\h044, \h048, \h050, \h058, \h05C>>)
DdrScheduler   == Config("DDRC", From(\h060, \h06C))
DdrRefresh     == Config("DDRC", <<\h0A0, \h0A4, \h0A8, \h0AC, \h0B0, \h0B4, \h0B8>>)
DdrEcc         == Config("DDRC", <<\h0C4, \h0C8, \h0DC, \h0F0, \h0F4>>)
PhySlices      == Config("DDRC", From(\h114, \h124) \o From(\h12C, \h138))
PhyReadRatios  == Config("DDRC", From(\h140, \h14C) \o From(\h154, \h160)
                                 \o From(\h168, \h174))
PhyWriteRatios == Config("DDRC", From(\h17C, \h188) \o <<\h190, \h194>>)
DdrPorts       == Config("DDRC", From(\h204, \h224))
DdrLpddr       == Config("DDRC", From(\h2A8, \h2B4))

ps7_ddr_init_data ==
  <<SoftReset(0)>>
    \o DdrTiming \o DdrMode \o DdrOdt \o DdrScheduler \o DdrRefresh \o DdrEcc
    \o PhySlices \o PhyReadRatios \o PhyWriteRatios \o DdrPorts \o DdrLpddr
    \o DdrReleased
    \o <<EMIT_EXIT>>

-----------------------------------------------------------------------------
(* The pads of the DDR, their impedance calibration, and the pins.           *)

BuffersOn  == [IBUF_DISABLE_MODE |-> 0, TERM_DISABLE_MODE |-> 0]
BuffersOff == [IBUF_DISABLE_MODE |-> 1, TERM_DISABLE_MODE |-> 1]

DdrPads  == [i \in 1..7 |-> EMIT_MASKWRITE(SLCR(\hB3C + 4 * i), BuffersOn)]
DdrDrive == Config("SLCR", From(\hB5C, \hB6C))

DciCalibration ==
  << EMIT_MASKWRITE(SLCR(\hB70), [RESET |-> 1, reserved_VRN_OUT |-> 1]),
     EMIT_MASKWRITE(SLCR(\hB70), [RESET |-> 0, reserved_VRN_OUT |-> 1]),
     EMIT_MASKWRITE(SLCR(\hB70), [RESET |-> 1, ENABLE |-> 1, reserved_VRN_OUT |-> 1]) >>

QspiPins   == Pins(0, 0, GPIO) \o Pins(1, 6, L0) \o Pins(7, 7, GPIO) \o Pins(8, 8, L0)
FreePins   == Pins(9, 13, GPIO)
I2cPins    == Pins(14, 15, L3(2))
EnetTxPins == Pins(16, 21, L0)
EnetRxPins == Pins(22, 27, Input(L0))
GpioPins   == Pins(28, 29, GPIO)
TtcPins    == Pins(30, 30, L3(6)) \o Pins(31, 31, Input(L3(6)))
PulledUp   == Pins(32, 39, GPIO)
SdioPins   == Pins(40, 45, L3(4))
UartPins   == Pins(46, 46, Input(L3(7))) \o Pins(47, 47, L3(7))
LastGpio   == Pins(48, 51, GPIO)
MdioPins   == Pins(52, 53, L3(4))

ps7_mio_init_data ==
  Unlocked(DdrPads \o DdrDrive \o DciCalibration
           \o QspiPins \o FreePins \o I2cPins \o EnetTxPins \o EnetRxPins \o GpioPins
           \o TtcPins \o PulledUp \o SdioPins \o UartPins \o LastGpio \o MdioPins
           \o Config("SLCR", <<\h830>>))
    \o <<EMIT_EXIT>>

-----------------------------------------------------------------------------
(* What is left when the DDR works, and what waits for the fabric.           *)

DdrTermination ==
  << EMIT_MASKWRITE(SLCR(\hB48), BuffersOff), EMIT_MASKWRITE(SLCR(\hB4C), BuffersOn),
     EMIT_MASKWRITE(SLCR(\hB50), BuffersOff), EMIT_MASKWRITE(SLCR(\hB54), BuffersOn) >>

UartInit ==
  Config("UART0", <<\h34, \h18>>)
    \o <<EMIT_MASKWRITE(UART0(\h00), [TXEN |-> 1, TXDIS |-> 0])>>
    \o Config("UART0", <<\h04>>)

ps7_peripherals_init_data ==
  Unlocked(DdrTermination) \o UartInit
    \o Config("QSPI", <<\h00>>) \o Config("DEVCFG", <<\h00>>) \o <<EMIT_EXIT>>

LevelShifters == <<EMIT_MASKWRITE(SLCR(\h900), [USER_LVL_EN |-> 1])>>
FpgaResets    == <<EMIT_MASKWRITE(SLCR(\h240), [FPGA_OUT_RST |-> 0])>>

ps7_post_config_data ==
  Unlocked(LevelShifters \o FpgaResets \o Config("AFI0", <<\h00, \h14>>)) \o <<EMIT_EXIT>>

(* The keys of the three cross trigger interfaces.                           *)
ps7_debug_data ==
  << EMIT_WRITE(<<"CTI", \h98FB0>>, NoFields), EMIT_WRITE(<<"CTI", \h99FB0>>, NoFields),
     EMIT_WRITE(<<"CTI", \h09FB0>>, NoFields), EMIT_EXIT >>

=============================================================================
