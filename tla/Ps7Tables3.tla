----------------------------- MODULE Ps7Tables3 -----------------------------
(* The tables of ps7_init.c for silicon 3.0 (and later), in parts named for  *)
(* what they set up. Offsets are those of the addresses in the file.         *)
EXTENDS Ps7Types

-----------------------------------------------------------------------------
(* ps7_pll_init_data_3_0: each PLL gets its divider, is bypassed, reset,     *)
(* waited for and put back in use.                                           *)
pll_arm_3_0 ==
  <<EmitMaskWrite("slcr", \h110, Nothing),
    EmitMaskWrite("slcr", \h100, [ARM_FDIV |-> 40]),
    EmitMaskWrite("slcr", \h100, [ARM_BYPASS |-> 1]),
    EmitMaskWrite("slcr", \h100, [ARM_RESET |-> 1]),
    EmitMaskWrite("slcr", \h100, [ARM_RESET |-> 0]),
    EmitMaskPoll("slcr", \h10C, [ARM_LOCK |-> 1]),
    EmitMaskWrite("slcr", \h100, [ARM_BYPASS |-> 0]),
    EmitMaskWrite("slcr", \h120, [CPU |-> Clk(TRUE, "ARM", 2)])>>

pll_ddr_3_0 ==
  <<EmitMaskWrite("slcr", \h114, Nothing),
    EmitMaskWrite("slcr", \h104, [DDR_FDIV |-> 32]),
    EmitMaskWrite("slcr", \h104, [DDR_BYPASS |-> 1]),
    EmitMaskWrite("slcr", \h104, [DDR_RESET |-> 1]),
    EmitMaskWrite("slcr", \h104, [DDR_RESET |-> 0]),
    EmitMaskPoll("slcr", \h10C, [DDR_LOCK |-> 1]),
    EmitMaskWrite("slcr", \h104, [DDR_BYPASS |-> 0]),
    EmitMaskWrite("slcr", \h124, [DDR_3X |-> Clk(TRUE, "DDR", 2),
                                  DDR_2X |-> Clk(TRUE, "DDR", 3)])>>

pll_io_3_0 ==
  <<EmitMaskWrite("slcr", \h118, Nothing),
    EmitMaskWrite("slcr", \h108, [IO_FDIV |-> 30]),
    EmitMaskWrite("slcr", \h108, [IO_BYPASS |-> 1]),
    EmitMaskWrite("slcr", \h108, [IO_RESET |-> 1]),
    EmitMaskWrite("slcr", \h108, [IO_RESET |-> 0]),
    EmitMaskPoll("slcr", \h10C, [IO_LOCK |-> 1]),
    EmitMaskWrite("slcr", \h108, [IO_BYPASS |-> 0])>>

ps7_pll_init_data_3_0 ==
  <<SlcrUnlock>> \o pll_arm_3_0 \o pll_ddr_3_0 \o pll_io_3_0
    \o <<SlcrLock, EmitExit>>

-----------------------------------------------------------------------------
(* ps7_clock_init_data_3_0: reference clocks, then the gates of the          *)
(* peripherals' bus clocks (register 12C, one bit each).                     *)
clock_ref_3_0 ==
  <<EmitMaskWrite("slcr", \h128, [DCI |-> Clk(TRUE, "DDR", 15 * 7)]),
    EmitMaskWrite("slcr", \h138, Nothing),
    EmitMaskWrite("slcr", \h140, [ENET0 |-> Clk(TRUE, "IO", 8 * 5)]),
    EmitMaskWrite("slcr", \h14C, [QSPI |-> Clk(TRUE, "IO", 5)]),
    EmitMaskWrite("slcr", \h150, [SDIO |-> Clk(TRUE, "IO", 20)]),
    EmitMaskWrite("slcr", \h154, [UART |-> Clk(TRUE, "IO", 20)]),
    EmitMaskWrite("slcr", \h15C, [CAN |-> Clk(TRUE, "IO", 7 * 6)]),
    EmitMaskWrite("slcr", \h160, Nothing),
    EmitMaskWrite("slcr", \h168, [PCAP |-> Clk(TRUE, "IO", 5)])>>

clock_fpga_3_0 ==
  <<EmitMaskWrite("slcr", \h170, [FPGA0 |-> Clk(TRUE, "IO", 4 * 2)]),
    EmitMaskWrite("slcr", \h180, [FPGA1 |-> Clk(TRUE, "IO", 5 * 5)]),
    EmitMaskWrite("slcr", \h190, [FPGA2 |-> Clk(TRUE, "IO", 5 * 4)]),
    EmitMaskWrite("slcr", \h1C4, Nothing)>>

clock_gates_3_0 ==
  <<EmitMaskWrite("slcr", \h12C,
      [GATES |-> {"dma", "usb0", "usb1", "gem0", "sdi0", "can0", "i2c0",
                  "i2c1", "uart1", "gpio", "qspi", "smc"}])>>

ps7_clock_init_data_3_0 ==
  <<SlcrUnlock>> \o clock_ref_3_0 \o clock_fpga_3_0 \o clock_gates_3_0
    \o <<SlcrLock, EmitExit>>

-----------------------------------------------------------------------------
(* ps7_ddr_init_data_3_0: the controller is configured while it is in reset, *)
(* released when the impedance of the pins is calibrated, and waited for.    *)
ddr_reset_3_0 == <<EmitMaskWrite("ddrc", \h000, [DDRC_RSTB |-> 0])>>
ddr_queues_3_0 == Span("ddrc", \h004, \h010)
ddr_timing_3_0 == Span("ddrc", \h014, \h020)
ddr_mode_3_0 == Span("ddrc", \h024, \h038)
ddr_map_3_0 == Span("ddrc", \h03C, \h048)
ddr_levelling_3_0 == Span("ddrc", \h050, \h050)
                       \o Span("ddrc", \h058, \h06C)
ddr_power_3_0 == Span("ddrc", \h078, \h07C)
ddr_init_3_0 == Span("ddrc", \h0A4, \h0B8)
ddr_ecc_3_0 == Params("ddrc", <<\h0C4, \h0C8, \h0DC, \h0F0, \h0F4, \h114>>)
ddr_slices_3_0 == Span("ddrc", \h118, \h124)
ddr_gate_ratios_3_0 == Span("ddrc", \h12C, \h138)
ddr_read_ratios_3_0 == Span("ddrc", \h140, \h14C)
ddr_write_ratios_3_0 == Span("ddrc", \h154, \h160)
ddr_fifo_ratios_3_0 == Span("ddrc", \h168, \h174)
ddr_data_ratios_3_0 == Span("ddrc", \h17C, \h188)
ddr_phy_3_0 == Span("ddrc", \h190, \h194)
ddr_ports_3_0 == Span("ddrc", \h204, \h224)
ddr_lpddr_3_0 == Span("ddrc", \h2A8, \h2B4)

ddr_release_3_0 ==
  <<EmitMaskPoll("slcr", \hB74, [DCI_DONE |-> 1]),
    EmitMaskWrite("ddrc", \h000, [DDRC_RSTB |-> 1]),
    EmitMaskPoll("ddrc", \h054, [DDRC_MODE |-> 1])>>

ps7_ddr_init_data_3_0 ==
  ddr_reset_3_0 \o ddr_queues_3_0 \o ddr_timing_3_0 \o ddr_mode_3_0
    \o ddr_map_3_0 \o ddr_levelling_3_0 \o ddr_power_3_0 \o ddr_init_3_0
    \o ddr_ecc_3_0 \o ddr_slices_3_0 \o ddr_gate_ratios_3_0
    \o ddr_read_ratios_3_0 \o ddr_write_ratios_3_0 \o ddr_fifo_ratios_3_0
    \o ddr_data_ratios_3_0 \o ddr_phy_3_0 \o ddr_ports_3_0 \o ddr_lpddr_3_0
    \o ddr_release_3_0 \o <<EmitExit>>

-----------------------------------------------------------------------------
(* ps7_mio_init_data_3_0: the DDR pins and their impedance control, then the *)
(* 54 multiplexed pins.                                                      *)
ddriob_buffers_3_0 == <<EmitMaskWrite("slcr", \hB00, Nothing)>>
                        \o Span("slcr", \hB40, \hB58)
ddriob_drive_3_0 == Span("slcr", \hB5C, \hB6C)

ddriob_dci_3_0 ==
  <<EmitMaskWrite("slcr", \hB70, [DCI_RESET |-> 1]),
    EmitMaskWrite("slcr", \hB70, [DCI_RESET |-> 0]),
    EmitMaskWrite("slcr", \hB70, [DCI_RESET |-> 1, DCI_ENABLE |-> 1])>>

mio_qspi_3_0 == Pins(0, 0, "gpio_in") \o Pins(1, 6, "qspi")
mio_gpio_3_0 == Pins(7, 7, "gpio") \o Pins(8, 8, "qspi") \o Pins(9, 11, "gpio")
mio_gpio_high_3_0 == Pins(12, 14, "gpio") \o Pins(15, 15, "gpio_in")
mio_enet_tx_3_0 == Pins(16, 21, "enet0_tx")
mio_enet_rx_3_0 == Pins(22, 27, "enet0_rx")
mio_usb_low_3_0 == Pins(28, 28, "usb0") \o Pins(29, 29, "usb0_in")
                     \o Pins(30, 30, "usb0") \o Pins(31, 31, "usb0_in")
                     \o Pins(32, 32, "usb0")
mio_usb_high_3_0 == Pins(33, 35, "usb0") \o Pins(36, 36, "usb0_in")
                      \o Pins(37, 39, "usb0")
mio_sd_3_0 == Pins(40, 45, "sd0")
mio_sd_detect_3_0 == Pins(46, 46, "l3_1_in") \o Pins(47, 47, "l3_1")
mio_uart_3_0 == Pins(48, 48, "uart1_tx") \o Pins(49, 49, "uart1_rx")
mio_i2c_mdio_3_0 == Pins(50, 51, "i2c0") \o Pins(52, 53, "mdio0")
                      \o <<EmitMaskWrite("slcr", \h830, Nothing)>>

ps7_mio_init_data_3_0 ==
  <<SlcrUnlock>> \o ddriob_buffers_3_0 \o ddriob_drive_3_0 \o ddriob_dci_3_0
    \o mio_qspi_3_0 \o mio_gpio_3_0 \o mio_gpio_high_3_0 \o mio_enet_tx_3_0
    \o mio_enet_rx_3_0 \o mio_usb_low_3_0 \o mio_usb_high_3_0 \o mio_sd_3_0
    \o mio_sd_detect_3_0 \o mio_uart_3_0 \o mio_i2c_mdio_3_0
    \o <<SlcrLock, EmitExit>>

-----------------------------------------------------------------------------
(* ps7_peripherals_init_data_3_0: UART 1, the QSPI, the device configuration *)
(* block, and a reset pulse on the three GPIO pins that reset a chip.        *)
peripherals_ddriob_3_0 ==
  <<SlcrUnlock>> \o Span("slcr", \hB48, \hB54) \o <<SlcrLock>>

peripherals_uart_3_0 == Params("uart1", <<\h034, \h018, \h000, \h004>>)

peripherals_flash_3_0 == <<EmitMaskWrite("qspi", \h000, Nothing),
                           EmitMaskWrite("devcfg", \h000, Nothing)>>

\* The reset of one chip: the pin, high, then low for a millisecond, then high.
ResetPulse(high, low) ==
  <<EmitMaskWrite("gpio", \h204, [GPIO_DIR |-> {7, 11, 13}]),
    EmitMaskWrite("gpio", \h000, high),
    EmitMaskWrite("gpio", \h208, [GPIO_OEN |-> {7, 11, 13}]),
    EmitMaskWrite("gpio", \h000, low),
    EmitMaskDelay(1),
    EmitMaskWrite("gpio", \h000, high)>>

reset_usb_3_0 == ResetPulse([GPIO7 |-> 1], [GPIO7 |-> 0])
reset_enet_3_0 == ResetPulse([GPIO11 |-> 1], [GPIO11 |-> 0])
reset_i2c_3_0 == ResetPulse([GPIO13 |-> 1], [GPIO13 |-> 0])

ps7_peripherals_init_data_3_0 ==
  peripherals_ddriob_3_0 \o peripherals_uart_3_0 \o peripherals_flash_3_0
    \o reset_usb_3_0 \o reset_enet_3_0 \o reset_i2c_3_0 \o <<EmitExit>>

-----------------------------------------------------------------------------
\* The level shifters to the programmable logic on, its resets released.
ps7_post_config_3_0 ==
  <<SlcrUnlock,
    EmitMaskWrite("slcr", \h900, [LEVEL_SHIFTERS |-> 15]),
    EmitMaskWrite("slcr", \h240, [FPGA_RESET |-> 0]),
    SlcrLock, EmitExit>>

\* The cross trigger interfaces of the debugger are unlocked.
ps7_debug_3_0 ==
  <<EmitWrite("cti0", \hFB0), EmitWrite("cti1", \hFB0), EmitWrite("ftm", \hFB0),
    EmitExit>>
=============================================================================
