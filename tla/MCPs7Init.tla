----------------------------- MODULE MCPs7Init -----------------------------
(* The tables of this repository, all three silicon versions.               *)
EXTENDS Ps7Tables1, Ps7Order

AllTables ==
  <<[mio |-> ps7_mio_init_data_1_0, pll |-> ps7_pll_init_data_1_0,
     clock |-> ps7_clock_init_data_1_0, ddr |-> ps7_ddr_init_data_1_0,
     peripherals |-> ps7_peripherals_init_data_1_0,
     post |-> ps7_post_config_1_0, debug |-> ps7_debug_1_0],
    [mio |-> ps7_mio_init_data_2_0, pll |-> ps7_pll_init_data_2_0,
     clock |-> ps7_clock_init_data_2_0, ddr |-> ps7_ddr_init_data_2_0,
     peripherals |-> ps7_peripherals_init_data_2_0,
     post |-> ps7_post_config_2_0, debug |-> ps7_debug_2_0],
    [mio |-> ps7_mio_init_data_3_0, pll |-> ps7_pll_init_data_3_0,
     clock |-> ps7_clock_init_data_3_0, ddr |-> ps7_ddr_init_data_3_0,
     peripherals |-> ps7_peripherals_init_data_3_0,
     post |-> ps7_post_config_3_0, debug |-> ps7_debug_3_0]>>

\* The kept fields as the boot ROM leaves them (external): PLLs running at
\* their reset dividers, all gates open, everything in reset or disabled.
Slow == Clk(TRUE, "IO", 63)

MCPowerOn ==
  [ARM_FDIV |-> 26, ARM_BYPASS |-> 0, ARM_RESET |-> 0,
   DDR_FDIV |-> 26, DDR_BYPASS |-> 0, DDR_RESET |-> 0,
   IO_FDIV |-> 26, IO_BYPASS |-> 0, IO_RESET |-> 0,
   CPU |-> Clk(TRUE, "ARM", 4), DDR_3X |-> Clk(TRUE, "DDR", 4),
   DDR_2X |-> Clk(TRUE, "DDR", 6), DCI |-> Slow, ENET0 |-> Slow,
   QSPI |-> Slow, SDIO |-> Slow, UART |-> Slow, CAN |-> Slow, PCAP |-> Slow,
   FPGA0 |-> Slow, FPGA1 |-> Slow, FPGA2 |-> Slow,
   GATES |-> {"dma", "usb0", "usb1", "gem0", "gem1", "sdi0", "sdi1", "spi0",
              "spi1", "can0", "can1", "i2c0", "i2c1", "uart0", "uart1", "gpio",
              "qspi", "smc"},
   DCI_RESET |-> 0, DCI_ENABLE |-> 0, DDRC_RSTB |-> 0,
   GPIO_DIR |-> {}, GPIO_OEN |-> {}, GPIO7 |-> 0, GPIO11 |-> 0, GPIO13 |-> 0,
   LEVEL_SHIFTERS |-> 0, FPGA_RESET |-> 15]
=============================================================================
