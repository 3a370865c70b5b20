----------------------------- MODULE Ps7Tables1 -----------------------------
(* The tables of ps7_init.c for silicon 1.0: those of 2.0, but the DDR table *)
(* leaves out two registers (078 and 07C). A mask of the DDR pins differs in *)
(* no field kept here.                                                       *)
EXTENDS Ps7Tables2

-----------------------------------------------------------------------------
pll_arm_1_0 == pll_arm_2_0
pll_ddr_1_0 == pll_ddr_2_0
pll_io_1_0 == pll_io_2_0

ps7_pll_init_data_1_0 ==
  <<SlcrUnlock>> \o pll_arm_1_0 \o pll_ddr_1_0 \o pll_io_1_0
    \o <<SlcrLock, EmitExit>>

-----------------------------------------------------------------------------
clock_ref_1_0 == clock_ref_2_0
clock_fpga_1_0 == clock_fpga_2_0
clock_gates_1_0 == clock_gates_2_0

ps7_clock_init_data_1_0 ==
  <<SlcrUnlock>> \o clock_ref_1_0 \o clock_fpga_1_0 \o clock_gates_1_0
    \o <<SlcrLock, EmitExit>>

-----------------------------------------------------------------------------
ddr_reset_1_0 == ddr_reset_2_0
ddr_queues_1_0 == ddr_queues_2_0
ddr_timing_1_0 == ddr_timing_2_0
ddr_mode_1_0 == ddr_mode_2_0
ddr_map_1_0 == ddr_map_2_0
ddr_levelling_1_0 == ddr_levelling_2_0
ddr_init_1_0 == ddr_init_2_0
ddr_ecc_1_0 == ddr_ecc_2_0
ddr_slices_1_0 == ddr_slices_2_0
ddr_gate_ratios_1_0 == ddr_gate_ratios_2_0
ddr_read_ratios_1_0 == ddr_read_ratios_2_0
ddr_write_ratios_1_0 == ddr_write_ratios_2_0
ddr_fifo_ratios_1_0 == ddr_fifo_ratios_2_0
ddr_data_ratios_1_0 == ddr_data_ratios_2_0
ddr_phy_1_0 == ddr_phy_2_0
ddr_ports_1_0 == ddr_ports_2_0
ddr_lpddr_1_0 == ddr_lpddr_2_0
ddr_release_1_0 == ddr_release_2_0

ps7_ddr_init_data_1_0 ==
  ddr_reset_1_0 \o ddr_queues_1_0 \o ddr_timing_1_0 \o ddr_mode_1_0
    \o ddr_map_1_0 \o ddr_levelling_1_0 \o ddr_init_1_0
    \o ddr_ecc_1_0 \o ddr_slices_1_0 \o ddr_gate_ratios_1_0
    \o ddr_read_ratios_1_0 \o ddr_write_ratios_1_0 \o ddr_fifo_ratios_1_0
    \o ddr_data_ratios_1_0 \o ddr_phy_1_0 \o ddr_ports_1_0 \o ddr_lpddr_1_0
    \o ddr_release_1_0 \o <<EmitExit>>

-----------------------------------------------------------------------------
ddriob_buffers_1_0 == ddriob_buffers_2_0
ddriob_drive_1_0 == ddriob_drive_2_0
ddriob_dci_1_0 == ddriob_dci_2_0
mio_qspi_1_0 == mio_qspi_2_0
mio_gpio_1_0 == mio_gpio_2_0
mio_gpio_high_1_0 == mio_gpio_high_2_0
mio_enet_tx_1_0 == mio_enet_tx_2_0
mio_enet_rx_1_0 == mio_enet_rx_2_0
mio_usb_low_1_0 == mio_usb_low_2_0
mio_usb_high_1_0 == mio_usb_high_2_0
mio_sd_1_0 == mio_sd_2_0
mio_sd_detect_1_0 == mio_sd_detect_2_0
mio_uart_1_0 == mio_uart_2_0
mio_i2c_mdio_1_0 == mio_i2c_mdio_2_0

ps7_mio_init_data_1_0 ==
  <<SlcrUnlock>> \o ddriob_buffers_1_0 \o ddriob_drive_1_0 \o ddriob_dci_1_0
    \o mio_qspi_1_0 \o mio_gpio_1_0 \o mio_gpio_high_1_0 \o mio_enet_tx_1_0
    \o mio_enet_rx_1_0 \o mio_usb_low_1_0 \o mio_usb_high_1_0 \o mio_sd_1_0
    \o mio_sd_detect_1_0 \o mio_uart_1_0 \o mio_i2c_mdio_1_0
    \o <<SlcrLock, EmitExit>>

-----------------------------------------------------------------------------
peripherals_ddriob_1_0 == peripherals_ddriob_2_0
peripherals_uart_1_0 == peripherals_uart_2_0
peripherals_flash_1_0 == peripherals_flash_2_0
reset_usb_1_0 == reset_usb_2_0
reset_enet_1_0 == reset_enet_2_0
reset_i2c_1_0 == reset_i2c_2_0

ps7_peripherals_init_data_1_0 ==
  peripherals_ddriob_1_0 \o peripherals_uart_1_0 \o peripherals_flash_1_0
    \o reset_usb_1_0 \o reset_enet_1_0 \o reset_i2c_1_0 \o <<EmitExit>>

-----------------------------------------------------------------------------
ps7_post_config_1_0 == ps7_post_config_2_0
ps7_debug_1_0 == ps7_debug_2_0
=============================================================================
