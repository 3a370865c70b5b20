----------------------------- MODULE Ps7Tables2 -----------------------------
(* The tables of ps7_init.c for silicon 2.0. They write the registers of the *)
(* 3.0 tables in the same order, with other masks on some of them; the DDR   *)
(* table writes one register more (0A0). Masks and parameters that differ    *)
(* touch no field kept here, so the other parts are those of 3.0.            *)
EXTENDS Ps7Tables3

-----------------------------------------------------------------------------
pll_arm_2_0 == pll_arm_3_0
pll_ddr_2_0 == pll_ddr_3_0
pll_io_2_0 == pll_io_3_0

ps7_pll_init_data_2_0 ==
  <<SlcrUnlock>> \o pll_arm_2_0 \o pll_ddr_2_0 \o pll_io_2_0
    \o <<SlcrLock, EmitExit>>

-----------------------------------------------------------------------------
clock_ref_2_0 == clock_ref_3_0
clock_fpga_2_0 == clock_fpga_3_0
clock_gates_2_0 == clock_gates_3_0

ps7_clock_init_data_2_0 ==
  <<SlcrUnlock>> \o clock_ref_2_0 \o clock_fpga_2_0 \o clock_gates_2_0
    \o <<SlcrLock, EmitExit>>

-----------------------------------------------------------------------------
ddr_reset_2_0 == ddr_reset_3_0
ddr_queues_2_0 == ddr_queues_3_0
ddr_timing_2_0 == ddr_timing_3_0
ddr_mode_2_0 == ddr_mode_3_0
ddr_map_2_0 == ddr_map_3_0
ddr_levelling_2_0 == ddr_levelling_3_0
ddr_power_2_0 == ddr_power_3_0
ddr_init_2_0 == Span("ddrc", \h0A0, \h0B8)
ddr_ecc_2_0 == ddr_ecc_3_0
ddr_slices_2_0 == ddr_slices_3_0
ddr_gate_ratios_2_0 == ddr_gate_ratios_3_0
ddr_read_ratios_2_0 == ddr_read_ratios_3_0
ddr_write_ratios_2_0 == ddr_write_ratios_3_0
ddr_fifo_ratios_2_0 == ddr_fifo_ratios_3_0
ddr_data_ratios_2_0 == ddr_data_ratios_3_0
ddr_phy_2_0 == ddr_phy_3_0
ddr_ports_2_0 == ddr_ports_3_0
ddr_lpddr_2_0 == ddr_lpddr_3_0
ddr_release_2_0 == ddr_release_3_0

ps7_ddr_init_data_2_0 ==
  ddr_reset_2_0 \o ddr_queues_2_0 \o ddr_timing_2_0 \o ddr_mode_2_0
    \o ddr_map_2_0 \o ddr_levelling_2_0 \o ddr_power_2_0 \o ddr_init_2_0
    \o ddr_ecc_2_0 \o ddr_slices_2_0 \o ddr_gate_ratios_2_0
    \o ddr_read_ratios_2_0 \o ddr_write_ratios_2_0 \o ddr_fifo_ratios_2_0
    \o ddr_data_ratios_2_0 \o ddr_phy_2_0 \o ddr_ports_2_0 \o ddr_lpddr_2_0
    \o ddr_release_2_0 \o <<EmitExit>>

-----------------------------------------------------------------------------
ddriob_buffers_2_0 == ddriob_buffers_3_0
ddriob_drive_2_0 == ddriob_drive_3_0
ddriob_dci_2_0 == ddriob_dci_3_0
mio_qspi_2_0 == mio_qspi_3_0
mio_gpio_2_0 == mio_gpio_3_0
mio_gpio_high_2_0 == mio_gpio_high_3_0
mio_enet_tx_2_0 == mio_enet_tx_3_0
mio_enet_rx_2_0 == mio_enet_rx_3_0
mio_usb_low_2_0 == mio_usb_low_3_0
mio_usb_high_2_0 == mio_usb_high_3_0
mio_sd_2_0 == mio_sd_3_0
mio_sd_detect_2_0 == mio_sd_detect_3_0
mio_uart_2_0 == mio_uart_3_0
mio_i2c_mdio_2_0 == mio_i2c_mdio_3_0

ps7_mio_init_data_2_0 ==
  <<SlcrUnlock>> \o ddriob_buffers_2_0 \o ddriob_drive_2_0 \o ddriob_dci_2_0
    \o mio_qspi_2_0 \o mio_gpio_2_0 \o mio_gpio_high_2_0 \o mio_enet_tx_2_0
    \o mio_enet_rx_2_0 \o mio_usb_low_2_0 \o mio_usb_high_2_0 \o mio_sd_2_0
    \o mio_sd_detect_2_0 \o mio_uart_2_0 \o mio_i2c_mdio_2_0
    \o <<SlcrLock, EmitExit>>

-----------------------------------------------------------------------------
peripherals_ddriob_2_0 == peripherals_ddriob_3_0
peripherals_uart_2_0 == peripherals_uart_3_0
peripherals_flash_2_0 == peripherals_flash_3_0
reset_usb_2_0 == reset_usb_3_0
reset_enet_2_0 == reset_enet_3_0
reset_i2c_2_0 == reset_i2c_3_0

ps7_peripherals_init_data_2_0 ==
  peripherals_ddriob_2_0 \o peripherals_uart_2_0 \o peripherals_flash_2_0
    \o reset_usb_2_0 \o reset_enet_2_0 \o reset_i2c_2_0 \o <<EmitExit>>

-----------------------------------------------------------------------------
ps7_post_config_2_0 == ps7_post_config_3_0
ps7_debug_2_0 == ps7_debug_3_0
=============================================================================
