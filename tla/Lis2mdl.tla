-------------------------------- MODULE Lis2mdl --------------------------------
(***************************************************************************)
(* The magnetometer LIS2MDL (lis2mdl_reg.c, lis2mdl_reg.h): its registers'  *)
(* layouts, its enumerations and one accessor for each pair of functions    *)
(* over one register. It has one bank.                                      *)
(***************************************************************************)
EXTENDS RegisterField

UserBank == [name |-> "user", restores |-> TRUE, unselected |-> "read"]

\* Registers: the lowest bit and the width of each field.
cfg_reg_a_t == [md |-> <<0, 2>>, odr |-> <<2, 2>>, lp |-> <<4, 1>>, soft_rst |-> <<5, 1>>,
    reboot |-> <<6, 1>>, comp_temp_en |-> <<7, 1>>]
cfg_reg_b_t == [lpf |-> <<0, 1>>, set_rst |-> <<1, 2>>, int_on_dataoff |-> <<3, 1>>,
    off_canc_one_shot |-> <<4, 1>>]
cfg_reg_c_t == [drdy_on_pin |-> <<0, 1>>, self_test |-> <<1, 1>>, _4wspi |-> <<2, 1>>,
    ble |-> <<3, 1>>, bdu |-> <<4, 1>>, i2c_dis |-> <<5, 1>>, int_on_pin |-> <<6, 1>>]
status_reg_t == [xda |-> <<0, 1>>, yda |-> <<1, 1>>, zda |-> <<2, 1>>, zyxda |-> <<3, 1>>,
    _xor |-> <<4, 1>>, yor |-> <<5, 1>>, zor |-> <<6, 1>>, zyxor |-> <<7, 1>>]

\* Enumerations.
md_t == 0..2
odr_t == 0..3
lp_t == {0, 1}
lpf_t == {0, 1}
set_rst_t == 0..2
ble_t == {0, 1}
int_on_dataoff_t == {0, 1}
sim_t == {0, 1}
i2c_dis_t == {0, 1}

\* Accessors.
mag_user_offset == Signed(Whole(UserBank, 16))
operating_mode == Choice(UserBank, cfg_reg_a_t.md, md_t, 2)
data_rate == Choice(UserBank, cfg_reg_a_t.odr, odr_t, 0)
power_mode == Choice(UserBank, cfg_reg_a_t.lp, lp_t, 0)
offset_temp_comp == Number(UserBank, cfg_reg_a_t.comp_temp_en)
low_pass_bandwidth == Choice(UserBank, cfg_reg_b_t.lpf, lpf_t, 0)
set_rst_mode == Choice(UserBank, cfg_reg_b_t.set_rst, set_rst_t, 0)
set_rst_sensor_single == Number(UserBank, cfg_reg_b_t.off_canc_one_shot)
block_data_update == Number(UserBank, cfg_reg_c_t.bdu)
mag_data_ready == ReadOnly(Number(UserBank, status_reg_t.zyxda))
mag_data_ovr == ReadOnly(Number(UserBank, status_reg_t.zyxor))
magnetic_raw == ReadOnly(Signed(Whole(UserBank, 16)))
temperature_raw == ReadOnly(Signed(Whole(UserBank, 16)))
device_id == ReadOnly(Whole(UserBank, 8))
reset == Number(UserBank, cfg_reg_a_t.soft_rst)
boot == Number(UserBank, cfg_reg_a_t.reboot)
self_test == Number(UserBank, cfg_reg_c_t.self_test)
data_format == Choice(UserBank, cfg_reg_c_t.ble, ble_t, 0)
status == ReadOnly(Whole(UserBank, 8))
offset_int_conf == Choice(UserBank, cfg_reg_b_t.int_on_dataoff, int_on_dataoff_t, 0)
drdy_on_pin == Number(UserBank, cfg_reg_c_t.drdy_on_pin)
int_on_pin == Number(UserBank, cfg_reg_c_t.int_on_pin)
int_gen_conf == Whole(UserBank, 8)
int_gen_source == ReadOnly(Whole(UserBank, 8))
int_gen_threshold == Whole(UserBank, 16)
spi_mode == Choice(UserBank, cfg_reg_c_t._4wspi, sim_t, 0)
i2c_interface == Choice(UserBank, cfg_reg_c_t.i2c_dis, i2c_dis_t, 0)

\* The accessors the properties are checked for.
Accessors == {mag_user_offset, operating_mode, data_rate, power_mode, offset_temp_comp,
    low_pass_bandwidth, set_rst_mode, set_rst_sensor_single, block_data_update,
    mag_data_ready, mag_data_ovr, magnetic_raw, temperature_raw, device_id, reset, boot,
    self_test, data_format, status, offset_int_conf, drdy_on_pin, int_on_pin, int_gen_conf,
    int_gen_source, int_gen_threshold, spi_mode, i2c_interface}
================================================================================
