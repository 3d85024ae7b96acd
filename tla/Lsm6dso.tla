-------------------------------- MODULE Lsm6dso --------------------------------
(***************************************************************************)
(* The accelerometer and gyroscope LSM6DSO (lsm6dso_reg.c, lsm6dso_reg.h):  *)
(* one accessor for each pair of functions over one register. Its functions *)
(* stop at the first transfer that fails and leave the bank they selected.  *)
(***************************************************************************)
EXTENDS Lsm6dsoRegisters

UserBank == [name |-> "user", restores |-> FALSE, unselected |-> "idle"]
EmbeddedBank == [UserBank EXCEPT !.name = "embedded"]
HubBank == [UserBank EXCEPT !.name = "hub"]
PagedBank == [UserBank EXCEPT !.name = "paged"]

\* Accessors.
xl_full_scale == Choice(UserBank, ctrl1_xl_t.fs_xl, fs_xl_t, 0)
xl_data_rate == ReadOnly(Choice(UserBank, ctrl1_xl_t.odr_xl, odr_xl_t, 0))
gy_full_scale == Choice(UserBank, ctrl2_g_t.fs_g, fs_g_t, 0)
gy_data_rate == ReadOnly(Choice(UserBank, ctrl2_g_t.odr_g, odr_g_t, 0))
block_data_update == Number(UserBank, ctrl3_c_t.bdu)
xl_offset_weight == Choice(UserBank, ctrl6_c_t.usr_off_w, usr_off_w_t, 0)
gy_power_mode == Choice(UserBank, ctrl7_g_t.g_hm_mode, g_hm_mode_t, 0)
status_reg == ReadOnly(Whole(UserBank, 8))
xl_flag_data_ready == ReadOnly(Number(UserBank, status_reg_t.xlda))
gy_flag_data_ready == ReadOnly(Number(UserBank, status_reg_t.gda))
temp_flag_data_ready == ReadOnly(Number(UserBank, status_reg_t.tda))
xl_usr_offset_x == Whole(UserBank, 8)
xl_usr_offset_y == Whole(UserBank, 8)
xl_usr_offset_z == Whole(UserBank, 8)
xl_usr_offset == Number(UserBank, ctrl7_g_t.usr_off_on_out)
timestamp == Number(UserBank, ctrl10_c_t.timestamp_en)
rounding_mode == Choice(UserBank, ctrl5_c_t.rounding, rounding_t, 0)
temperature_raw == ReadOnly(Signed(Whole(UserBank, 16)))
angular_rate_raw == ReadOnly(Signed(Whole(UserBank, 16)))
acceleration_raw == ReadOnly(Signed(Whole(UserBank, 16)))
number_of_steps == ReadOnly(Whole(EmbeddedBank, 16))
odr_cal_reg == Number(UserBank, internal_freq_fine_t.freq_fine)
data_ready_mode ==
    Choice(UserBank, counter_bdr_reg1_t.dataready_pulsed, dataready_pulsed_t, 0)
device_id == ReadOnly(Whole(UserBank, 8))
reset == Number(UserBank, ctrl3_c_t.sw_reset)
auto_increment == Number(UserBank, ctrl3_c_t.if_inc)
boot == Number(UserBank, ctrl3_c_t.boot)
xl_self_test == Choice(UserBank, ctrl5_c_t.st_xl, st_xl_t, 0)
gy_self_test == Choice(UserBank, ctrl5_c_t.st_g, st_g_t, 0)
xl_filter_lp2 == Number(UserBank, ctrl1_xl_t.lpf2_xl_en)
gy_filter_lp1 == Number(UserBank, ctrl4_c_t.lpf1_sel_g)
filter_settling_mask == Number(UserBank, ctrl4_c_t.drdy_mask)
gy_lp1_bandwidth == Choice(UserBank, ctrl6_c_t.ftype, ftype_t, 0)
xl_lp2_on_6d == Number(UserBank, ctrl8_xl_t.low_pass_on_6d)
xl_hp_path_on_out == Packed(UserBank,
    <<At(ctrl8_xl_t.hp_slope_xl_en, 4), At(ctrl8_xl_t.hp_ref_mode_xl, 5),
      At(ctrl8_xl_t.hpcf_xl, 0)>>, hp_slope_xl_en_t, 0)
xl_fast_settling == Number(UserBank, ctrl8_xl_t.fastsettl_mode_xl)
xl_hp_path_internal == Choice(UserBank, tap_cfg0_t.slope_fds, slope_fds_t, 0)
gy_hp_path_internal == Packed(UserBank,
    <<At(ctrl7_g_t.hp_en_g, 7), At(ctrl7_g_t.hpm_g, 0)>>, hpm_g_t, 0)
aux_sdo_ocs_mode == Choice(UserBank, pin_ctrl_t.ois_pu_dis, ois_pu_dis_t, 0)
aux_xl_fs_mode == Choice(UserBank, ctrl8_xl_t.xl_fs_mode, xl_fs_mode_t, 0)
aux_status_reg == ReadOnly(Whole(UserBank, 8))
aux_xl_flag_data_ready == ReadOnly(Number(UserBank, status_spiaux_t.xlda))
aux_gy_flag_data_ready == ReadOnly(Number(UserBank, status_spiaux_t.gda))
aux_gy_flag_settling == ReadOnly(Number(UserBank, status_spiaux_t.gyro_settling))
aux_xl_self_test == Choice(UserBank, int_ois_t.st_xl_ois, st_xl_ois_t, 0)
aux_den_polarity == Choice(UserBank, int_ois_t.den_lh_ois, den_lh_ois_t, 0)
aux_drdy_on_int2 == Number(UserBank, int_ois_t.int2_drdy_ois)
aux_mode == Packed(UserBank,
    <<At(ctrl1_ois_t.ois_en_spi2, 0), At(ctrl1_ois_t.mode4_en, 1)>>, ois_en_spi2_t, 0)
aux_gy_full_scale == Choice(UserBank, ctrl1_ois_t.fs_g_ois, fs_g_ois_t, 0)
aux_spi_mode == Choice(UserBank, ctrl1_ois_t.sim_ois, sim_ois_t, 0)
aux_gy_lp1_bandwidth == Choice(UserBank, ctrl2_ois_t.ftype_ois, ftype_ois_t, 0)
aux_gy_hp_bandwidth == Packed(UserBank,
    <<At(ctrl2_ois_t.hpm_ois, 0), At(ctrl2_ois_t.hp_en_ois, 4)>>, hpm_ois_t, 0)
aux_gy_clamp == Choice(UserBank, ctrl3_ois_t.st_ois_clampdis, st_ois_clampdis_t, 0)
aux_gy_self_test == Choice(UserBank, ctrl3_ois_t.st_ois, st_ois_t, 0)
aux_xl_bandwidth ==
    Choice(UserBank, ctrl3_ois_t.filter_xl_conf_ois, filter_xl_conf_ois_t, 0)
aux_xl_full_scale == Choice(UserBank, ctrl3_ois_t.fs_xl_ois, fs_xl_ois_t, 0)
sdo_sa0_mode == Choice(UserBank, pin_ctrl_t.sdo_pu_en, sdo_pu_en_t, 0)
spi_mode == Choice(UserBank, ctrl3_c_t.sim, sim_t, 0)
i2c_interface == Choice(UserBank, ctrl4_c_t.i2c_disable, i2c_disable_t, 0)
int1_mode == Choice(UserBank, i3c_bus_avb_t.pd_dis_int1, int1_pd_en_t, 0)
pin_mode == Choice(UserBank, ctrl3_c_t.pp_od, pp_od_t, 0)
pin_polarity == Choice(UserBank, ctrl3_c_t.h_lactive, h_lactive_t, 0)
all_on_int1 == Number(UserBank, ctrl4_c_t.int2_on_int1)
wkup_ths_weight == Choice(UserBank, wake_up_dur_t.wake_ths_w, wake_ths_w_t, 0)
wkup_threshold == Number(UserBank, wake_up_ths_t.wk_ths)
xl_usr_offset_on_wkup == Number(UserBank, wake_up_ths_t.usr_off_on_wu)
wkup_dur == Number(UserBank, wake_up_dur_t.wake_dur)
gy_sleep_mode == Number(UserBank, ctrl4_c_t.sleep_g)
act_pin_notification ==
    Choice(UserBank, tap_cfg0_t.sleep_status_on_int, sleep_status_on_int_t, 0)
act_mode == Choice(UserBank, tap_cfg2_t.inact_en, inact_en_t, 0)
act_sleep_dur == Number(UserBank, wake_up_dur_t.sleep_dur)
tap_detection_on_z == Number(UserBank, tap_cfg0_t.tap_z_en)
tap_detection_on_y == Number(UserBank, tap_cfg0_t.tap_y_en)
tap_detection_on_x == Number(UserBank, tap_cfg0_t.tap_x_en)
tap_threshold_x == Number(UserBank, tap_cfg1_t.tap_ths_x)
tap_axis_priority == Choice(UserBank, tap_cfg1_t.tap_priority, tap_priority_t, 0)
tap_threshold_y == Number(UserBank, tap_cfg2_t.tap_ths_y)
tap_threshold_z == Number(UserBank, tap_ths_6d_t.tap_ths_z)
tap_shock == Number(UserBank, int_dur2_t.shock)
tap_quiet == Number(UserBank, int_dur2_t.quiet)
tap_dur == Number(UserBank, int_dur2_t.dur)
tap_mode == Choice(UserBank, wake_up_ths_t.single_double_tap, single_double_tap_t, 0)
sixd_threshold == Choice(UserBank, tap_ths_6d_t.sixd_ths, sixd_ths_t, 0)
fourd_mode == Number(UserBank, tap_ths_6d_t.d4d_en)
ff_threshold == Choice(UserBank, free_fall_t.ff_ths, ff_ths_t, 0)
compression_algo_init == Number(EmbeddedBank, emb_func_init_b_t.fifo_compr_init)
compression_algo == Packed(UserBank,
    <<At(fifo_ctrl2_t.fifo_compr_rt_en, 2),
      At(fifo_ctrl2_t.uncoptr_rate, 0)>>, uncoptr_rate_t, 0)
fifo_virtual_sens_odr_chg == Number(UserBank, fifo_ctrl2_t.odrchg_en)
compression_algo_real_time == Number(UserBank, fifo_ctrl2_t.fifo_compr_rt_en)
fifo_stop_on_wtm == Number(UserBank, fifo_ctrl2_t.stop_on_wtm)
fifo_xl_batch == Choice(UserBank, fifo_ctrl3_t.bdr_xl, bdr_xl_t, 0)
fifo_gy_batch == Choice(UserBank, fifo_ctrl3_t.bdr_gy, bdr_gy_t, 0)
fifo_mode == Choice(UserBank, fifo_ctrl4_t.fifo_mode, fifo_mode_t, 0)
fifo_temp_batch == Choice(UserBank, fifo_ctrl4_t.odr_t_batch, odr_t_batch_t, 0)
fifo_timestamp_decimation == Choice(UserBank, fifo_ctrl4_t.odr_ts_batch, odr_ts_batch_t, 0)
fifo_cnt_event_batch ==
    Choice(UserBank, counter_bdr_reg1_t.trig_counter_bdr, trig_counter_bdr_t, 0)
rst_batch_counter == Number(UserBank, counter_bdr_reg1_t.rst_counter_bdr)
fifo_status == ReadOnly(Whole(UserBank, 8))
fifo_full_flag == ReadOnly(Number(UserBank, fifo_status2_t.fifo_full_ia))
fifo_ovr_flag == ReadOnly(Number(UserBank, fifo_status2_t.fifo_ovr_ia))
fifo_wtm_flag == ReadOnly(Number(UserBank, fifo_status2_t.fifo_wtm_ia))
fifo_sensor_tag ==
    ReadOnly(Partly(UserBank, fifo_data_out_tag_t.tag_sensor, fifo_tag_t, (1..3) \cup (5..21) \cup {25}, 1))
fifo_pedo_batch == Number(EmbeddedBank, emb_func_fifo_cfg_t.pedo_fifo_en)
sh_batch_slave_0 == Number(HubBank, slv0_config_t.batch_ext_sens_0_en)
sh_batch_slave_1 == Number(HubBank, slv1_config_t.batch_ext_sens_1_en)
sh_batch_slave_2 == Number(HubBank, slv2_config_t.batch_ext_sens_2_en)
sh_batch_slave_3 == Number(HubBank, slv3_config_t.batch_ext_sens_3_en)
den_mode == Choice(UserBank, ctrl6_c_t.den_mode, den_mode_t, 0)
den_polarity == Choice(UserBank, ctrl9_xl_t.den_lh, den_lh_t, 0)
den_enable == Choice(UserBank, ctrl9_xl_t.den_xl_g, den_xl_g_t, 0)
den_mark_axis_x == Number(UserBank, ctrl9_xl_t.den_z)
den_mark_axis_y == Number(UserBank, ctrl9_xl_t.den_y)
den_mark_axis_z == Number(UserBank, ctrl9_xl_t.den_x)
pedo_sens == Packed(PagedBank,
    <<At(pedo_cmd_reg_t.fp_rejection_en, 4),
      At(pedo_cmd_reg_t.ad_det_en, 5)>>, pedo_md_t, 0)
pedo_step_detect == ReadOnly(Number(EmbeddedBank, emb_func_status_t.is_step_det))
pedo_debounce_steps == Whole(PagedBank, 8)
pedo_steps_period == Whole(PagedBank, 16)
pedo_int_mode == Choice(PagedBank, pedo_cmd_reg_t.carry_count_en, carry_count_en_t, 0)
motion_flag_data_ready == ReadOnly(Number(EmbeddedBank, emb_func_status_t.is_sigmot))
tilt_flag_data_ready == ReadOnly(Number(EmbeddedBank, emb_func_status_t.is_tilt))
mag_sensitivity == Whole(PagedBank, 16)
mag_offset == Signed(Whole(PagedBank, 16))
mag_soft_iron == Signed(Whole(PagedBank, 16))
mag_z_orient == Choice(PagedBank, mag_cfg_a_t.mag_z_axis, mag_z_axis_t, 0)
mag_y_orient == Choice(PagedBank, mag_cfg_a_t.mag_y_axis, mag_y_axis_t, 0)
mag_x_orient == Choice(PagedBank, mag_cfg_b_t.mag_x_axis, mag_x_axis_t, 0)
long_cnt_flag_data_ready == ReadOnly(Number(EmbeddedBank, emb_func_status_t.is_fsm_lc))
long_cnt == ReadOnly(Whole(EmbeddedBank, 16))
long_clr == Choice(EmbeddedBank, fsm_long_counter_clear_t.fsm_lc_clr, fsm_lc_clr_t, 0)
fsm_data_rate == ReadOnly(Choice(EmbeddedBank, emb_func_odr_cfg_b_t.fsm_odr, fsm_odr_t, 0))
fsm_init == Number(EmbeddedBank, emb_func_init_b_t.fsm_init)
long_cnt_int_value == Whole(PagedBank, 16)
fsm_number_of_programs == Whole(PagedBank, 8)
fsm_start_address == Whole(PagedBank, 16)
sh_slave_connected == Choice(HubBank, master_config_t.aux_sens_on, aux_sens_on_t, 0)
sh_master == Number(HubBank, master_config_t.master_on)
sh_pin_mode == Choice(HubBank, master_config_t.shub_pu_en, shub_pu_en_t, 0)
sh_pass_through == Number(HubBank, master_config_t.pass_through_mode)
sh_syncro_mode == Choice(HubBank, master_config_t.start_config, start_config_t, 1)
sh_write_mode == Choice(HubBank, master_config_t.write_once, write_once_t, 0)
sh_reset == ReadOnly(Number(HubBank, master_config_t.rst_master_regs))
sh_data_rate == Choice(HubBank, slv0_config_t.shub_odr, shub_odr_t, 0)
sh_status == ReadOnly(Whole(HubBank, 8))

\* The accessors the properties are checked for.
Accessors == {xl_full_scale, xl_data_rate, gy_full_scale, gy_data_rate, block_data_update,
    xl_offset_weight, gy_power_mode, status_reg, xl_flag_data_ready, gy_flag_data_ready,
    temp_flag_data_ready, xl_usr_offset_x, xl_usr_offset_y, xl_usr_offset_z, xl_usr_offset,
    timestamp, rounding_mode, temperature_raw, angular_rate_raw, acceleration_raw,
    number_of_steps, odr_cal_reg, data_ready_mode, device_id, reset, auto_increment, boot,
    xl_self_test, gy_self_test, xl_filter_lp2, gy_filter_lp1, filter_settling_mask,
    gy_lp1_bandwidth, xl_lp2_on_6d, xl_hp_path_on_out, xl_fast_settling,
    xl_hp_path_internal, gy_hp_path_internal, aux_sdo_ocs_mode, aux_xl_fs_mode,
    aux_status_reg, aux_xl_flag_data_ready, aux_gy_flag_data_ready, aux_gy_flag_settling,
    aux_xl_self_test, aux_den_polarity, aux_drdy_on_int2, aux_mode, aux_gy_full_scale,
    aux_spi_mode, aux_gy_lp1_bandwidth, aux_gy_hp_bandwidth, aux_gy_clamp, aux_gy_self_test,
    aux_xl_bandwidth, aux_xl_full_scale, sdo_sa0_mode, spi_mode, i2c_interface, int1_mode,
    pin_mode, pin_polarity, all_on_int1, wkup_ths_weight, wkup_threshold,
    xl_usr_offset_on_wkup, wkup_dur, gy_sleep_mode, act_pin_notification, act_mode,
    act_sleep_dur, tap_detection_on_z, tap_detection_on_y, tap_detection_on_x,
    tap_threshold_x, tap_axis_priority, tap_threshold_y, tap_threshold_z, tap_shock,
    tap_quiet, tap_dur, tap_mode, sixd_threshold, fourd_mode, ff_threshold,
    compression_algo_init, compression_algo, fifo_virtual_sens_odr_chg,
    compression_algo_real_time, fifo_stop_on_wtm, fifo_xl_batch, fifo_gy_batch, fifo_mode,
    fifo_temp_batch, fifo_timestamp_decimation, fifo_cnt_event_batch, rst_batch_counter,
    fifo_status, fifo_full_flag, fifo_ovr_flag, fifo_wtm_flag, fifo_sensor_tag,
    fifo_pedo_batch, sh_batch_slave_0, sh_batch_slave_1, sh_batch_slave_2, sh_batch_slave_3,
    den_mode, den_polarity, den_enable, den_mark_axis_x, den_mark_axis_y, den_mark_axis_z,
    pedo_sens, pedo_step_detect, pedo_debounce_steps, pedo_steps_period, pedo_int_mode,
    motion_flag_data_ready, tilt_flag_data_ready, mag_sensitivity, mag_offset,
    mag_soft_iron, mag_z_orient, mag_y_orient, mag_x_orient, long_cnt_flag_data_ready,
    long_cnt, long_clr, fsm_data_rate, fsm_init, long_cnt_int_value, fsm_number_of_programs,
    fsm_start_address, sh_slave_connected, sh_master, sh_pin_mode, sh_pass_through,
    sh_syncro_mode, sh_write_mode, sh_reset, sh_data_rate, sh_status}
================================================================================
