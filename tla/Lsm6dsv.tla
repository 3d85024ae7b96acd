-------------------------------- MODULE Lsm6dsv --------------------------------
(***************************************************************************)
(* The accelerometer and gyroscope LSM6DSV (lsm6dsv_reg.c, lsm6dsv_reg.h):  *)
(* one accessor for each pair of functions over one register. Its functions *)
(* select the user's bank again whatever failed; most go on with the        *)
(* register even if its bank could not be selected.                         *)
(***************************************************************************)
EXTENDS Lsm6dsvRegisters

UserBank == [name |-> "user", restores |-> TRUE, unselected |-> "read"]
EmbeddedBank == [UserBank EXCEPT !.name = "embedded"]
HubBank == [UserBank EXCEPT !.name = "hub"]
PagedBank == [UserBank EXCEPT !.name = "paged"]

\* Accessors.
xl_offset_on_out == Number(UserBank, ctrl9_t.usr_off_on_out)
device_id == ReadOnly(Whole(UserBank, 8))
xl_mode == Choice(UserBank, ctrl1_t.op_mode_xl, xl_mode_t, 0)
gy_mode == Choice(UserBank, ctrl2_t.op_mode_g, gy_mode_t, 0)
auto_increment == Number(UserBank, ctrl3_t.if_inc)
block_data_update == Number(UserBank, ctrl3_t.bdu)
odr_trig_cfg == Refusing(1..3, Number(UserBank, odr_trig_cfg_t.odr_trig_nodr))
data_ready_mode == Choice(UserBank, ctrl4_t.drdy_pulsed, data_ready_mode_t, 0)
gy_full_scale == Choice(UserBank, ctrl6_t.fs_g, gy_full_scale_t, 0)
xl_full_scale == Choice(UserBank, ctrl8_t.fs_xl, xl_full_scale_t, 0)
xl_dual_channel == Number(UserBank, ctrl8_t.xl_dualc_en)
xl_self_test == Choice(UserBank, ctrl10_t.st_xl, xl_self_test_t, 0)
gy_self_test == Choice(UserBank, ctrl10_t.st_g, gy_self_test_t, 0)
ois_xl_self_test == Choice(UserBank, spi2_int_ois_t.st_xl_ois, ois_xl_self_test_t, 0)
ois_gy_self_test == WriteOnly(Packed(UserBank,
    <<At(spi2_int_ois_t.st_g_ois, 0),
      At(spi2_int_ois_t.st_ois_clampdis, 2)>>, ois_gy_self_test_t, 0))
emb_pin_int1_route == Forgets(Skips({"get"}, ReadOnly(Members(EmbeddedBank,
    <<At(emb_func_int1_t.int1_tilt, 0), At(emb_func_int1_t.int1_sig_mot, 1),
      At(emb_func_int1_t.int1_step_detector, 2), At(emb_func_int1_t.int1_fsm_lc, 3)>>))))
emb_pin_int2_route == Forgets(Skips({"get"}, ReadOnly(Members(EmbeddedBank,
    <<At(emb_func_int2_t.int2_tilt, 0), At(emb_func_int2_t.int2_sig_mot, 1),
      At(emb_func_int2_t.int2_step_detector, 2), At(emb_func_int2_t.int2_fsm_lc, 3)>>))))
flag_data_ready == ReadOnly(Members(UserBank,
    <<At(status_reg_t.xlda, 0), At(status_reg_t.gda, 1), At(status_reg_t.tda, 2)>>))
int_ack_mask == Whole(UserBank, 8)
temperature_raw == ReadOnly(Signed(Whole(UserBank, 16)))
angular_rate_raw == ReadOnly(Signed(Whole(UserBank, 16)))
acceleration_raw == ReadOnly(Signed(Whole(UserBank, 16)))
dual_acceleration_raw == ReadOnly(Signed(Whole(UserBank, 16)))
emb_function_dbg == Number(UserBank, ctrl10_t.emb_func_debug)
den_polarity == Choice(UserBank, ctrl4_t.int2_in_lh, den_polarity_t, 0)
eis_gy_full_scale == Choice(UserBank, ctrl_eis_t.fs_g_eis, eis_gy_full_scale_t, 0)
eis_gy_on_spi2 == Number(UserBank, ctrl_eis_t.g_eis_on_g_ois_out_reg)
gy_eis_data_rate == Choice(UserBank, ctrl_eis_t.odr_g_eis, gy_eis_data_rate_t, 1)
fifo_watermark == ReadOnly(Number(UserBank, fifo_ctrl1_t.wtm))
fifo_xl_dual_fsm_batch == Number(UserBank, fifo_ctrl2_t.xl_dualc_batch_from_fsm)
fifo_compress_algo == Choice(UserBank, fifo_ctrl2_t.uncompr_rate, fifo_compress_algo_t, 0)
fifo_virtual_sens_odr_chg == Number(UserBank, fifo_ctrl2_t.odr_chg_en)
fifo_compress_algo_real_time == ReadOnly(Number(UserBank, fifo_ctrl2_t.fifo_compr_rt_en))
fifo_xl_batch == Choice(UserBank, fifo_ctrl3_t.bdr_xl, fifo_xl_batch_t, 0)
fifo_gy_batch == Choice(UserBank, fifo_ctrl3_t.bdr_gy, fifo_gy_batch_t, 0)
fifo_mode == Choice(UserBank, fifo_ctrl4_t.fifo_mode, fifo_mode_t, 0)
fifo_gy_eis_batch == Number(UserBank, fifo_ctrl4_t.g_eis_fifo_en)
fifo_temp_batch == Choice(UserBank, fifo_ctrl4_t.odr_t_batch, fifo_temp_batch_t, 0)
fifo_timestamp_batch ==
    Choice(UserBank, fifo_ctrl4_t.dec_ts_batch, fifo_timestamp_batch_t, 0)
fifo_batch_cnt_event ==
    Choice(UserBank, counter_bdr_reg1_t.trig_counter_bdr, fifo_batch_cnt_event_t, 0)
fifo_stpcnt_batch ==
    Unguarded(Early({"set", "get"}, Number(EmbeddedBank, emb_func_fifo_en_a_t.step_counter_fifo_en)))
fifo_sflp_batch == Skips({"set", "get"}, Unguarded(Members(EmbeddedBank,
    <<At(emb_func_fifo_en_a_t.sflp_game_fifo_en, 0),
      At(emb_func_fifo_en_a_t.sflp_gravity_fifo_en, 1),
      At(emb_func_fifo_en_a_t.sflp_gbias_fifo_en, 2)>>)))
filt_anti_spike == Choice(UserBank, if_cfg_t.asf_ctrl, filt_anti_spike_t, 0)
filt_ois_settling_mask == Members(UserBank, <<At(spi2_int_ois_t.drdy_mask_ois, 0)>>)
filt_gy_lp1_bandwidth == Choice(UserBank, ctrl6_t.lpf1_g_bw, filt_gy_lp1_bandwidth_t, 0)
filt_gy_lp1 == Number(UserBank, ctrl7_t.lpf1_g_en)
filt_xl_lp2_bandwidth == Choice(UserBank, ctrl8_t.hp_lpf2_xl_bw, filt_xl_lp2_bandwidth_t, 0)
filt_xl_lp2 == Number(UserBank, ctrl9_t.lpf2_xl_en)
filt_xl_hp == Number(UserBank, ctrl9_t.hp_slope_xl_en)
filt_xl_fast_settling == Number(UserBank, ctrl9_t.xl_fastsettl_mode)
filt_xl_hp_mode == Choice(UserBank, ctrl9_t.hp_ref_mode_xl, filt_xl_hp_mode_t, 0)
mask_trigger_xl_settl == Number(UserBank, tap_cfg0_t.hw_func_mask_xl_settl)
filt_sixd_feed == Choice(UserBank, tap_cfg0_t.low_pass_on_6d, filt_sixd_feed_t, 0)
filt_gy_eis_lp_bandwidth ==
    Choice(UserBank, ctrl_eis_t.lpf_g_eis_bw, filt_gy_eis_lp_bandwidth_t, 0)
filt_gy_ois_lp_bandwidth ==
    Choice(UserBank, ui_ctrl2_ois_t.lpf1_g_ois_bw, filt_gy_ois_lp_bandwidth_t, 0)
filt_xl_ois_lp_bandwidth ==
    Choice(UserBank, ui_ctrl3_ois_t.lpf_xl_ois_bw, filt_xl_ois_lp_bandwidth_t, 0)
fsm_permission == Choice(UserBank, func_cfg_access_t.fsm_wr_ctrl_en, fsm_permission_t, 0)
fsm_mode == ReadOnly(Members(EmbeddedBank,
    <<At(fsm_enable_t.fsm1_en, 0), At(fsm_enable_t.fsm2_en, 1), At(fsm_enable_t.fsm3_en, 2),
      At(fsm_enable_t.fsm4_en, 3), At(fsm_enable_t.fsm5_en, 4), At(fsm_enable_t.fsm6_en, 5),
      At(fsm_enable_t.fsm7_en, 6), At(fsm_enable_t.fsm8_en, 7)>>))
fsm_long_cnt == ReadOnly(Whole(EmbeddedBank, 16))
fsm_data_rate == Choice(EmbeddedBank, fsm_odr_t.fsm_odr, fsm_data_rate_t, 0)
fsm_ext_sens_sensitivity == Whole(PagedBank, 16)
fsm_ext_sens_z_orient ==
    Unguarded(Choice(PagedBank, ext_cfg_a_t.ext_z_axis, fsm_ext_sens_z_orient_t, 0))
fsm_ext_sens_y_orient ==
    Choice(PagedBank, ext_cfg_a_t.ext_y_axis, fsm_ext_sens_y_orient_t, 0)
fsm_ext_sens_x_orient ==
    Choice(PagedBank, ext_cfg_b_t.ext_x_axis, fsm_ext_sens_x_orient_t, 0)
fsm_long_cnt_timeout == Whole(PagedBank, 16)
fsm_number_of_programs == Number(PagedBank, fsm_programs_t.fsm_n_prog)
fsm_start_address == Whole(PagedBank, 16)
ff_thresholds == Choice(UserBank, free_fall_t.ff_ths, ff_thresholds_t, 0)
ois_ctrl_mode == Choice(UserBank, func_cfg_access_t.ois_ctrl_from_ui, ois_ctrl_mode_t, 0)
ois_reset == WriteOnly(Number(UserBank, func_cfg_access_t.spi2_reset))
ois_interface_pull_up == Number(UserBank, pin_ctrl_t.ois_pu_dis)
ois_handshake_from_ui == Members(UserBank,
    <<At(ui_handshake_ctrl_t.ui_shared_ack, 0), At(ui_handshake_ctrl_t.ui_shared_req, 1)>>)
ois_handshake_from_ois == Members(UserBank,
    <<At(spi2_handshake_ctrl_t.spi2_shared_ack, 0),
      At(spi2_handshake_ctrl_t.spi2_shared_req, 1)>>)
ois_on_spi2 == Number(UserBank, ui_ctrl1_ois_t.spi2_read_en)
ois_chain == Members(UserBank,
    <<At(ui_ctrl1_ois_t.ois_g_en, 0), At(ui_ctrl1_ois_t.ois_xl_en, 1)>>)
ois_gy_full_scale ==
    Masked(4, Choice(UserBank, ui_ctrl2_ois_t.fs_g_ois, ois_gy_full_scale_t, 0))
ois_xl_full_scale == Choice(UserBank, ui_ctrl3_ois_t.fs_xl_ois, ois_xl_full_scale_t, 0)
sixd_threshold == Choice(UserBank, tap_ths_6d_t.sixd_ths, sixd_threshold_t, 0)
fourd_mode == Number(UserBank, tap_ths_6d_t.d4d_en)
i3c_reset_mode == Choice(UserBank, pin_ctrl_t.ibhr_por_en, i3c_reset_mode_t, 0)
i3c_int_en == Number(UserBank, ctrl5_t.int_en_i3c)
i3c_ibi_time == Choice(UserBank, ctrl5_t.bus_act_sel, i3c_ibi_time_t, 0)
sh_master_interface_pull_up == Number(UserBank, if_cfg_t.shub_pu_en)
sh_slave_connected == Choice(HubBank, master_config_t.aux_sens_on, sh_slave_connected_t, 0)
sh_master == Number(HubBank, master_config_t.master_on)
sh_pass_through == Number(HubBank, master_config_t.pass_through_mode)
sh_syncro_mode == Choice(HubBank, master_config_t.start_config, sh_syncro_mode_t, 0)
sh_write_mode == Choice(HubBank, master_config_t.write_once, sh_write_mode_t, 0)
sh_reset == Number(HubBank, master_config_t.rst_master_regs)
sh_data_rate == Choice(HubBank, slv0_config_t.shub_odr, sh_data_rate_t, 1)
sh_status == ReadOnly(Whole(UserBank, 8))
ui_sdo_pull_up == Number(UserBank, pin_ctrl_t.sdo_pu_en)
ui_i2c_i3c_mode == Choice(UserBank, if_cfg_t.i2c_i3c_disable, ui_i2c_i3c_mode_t, 0)
spi_mode == Choice(UserBank, if_cfg_t.sim, spi_mode_t, 0)
ui_sda_pull_up == Number(UserBank, if_cfg_t.sda_pu_en)
spi2_mode == Choice(UserBank, ui_ctrl1_ois_t.sim_ois, spi2_mode_t, 0)
sigmot_mode ==
    Unguarded(Early({"set", "get"}, Number(EmbeddedBank, emb_func_en_a_t.sign_motion_en)))
stpcnt_mode == WriteOnly(Early({"set"}, Members(EmbeddedBank,
    <<At(emb_func_en_a_t.pedo_en, 0)>>)))
stpcnt_steps == ReadOnly(Whole(EmbeddedBank, 16))
stpcnt_rst_step == Early({"set", "get"}, Number(EmbeddedBank, emb_func_src_t.pedo_rst_step))
stpcnt_debounce == Number(PagedBank, pedo_deb_steps_conf_t.deb_step)
stpcnt_period == Whole(PagedBank, 16)
sflp_game_rotation ==
    Early({"set", "get"}, Number(EmbeddedBank, emb_func_en_a_t.sflp_game_en))
sflp_data_rate ==
    Early({"set"}, Choice(EmbeddedBank, sflp_odr_t.sflp_game_odr, sflp_data_rate_t, 0))
tap_detection == Members(UserBank,
    <<At(tap_cfg0_t.tap_x_en, 0), At(tap_cfg0_t.tap_y_en, 1), At(tap_cfg0_t.tap_z_en, 2)>>)
tap_axis_priority == Choice(UserBank, tap_cfg1_t.tap_priority, tap_axis_priority_t, 0)
tap_time_windows == Members(UserBank,
    <<At(tap_dur_t.shock, 0), At(tap_dur_t.quiet, 2), At(tap_dur_t.dur, 4)>>)
tap_mode == Choice(UserBank, wake_up_ths_t.single_double_tap, tap_mode_t, 0)
tilt_mode == Unguarded(Early({"set", "get"}, Number(EmbeddedBank, emb_func_en_a_t.tilt_en)))
timestamp == Number(UserBank, functions_enable_t.timestamp_en)
act_mode == Choice(UserBank, functions_enable_t.inact_en, act_mode_t, 0)
act_from_sleep_to_act_dur ==
    Choice(UserBank, inactivity_dur_t.inact_dur, act_from_sleep_to_act_dur_t, 0)
act_sleep_xl_odr == Choice(UserBank, inactivity_dur_t.xl_inact_odr, act_sleep_xl_odr_t, 0)
act_wkup_time_windows == Members(UserBank,
    <<At(wake_up_dur_t.wake_dur, 0), At(wake_up_dur_t.sleep_dur, 2)>>)

\* The accessors the properties are checked for; the others are Disputed.
Accessors == {xl_offset_on_out, device_id, xl_mode, gy_mode, auto_increment,
    block_data_update, odr_trig_cfg, data_ready_mode, gy_full_scale, xl_full_scale,
    xl_dual_channel, xl_self_test, gy_self_test, ois_xl_self_test, ois_gy_self_test,
    flag_data_ready, int_ack_mask, temperature_raw, angular_rate_raw, acceleration_raw,
    dual_acceleration_raw, emb_function_dbg, den_polarity, eis_gy_full_scale,
    eis_gy_on_spi2, gy_eis_data_rate, fifo_watermark, fifo_xl_dual_fsm_batch,
    fifo_compress_algo, fifo_virtual_sens_odr_chg, fifo_compress_algo_real_time,
    fifo_xl_batch, fifo_gy_batch, fifo_mode, fifo_gy_eis_batch, fifo_temp_batch,
    fifo_timestamp_batch, fifo_batch_cnt_event, fifo_stpcnt_batch, fifo_sflp_batch,
    filt_anti_spike, filt_ois_settling_mask, filt_gy_lp1_bandwidth, filt_gy_lp1,
    filt_xl_lp2_bandwidth, filt_xl_lp2, filt_xl_hp, filt_xl_fast_settling, filt_xl_hp_mode,
    mask_trigger_xl_settl, filt_sixd_feed, filt_gy_eis_lp_bandwidth,
    filt_gy_ois_lp_bandwidth, filt_xl_ois_lp_bandwidth, fsm_permission, fsm_mode,
    fsm_long_cnt, fsm_data_rate, fsm_ext_sens_sensitivity, fsm_ext_sens_z_orient,
    fsm_ext_sens_y_orient, fsm_ext_sens_x_orient, fsm_long_cnt_timeout,
    fsm_number_of_programs, fsm_start_address, ff_thresholds, ois_ctrl_mode, ois_reset,
    ois_interface_pull_up, ois_handshake_from_ui, ois_handshake_from_ois, ois_on_spi2,
    ois_chain, ois_xl_full_scale, sixd_threshold, fourd_mode, i3c_reset_mode, i3c_int_en,
    i3c_ibi_time, sh_master_interface_pull_up, sh_slave_connected, sh_master,
    sh_pass_through, sh_syncro_mode, sh_write_mode, sh_reset, sh_data_rate, sh_status,
    ui_sdo_pull_up, ui_i2c_i3c_mode, spi_mode, ui_sda_pull_up, spi2_mode, sigmot_mode,
    stpcnt_mode, stpcnt_steps, stpcnt_rst_step, stpcnt_debounce, stpcnt_period,
    sflp_game_rotation, sflp_data_rate, tap_detection, tap_axis_priority, tap_time_windows,
    tap_mode, tilt_mode, timestamp, act_mode, act_from_sleep_to_act_dur, act_sleep_xl_odr,
    act_wkup_time_windows}
Disputed == {emb_pin_int1_route, emb_pin_int2_route, ois_gy_full_scale}
================================================================================
