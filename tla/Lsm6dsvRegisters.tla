--------------------------- MODULE Lsm6dsvRegisters ----------------------------
(***************************************************************************)
(* The registers of LSM6DSV, by their layout in lsm6dsv_reg.h, and the      *)
(* enumerations of the values that functions take and report.               *)
(***************************************************************************)
EXTENDS RegisterField

\* Registers: the lowest bit and the width of each field.
ctrl9_t == [usr_off_on_out |-> <<0, 1>>, usr_off_w |-> <<1, 1>>, lpf2_xl_en |-> <<3, 1>>,
    hp_slope_xl_en |-> <<4, 1>>, xl_fastsettl_mode |-> <<5, 1>>,
    hp_ref_mode_xl |-> <<6, 1>>]
ctrl1_t == [odr_xl |-> <<0, 4>>, op_mode_xl |-> <<4, 3>>]
ctrl2_t == [odr_g |-> <<0, 4>>, op_mode_g |-> <<4, 3>>]
ctrl3_t == [sw_reset |-> <<0, 1>>, if_inc |-> <<2, 1>>, bdu |-> <<6, 1>>, boot |-> <<7, 1>>]
odr_trig_cfg_t == [odr_trig_nodr |-> <<0, 8>>]
ctrl4_t == [int2_in_lh |-> <<0, 1>>, drdy_pulsed |-> <<1, 1>>, int2_drdy_temp |-> <<2, 1>>,
    drdy_mask |-> <<3, 1>>, int2_on_int1 |-> <<4, 1>>]
ctrl6_t == [fs_g |-> <<0, 4>>, lpf1_g_bw |-> <<4, 3>>]
ctrl8_t == [fs_xl |-> <<0, 2>>, xl_dualc_en |-> <<3, 1>>, hp_lpf2_xl_bw |-> <<5, 3>>]
ctrl10_t == [st_xl |-> <<0, 2>>, st_g |-> <<2, 2>>, emb_func_debug |-> <<6, 1>>]
spi2_int_ois_t == [st_xl_ois |-> <<0, 2>>, st_g_ois |-> <<2, 2>>,
    st_ois_clampdis |-> <<4, 1>>, drdy_mask_ois |-> <<6, 1>>, int2_drdy_ois |-> <<7, 1>>]
emb_func_int1_t == [int1_step_detector |-> <<3, 1>>, int1_tilt |-> <<4, 1>>,
    int1_sig_mot |-> <<5, 1>>, int1_fsm_lc |-> <<7, 1>>]
emb_func_int2_t == [int2_step_detector |-> <<3, 1>>, int2_tilt |-> <<4, 1>>,
    int2_sig_mot |-> <<5, 1>>, int2_fsm_lc |-> <<7, 1>>]
status_reg_t == [xlda |-> <<0, 1>>, gda |-> <<1, 1>>, tda |-> <<2, 1>>,
    gda_eis |-> <<4, 1>>, ois_drdy |-> <<5, 1>>, timestamp_endcount |-> <<7, 1>>]
ctrl_eis_t == [fs_g_eis |-> <<0, 3>>, g_eis_on_g_ois_out_reg |-> <<3, 1>>,
    lpf_g_eis_bw |-> <<4, 1>>, odr_g_eis |-> <<6, 2>>]
fifo_ctrl1_t == [wtm |-> <<0, 8>>]
fifo_ctrl2_t == [xl_dualc_batch_from_fsm |-> <<0, 1>>, uncompr_rate |-> <<1, 2>>,
    odr_chg_en |-> <<4, 1>>, fifo_compr_rt_en |-> <<6, 1>>, stop_on_wtm |-> <<7, 1>>]
fifo_ctrl3_t == [bdr_xl |-> <<0, 4>>, bdr_gy |-> <<4, 4>>]
fifo_ctrl4_t == [fifo_mode |-> <<0, 3>>, g_eis_fifo_en |-> <<3, 1>>,
    odr_t_batch |-> <<4, 2>>, dec_ts_batch |-> <<6, 2>>]
counter_bdr_reg1_t == [cnt_bdr_th |-> <<0, 2>>, trig_counter_bdr |-> <<5, 2>>]
emb_func_fifo_en_a_t == [sflp_game_fifo_en |-> <<1, 1>>, sflp_gravity_fifo_en |-> <<4, 1>>,
    sflp_gbias_fifo_en |-> <<5, 1>>, step_counter_fifo_en |-> <<6, 1>>]
if_cfg_t == [i2c_i3c_disable |-> <<0, 1>>, sim |-> <<2, 1>>, pp_od |-> <<3, 1>>,
    h_lactive |-> <<4, 1>>, asf_ctrl |-> <<5, 1>>, shub_pu_en |-> <<6, 1>>,
    sda_pu_en |-> <<7, 1>>]
ctrl7_t == [lpf1_g_en |-> <<0, 1>>]
tap_cfg0_t == [lir |-> <<0, 1>>, tap_z_en |-> <<1, 1>>, tap_y_en |-> <<2, 1>>,
    tap_x_en |-> <<3, 1>>, slope_fds |-> <<4, 1>>, hw_func_mask_xl_settl |-> <<5, 1>>,
    low_pass_on_6d |-> <<6, 1>>]
ui_ctrl2_ois_t == [fs_g_ois |-> <<0, 3>>, lpf1_g_ois_bw |-> <<3, 2>>]
ui_ctrl3_ois_t == [fs_xl_ois |-> <<0, 2>>, lpf_xl_ois_bw |-> <<3, 3>>]
func_cfg_access_t == [ois_ctrl_from_ui |-> <<0, 1>>, spi2_reset |-> <<1, 1>>,
    sw_por |-> <<2, 1>>, fsm_wr_ctrl_en |-> <<3, 1>>, shub_reg_access |-> <<6, 1>>,
    emb_func_reg_access |-> <<7, 1>>]
fsm_enable_t == [fsm1_en |-> <<0, 1>>, fsm2_en |-> <<1, 1>>, fsm3_en |-> <<2, 1>>,
    fsm4_en |-> <<3, 1>>, fsm5_en |-> <<4, 1>>, fsm6_en |-> <<5, 1>>, fsm7_en |-> <<6, 1>>,
    fsm8_en |-> <<7, 1>>]
fsm_odr_t == [fsm_odr |-> <<3, 3>>]
ext_cfg_a_t == [ext_z_axis |-> <<0, 3>>, ext_y_axis |-> <<4, 3>>]
ext_cfg_b_t == [ext_x_axis |-> <<0, 3>>]
fsm_programs_t == [fsm_n_prog |-> <<0, 8>>]
free_fall_t == [ff_ths |-> <<0, 3>>, ff_dur |-> <<3, 5>>]
pin_ctrl_t == [ibhr_por_en |-> <<5, 1>>, sdo_pu_en |-> <<6, 1>>, ois_pu_dis |-> <<7, 1>>]
ui_handshake_ctrl_t == [ui_shared_req |-> <<0, 1>>, ui_shared_ack |-> <<1, 1>>]
spi2_handshake_ctrl_t == [spi2_shared_ack |-> <<0, 1>>, spi2_shared_req |-> <<1, 1>>]
ui_ctrl1_ois_t == [spi2_read_en |-> <<0, 1>>, ois_g_en |-> <<1, 1>>, ois_xl_en |-> <<2, 1>>,
    sim_ois |-> <<5, 1>>]
tap_ths_6d_t == [tap_ths_z |-> <<0, 5>>, sixd_ths |-> <<5, 2>>, d4d_en |-> <<7, 1>>]
ctrl5_t == [int_en_i3c |-> <<0, 1>>, bus_act_sel |-> <<1, 2>>]
master_config_t == [aux_sens_on |-> <<0, 2>>, master_on |-> <<2, 1>>,
    pass_through_mode |-> <<4, 1>>, start_config |-> <<5, 1>>, write_once |-> <<6, 1>>,
    rst_master_regs |-> <<7, 1>>]
slv0_config_t == [slave0_numop |-> <<0, 3>>, batch_ext_sens_0_en |-> <<3, 1>>,
    shub_odr |-> <<5, 3>>]
emb_func_en_a_t == [sflp_game_en |-> <<1, 1>>, pedo_en |-> <<3, 1>>, tilt_en |-> <<4, 1>>,
    sign_motion_en |-> <<5, 1>>]
emb_func_src_t == [stepcounter_bit_set |-> <<2, 1>>, step_overflow |-> <<3, 1>>,
    step_count_delta_ia |-> <<4, 1>>, step_detected |-> <<5, 1>>,
    pedo_rst_step |-> <<7, 1>>]
pedo_deb_steps_conf_t == [deb_step |-> <<0, 8>>]
sflp_odr_t == [sflp_game_odr |-> <<3, 3>>]
tap_cfg1_t == [tap_ths_x |-> <<0, 5>>, tap_priority |-> <<5, 3>>]
tap_dur_t == [shock |-> <<0, 2>>, quiet |-> <<2, 2>>, dur |-> <<4, 4>>]
wake_up_ths_t == [wk_ths |-> <<0, 6>>, usr_off_on_wu |-> <<6, 1>>,
    single_double_tap |-> <<7, 1>>]
functions_enable_t == [inact_en |-> <<0, 2>>, dis_rst_lir_all_int |-> <<3, 1>>,
    timestamp_en |-> <<6, 1>>, interrupts_enable |-> <<7, 1>>]
inactivity_dur_t == [inact_dur |-> <<0, 2>>, xl_inact_odr |-> <<2, 2>>,
    wu_inact_ths_w |-> <<4, 3>>, sleep_status_on_int |-> <<7, 1>>]
wake_up_dur_t == [sleep_dur |-> <<0, 4>>, wake_dur |-> <<5, 2>>, ff_dur |-> <<7, 1>>]

\* Enumerations.
xl_mode_t == (3..7) \cup {0, 1}
gy_mode_t == {0, 1, 4, 5}
data_ready_mode_t == {0, 1}
gy_full_scale_t == (0..4) \cup {12}
xl_full_scale_t == 0..3
xl_self_test_t == 0..2
gy_self_test_t == 0..2
ois_xl_self_test_t == 0..2
ois_gy_self_test_t == (0..2) \cup {5, 6}
den_polarity_t == {0, 1}
eis_gy_full_scale_t == 0..4
gy_eis_data_rate_t == 0..2
fifo_compress_algo_t == 0..3
fifo_xl_batch_t == 0..12
fifo_gy_batch_t == 0..12
fifo_mode_t == (0..4) \cup {6, 7}
fifo_temp_batch_t == 0..3
fifo_timestamp_batch_t == 0..3
fifo_batch_cnt_event_t == 0..2
filt_anti_spike_t == {0, 1}
filt_gy_lp1_bandwidth_t == 0..7
filt_xl_lp2_bandwidth_t == 0..7
filt_xl_hp_mode_t == {0, 1}
filt_sixd_feed_t == {0, 1}
filt_gy_eis_lp_bandwidth_t == {0, 1}
filt_gy_ois_lp_bandwidth_t == 0..3
filt_xl_ois_lp_bandwidth_t == 0..7
fsm_permission_t == {0, 1}
fsm_data_rate_t == 0..6
fsm_ext_sens_z_orient_t == 0..5
fsm_ext_sens_y_orient_t == 0..5
fsm_ext_sens_x_orient_t == 0..5
ff_thresholds_t == 0..7
ois_ctrl_mode_t == {0, 1}
ois_gy_full_scale_t == 0..4
ois_xl_full_scale_t == 0..3
sixd_threshold_t == 0..3
i3c_reset_mode_t == {0, 1}
i3c_ibi_time_t == 0..3
sh_slave_connected_t == 0..3
sh_syncro_mode_t == {0, 1}
sh_write_mode_t == {0, 1}
sh_data_rate_t == 1..6
ui_i2c_i3c_mode_t == {0, 1}
spi_mode_t == {0, 1}
spi2_mode_t == {0, 1}
sflp_data_rate_t == 0..5
tap_axis_priority_t == (0..3) \cup {5, 6}
tap_mode_t == {0, 1}
act_mode_t == 0..3
act_from_sleep_to_act_dur_t == 0..3
act_sleep_xl_odr_t == 0..3
================================================================================
