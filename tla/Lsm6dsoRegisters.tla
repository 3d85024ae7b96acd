--------------------------- MODULE Lsm6dsoRegisters ----------------------------
(***************************************************************************)
(* The registers of LSM6DSO, by their layout in lsm6dso_reg.h, and the      *)
(* enumerations of the values that functions take and report.               *)
(***************************************************************************)
EXTENDS RegisterField

\* Registers: the lowest bit and the width of each field.
ctrl1_xl_t == [lpf2_xl_en |-> <<1, 1>>, fs_xl |-> <<2, 2>>, odr_xl |-> <<4, 4>>]
ctrl2_g_t == [fs_g |-> <<1, 3>>, odr_g |-> <<4, 4>>]
ctrl3_c_t == [sw_reset |-> <<0, 1>>, if_inc |-> <<2, 1>>, sim |-> <<3, 1>>,
    pp_od |-> <<4, 1>>, h_lactive |-> <<5, 1>>, bdu |-> <<6, 1>>, boot |-> <<7, 1>>]
ctrl6_c_t == [ftype |-> <<0, 3>>, usr_off_w |-> <<3, 1>>, xl_hm_mode |-> <<4, 1>>,
    den_mode |-> <<5, 3>>]
ctrl7_g_t == [ois_on |-> <<0, 1>>, usr_off_on_out |-> <<1, 1>>, ois_on_en |-> <<2, 1>>,
    hpm_g |-> <<4, 2>>, hp_en_g |-> <<6, 1>>, g_hm_mode |-> <<7, 1>>]
status_reg_t == [xlda |-> <<0, 1>>, gda |-> <<1, 1>>, tda |-> <<2, 1>>]
ctrl10_c_t == [timestamp_en |-> <<5, 1>>]
ctrl5_c_t == [st_xl |-> <<0, 2>>, st_g |-> <<2, 2>>, rounding |-> <<5, 2>>,
    xl_ulp_en |-> <<7, 1>>]
internal_freq_fine_t == [freq_fine |-> <<0, 8>>]
counter_bdr_reg1_t == [cnt_bdr_th |-> <<0, 3>>, trig_counter_bdr |-> <<5, 1>>,
    rst_counter_bdr |-> <<6, 1>>, dataready_pulsed |-> <<7, 1>>]
ctrl4_c_t == [lpf1_sel_g |-> <<1, 1>>, i2c_disable |-> <<2, 1>>, drdy_mask |-> <<3, 1>>,
    int2_on_int1 |-> <<5, 1>>, sleep_g |-> <<6, 1>>]
ctrl8_xl_t == [low_pass_on_6d |-> <<0, 1>>, xl_fs_mode |-> <<1, 1>>,
    hp_slope_xl_en |-> <<2, 1>>, fastsettl_mode_xl |-> <<3, 1>>,
    hp_ref_mode_xl |-> <<4, 1>>, hpcf_xl |-> <<5, 3>>]
tap_cfg0_t == [lir |-> <<0, 1>>, tap_z_en |-> <<1, 1>>, tap_y_en |-> <<2, 1>>,
    tap_x_en |-> <<3, 1>>, slope_fds |-> <<4, 1>>, sleep_status_on_int |-> <<5, 1>>,
    int_clr_on_read |-> <<6, 1>>]
pin_ctrl_t == [sdo_pu_en |-> <<6, 1>>, ois_pu_dis |-> <<7, 1>>]
status_spiaux_t == [xlda |-> <<0, 1>>, gda |-> <<1, 1>>, gyro_settling |-> <<2, 1>>]
int_ois_t == [st_xl_ois |-> <<0, 2>>, den_lh_ois |-> <<5, 1>>, lvl2_ois |-> <<6, 1>>,
    int2_drdy_ois |-> <<7, 1>>]
ctrl1_ois_t == [ois_en_spi2 |-> <<0, 1>>, fs_g_ois |-> <<1, 3>>, mode4_en |-> <<4, 1>>,
    sim_ois |-> <<5, 1>>, lvl1_ois |-> <<6, 1>>]
ctrl2_ois_t == [hp_en_ois |-> <<0, 1>>, ftype_ois |-> <<1, 2>>, hpm_ois |-> <<4, 2>>]
ctrl3_ois_t == [st_ois_clampdis |-> <<0, 1>>, st_ois |-> <<1, 2>>,
    filter_xl_conf_ois |-> <<3, 3>>, fs_xl_ois |-> <<6, 2>>]
i3c_bus_avb_t == [pd_dis_int1 |-> <<0, 1>>, i3c_bus_avb_sel |-> <<3, 2>>]
wake_up_dur_t == [sleep_dur |-> <<0, 4>>, wake_ths_w |-> <<4, 1>>, wake_dur |-> <<5, 2>>,
    ff_dur |-> <<7, 1>>]
wake_up_ths_t == [wk_ths |-> <<0, 6>>, usr_off_on_wu |-> <<6, 1>>,
    single_double_tap |-> <<7, 1>>]
tap_cfg2_t == [tap_ths_y |-> <<0, 5>>, inact_en |-> <<5, 2>>,
    interrupts_enable |-> <<7, 1>>]
tap_cfg1_t == [tap_ths_x |-> <<0, 5>>, tap_priority |-> <<5, 3>>]
tap_ths_6d_t == [tap_ths_z |-> <<0, 5>>, sixd_ths |-> <<5, 2>>, d4d_en |-> <<7, 1>>]
int_dur2_t == [shock |-> <<0, 2>>, quiet |-> <<2, 2>>, dur |-> <<4, 4>>]
free_fall_t == [ff_ths |-> <<0, 3>>, ff_dur |-> <<3, 5>>]
emb_func_init_b_t == [fsm_init |-> <<0, 1>>, fifo_compr_init |-> <<3, 1>>]
fifo_ctrl2_t == [wtm |-> <<0, 1>>, uncoptr_rate |-> <<1, 2>>, odrchg_en |-> <<4, 1>>,
    fifo_compr_rt_en |-> <<6, 1>>, stop_on_wtm |-> <<7, 1>>]
fifo_ctrl3_t == [bdr_xl |-> <<0, 4>>, bdr_gy |-> <<4, 4>>]
fifo_ctrl4_t == [fifo_mode |-> <<0, 3>>, odr_t_batch |-> <<4, 2>>,
    odr_ts_batch |-> <<6, 2>>]
fifo_status2_t == [diff_fifo |-> <<0, 2>>, over_run_latched |-> <<3, 1>>,
    counter_bdr_ia |-> <<4, 1>>, fifo_full_ia |-> <<5, 1>>, fifo_ovr_ia |-> <<6, 1>>,
    fifo_wtm_ia |-> <<7, 1>>]
fifo_data_out_tag_t == [tag_parity |-> <<0, 1>>, tag_cnt |-> <<1, 2>>,
    tag_sensor |-> <<3, 5>>]
emb_func_fifo_cfg_t == [pedo_fifo_en |-> <<6, 1>>]
slv0_config_t == [slave0_numop |-> <<0, 3>>, batch_ext_sens_0_en |-> <<3, 1>>,
    shub_odr |-> <<6, 2>>]
slv1_config_t == [slave1_numop |-> <<0, 3>>, batch_ext_sens_1_en |-> <<3, 1>>]
slv2_config_t == [slave2_numop |-> <<0, 3>>, batch_ext_sens_2_en |-> <<3, 1>>]
slv3_config_t == [slave3_numop |-> <<0, 3>>, batch_ext_sens_3_en |-> <<3, 1>>]
ctrl9_xl_t == [i3c_disable |-> <<1, 1>>, den_lh |-> <<2, 1>>, den_xl_g |-> <<3, 2>>,
    den_z |-> <<5, 1>>, den_y |-> <<6, 1>>, den_x |-> <<7, 1>>]
pedo_cmd_reg_t == [ad_det_en |-> <<0, 1>>, fp_rejection_en |-> <<2, 1>>,
    carry_count_en |-> <<3, 1>>]
emb_func_status_t == [is_step_det |-> <<3, 1>>, is_tilt |-> <<4, 1>>,
    is_sigmot |-> <<5, 1>>, is_fsm_lc |-> <<7, 1>>]
mag_cfg_a_t == [mag_z_axis |-> <<0, 3>>, mag_y_axis |-> <<4, 3>>]
mag_cfg_b_t == [mag_x_axis |-> <<0, 3>>]
fsm_long_counter_clear_t == [fsm_lc_clr |-> <<0, 2>>]
emb_func_odr_cfg_b_t == [fsm_odr |-> <<3, 2>>]
master_config_t == [aux_sens_on |-> <<0, 2>>, master_on |-> <<2, 1>>,
    shub_pu_en |-> <<3, 1>>, pass_through_mode |-> <<4, 1>>, start_config |-> <<5, 1>>,
    write_once |-> <<6, 1>>, rst_master_regs |-> <<7, 1>>]

\* Enumerations.
fs_xl_t == 0..3
odr_xl_t == 0..11
fs_g_t == (0..2) \cup {4, 6}
odr_g_t == 0..10
usr_off_w_t == {0, 1}
g_hm_mode_t == {0, 1}
rounding_t == 0..3
dataready_pulsed_t == {0, 1}
st_xl_t == 0..2
st_g_t == {0, 1, 3}
ftype_t == 0..7
hp_slope_xl_en_t == (0..7) \cup (16..23) \cup (49..55)
slope_fds_t == {0, 1}
hpm_g_t == (128..131) \cup {0}
ois_pu_dis_t == {0, 1}
xl_fs_mode_t == {0, 1}
st_xl_ois_t == 0..2
den_lh_ois_t == {0, 1}
ois_en_spi2_t == {0, 1, 3}
fs_g_ois_t == (0..2) \cup {4, 6}
sim_ois_t == {0, 1}
ftype_ois_t == 0..3
hpm_ois_t == (16..19) \cup {0}
st_ois_clampdis_t == {0, 1}
st_ois_t == {0, 1, 3}
filter_xl_conf_ois_t == 0..7
fs_xl_ois_t == 0..3
sdo_pu_en_t == {0, 1}
sim_t == {0, 1}
i2c_disable_t == {0, 1}
int1_pd_en_t == {0, 1}
pp_od_t == {0, 1}
h_lactive_t == {0, 1}
wake_ths_w_t == {0, 1}
sleep_status_on_int_t == {0, 1}
inact_en_t == 0..3
tap_priority_t == (0..3) \cup {5, 6}
single_double_tap_t == {0, 1}
sixd_ths_t == 0..3
ff_ths_t == 0..7
uncoptr_rate_t == (4..7) \cup {0}
bdr_xl_t == 0..11
bdr_gy_t == 0..11
fifo_mode_t == {0, 1, 3, 4, 6, 7}
odr_t_batch_t == 0..3
odr_ts_batch_t == 0..3
trig_counter_bdr_t == {0, 1}
fifo_tag_t == (1..21) \cup {25}
den_mode_t == (2..4) \cup {0, 6}
den_lh_t == {0, 1}
den_xl_g_t == 0..2
pedo_md_t == {0, 16, 48}
carry_count_en_t == {0, 1}
mag_z_axis_t == 0..5
mag_y_axis_t == 0..5
mag_x_axis_t == 0..5
fsm_lc_clr_t == 0..2
fsm_odr_t == 0..3
aux_sens_on_t == 0..3
shub_pu_en_t == {0, 1}
start_config_t == {0, 1}
write_once_t == {0, 1}
shub_odr_t == 0..3
================================================================================
