-------------------------- MODULE Iqs9151Registers --------------------------
(***************************************************************************)
(* Where the configuration of the trackpad goes (drivers/input/iqs9151.c,  *)
(* iqs9151_regs.h): iqs9151_configure writes five tables in chunks, then   *)
(* single registers inside them are written over, at the start and again   *)
(* whenever a parameter is set.  A register is a byte with an address;     *)
(* its content is abstracted to whose byte it is, and which one.           *)
(***************************************************************************)
EXTENDS Integers, Sequences, SequencesExt

\* IQS9151_I2C_CHUNK_SIZE
ChunkSize == 30

Area(what, at, len) == [what |-> what, at |-> at, from |-> 0, len |-> len]

\* What is where, and how long.
Tables ==
  <<Area("alp_compensation", \h115C, 26), Area("main_config", \h1178, 126),
    Area("rxtx_map", \h1218, 46), Area("channel_disable", \h1246, 88),
    Area("snap_enable", \h129E, 88)>>

U8(what, at)  == Area(what, at, 1)
U16(what, at) == Area(what, at, 2)

\* The IC parameters, in the order of the table of parameters.
IcParams ==
  <<U8("touch_set_threshold", \h11CC), U8("touch_clear_threshold", \h11CD),
    U8("alp_set_debounce", \h11D0), U8("alp_clear_debounce", \h11D1),
    U8("stationary_touch_mov_threshold", \h11F0), U8("finger_split_factor", \h11F1),
    U8("jitter_filter_delta", \h11F4), U8("finger_confidence_threshold", \h11F5),
    U8("dynamic_filter_bottom_beta", \h11EE),
    U16("active_mode_sampling_period_ms", \h11A2),
    U16("idle_touch_mode_sampling_period_ms", \h11A4),
    U16("idle_mode_sampling_period_ms", \h11A6),
    U16("lp1_mode_sampling_period_ms", \h11A8),
    U16("lp2_mode_sampling_period_ms", \h11AA),
    U16("active_mode_timeout_ms", \h11B4), U16("idle_touch_mode_timeout_s", \h11AE),
    U16("idle_mode_timeout_s", \h11B0), U16("lp1_mode_timeout_s", \h11B2),
    U16("ati_targetcount", \h1196), U16("dynamic_filter_bottom_speed", \h11EA),
    U16("dynamic_filter_top_speed", \h11EC)>>

Geometry == <<U16("trackpad_settings", \h11E2), U16("x_resolution", \h11E6),
              U16("y_resolution", \h11E8)>>

Controls == <<U16("system_control", \h11BC), U16("config_settings", \h11BE)>>

-----------------------------------------------------------------------------
\* Mutant: the last chunk is not cut to what is left.
ChunkedFull(t) ==
  [k \in 1..(t.len + ChunkSize - 1) \div ChunkSize |->
     LET offset == (k - 1) * ChunkSize
     IN  [what |-> t.what, at |-> t.at + offset, from |-> offset, len |-> ChunkSize]]

\* iqs9151_write_chunks
Chunked(t) ==
  [k \in 1..(t.len + ChunkSize - 1) \div ChunkSize |->
     LET offset == (k - 1) * ChunkSize
         left   == t.len - offset
     IN  [what |-> t.what, at |-> t.at + offset, from |-> offset,
          len |-> IF left < ChunkSize THEN left ELSE ChunkSize]]

\* iqs9151_configure, iqs9151_apply_kconfig_overrides, iqs9151_run_ati,
\* iqs9151_set_event_mode.
ChunkWrites(tables) == FoldLeft(LAMBDA writes, t : writes \o Chunked(t), <<>>, tables)

ConfigureWrites == ChunkWrites(Tables)
Overrides       == Geometry \o IcParams \o Controls
InitWrites      == ConfigureWrites \o Overrides

Bytes(w) == w.at..w.at + w.len - 1

\* iqs9151_i2c_write: more than a chunk is refused; the address counts up from
\* byte to byte.
I2cWrite(regs, w) ==
  IF w.len > ChunkSize THEN regs
  ELSE [a \in DOMAIN regs \cup Bytes(w) |->
          IF a \in Bytes(w) THEN <<w.what, w.from + a - w.at>> ELSE regs[a]]

Written(writes) == FoldLeft(I2cWrite, <<>>, writes)

-----------------------------------------------------------------------------
Singles == ToSet(Overrides)

\* After initialisation every register is what was meant for it: a parameter or
\* setting has all its bytes, no write has reached into its neighbour, the rest
\* of the tables is where it belongs, and nothing outside them was written.
\* Writing a parameter again later changes no register but its own.
EveryByteLands ==
  LET regs == Written(InitWrites)
      meant(a) == IF \E s \in Singles : a \in Bytes(s)
                  THEN {<<s.what, a - s.at>> : s \in {s \in Singles : a \in Bytes(s)}}
                  ELSE {<<t.what, a - t.at>> : t \in {t \in ToSet(Tables) : a \in Bytes(t)}}
  IN  /\ DOMAIN regs = UNION {Bytes(t) : t \in ToSet(Tables)}
      /\ \A a \in DOMAIN regs : meant(a) = {regs[a]}
      /\ \A p \in ToSet(IcParams) : I2cWrite(regs, p) = regs
=============================================================================
