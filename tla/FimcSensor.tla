------------------------------ MODULE FimcSensor ------------------------------
(***************************************************************************)
(* The camera sensor drivers (ov965x.c, s5k4ba.c, s5k3ba.c, s5k6aa.c,      *)
(* ov3640.c); one is built in.  A driver registers a struct                *)
(* s3c_fimc_camera, which says what the interface is to expect, and sends  *)
(* the sensor tables of I2C writes on the commands INIT, RESOLUTION and    *)
(* WB.  A table of sizes is modelled by the picture it makes the sensor    *)
(* send, one of white balance by its name.                                 *)
(***************************************************************************)
EXTENDS Integers

Resolutions   == {"DEFAULT", "QSVGA", "VGA", "SVGA", "SXGA", "UXGA", "MAX"}
WhiteBalances == {"AUTO", "INDOOR_3001", "OUTDOOR_5100", "INDOOR_2000",
                  "HALT", "CLOUDY", "SUNNY"}

\* struct s3c_fimc_camera as a driver registers it: no offset, not initialised.
NewCamera(mode, order422, width, height, vsync) ==
    [mode |-> mode, order422 |-> order422, width |-> width, height |-> height,
     vsync |-> vsync, offset |-> 0, initialized |-> FALSE]

ov965x_data == NewCamera("ITU_601", "YCBYCR", 640, 480, TRUE)
s5k4ba_data == NewCamera("ITU_601", "YCBYCR", 800, 600, TRUE)
s5k3ba_data == NewCamera("ITU_601", "YCRYCB", 800, 600, TRUE)
s5k6aa_data == NewCamera("MIPI", "CBYCRY", 640, 480, TRUE)
ov3640_data == NewCamera("ITU_601", "YCBYCR", 640, 480, FALSE)

(* The tables.  Of those of INIT the headers name the size (of s5k3ba_init_reg *)
(* no comment does: the one registered is taken).                              *)
ov965x_init_reg == <<640, 480>>
s5k4ba_init_reg == <<800, 600>>
s5k3ba_init_reg == <<800, 600>>
s5k6aa_init_reg == <<640, 480>>
ov3640_setting_15fps_VGA_640_480 == <<640, 480>>

s5k4ba_svga_reg  == <<800, 600>>
s5k4ba_qsvga_reg == <<400, 300>>

s5k4ba_wb == WhiteBalances
s5k3ba_wb == WhiteBalances

\* What a sensor is set to: nothing before INIT.
Unset == [width |-> 0, height |-> 0, wb |-> "none"]

Send(s, table) == [s EXCEPT !.width = table[1], !.height = table[2]]

\* The command functions: the sensor s after a command.  sizes has the tables of
\* RESOLUTION, balances the arguments of WB that have one; the others do nothing.
Command(init_reg, sizes, balances, s, cmd, arg) ==
    CASE cmd = "INIT"       -> [Send(s, init_reg) EXCEPT !.wb = "none"]
      [] cmd = "RESOLUTION" -> IF arg \in DOMAIN sizes THEN Send(s, sizes[arg]) ELSE s
      [] cmd = "WB"         -> IF arg \in balances THEN [s EXCEPT !.wb = arg] ELSE s

NoSizes == [r \in {} |-> <<0, 0>>]

s5k4ba_sizes ==
    [QSVGA |-> s5k4ba_qsvga_reg, SVGA |-> s5k4ba_svga_reg,
     DEFAULT |-> s5k4ba_svga_reg, MAX |-> s5k4ba_svga_reg]

ov965x_command(s, cmd, arg) == Command(ov965x_init_reg, NoSizes, {}, s, cmd, arg)
s5k4ba_command(s, cmd, arg) ==
    Command(s5k4ba_init_reg, s5k4ba_sizes, s5k4ba_wb, s, cmd, arg)
s5k3ba_command(s, cmd, arg) ==
    Command(s5k3ba_init_reg, NoSizes, s5k3ba_wb, s, cmd, arg)
s5k6aa_command(s, cmd, arg) == Command(s5k6aa_init_reg, NoSizes, {}, s, cmd, arg)
ov3640_command(s, cmd, arg) ==
    Command(ov3640_setting_15fps_VGA_640_480, NoSizes, {}, s, cmd, arg)

-----------------------------------------------------------------------------
Drivers == {"ov965x", "s5k4ba", "s5k3ba", "s5k6aa", "ov3640"}

Registered(driver) ==
    CASE driver = "ov965x" -> ov965x_data
      [] driver = "s5k4ba" -> s5k4ba_data
      [] driver = "s5k3ba" -> s5k3ba_data
      [] driver = "s5k6aa" -> s5k6aa_data
      [] driver = "ov3640" -> ov3640_data

SensorCommand(driver, s, cmd, arg) ==
    CASE driver = "ov965x" -> ov965x_command(s, cmd, arg)
      [] driver = "s5k4ba" -> s5k4ba_command(s, cmd, arg)
      [] driver = "s5k3ba" -> s5k3ba_command(s, cmd, arg)
      [] driver = "s5k6aa" -> s5k6aa_command(s, cmd, arg)
      [] driver = "ov3640" -> ov3640_command(s, cmd, arg)

\* Attaching registers the camera whether the sensor answers or not; the client
\* is what commands go through.  ov965x_probe keeps the client of a sensor that
\* did not answer, although the I2C core then leaves it without a driver.
attach(driver, answers) ==
    IF answers THEN "bound" ELSE IF driver = "ov965x" THEN "unbound" ELSE "none"
=============================================================================
