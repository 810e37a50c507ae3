------------------------------ MODULE FimcScaler ------------------------------
(***************************************************************************)
(* The scaler arithmetic of the FIMC driver (s3c_fimc_cfg.c): factors of   *)
(* the pre-scaler and the main scaler, and the test of a zoom step.  sc is *)
(* a record with the fields of struct s3c_fimc_scaler; real_width and      *)
(* real_height are unsigned there and read back as int.                    *)
(***************************************************************************)
EXTENDS Integers, Sequences

ZOOM_PIXELS == 32   \* S3C_FIMC_ZOOM_PIXELS

\* ARM has no divide instruction here: __div0 returns 0.
Div(a, b) == IF b = 0 THEN 0 ELSE a \div b

Pow2 == [i \in 0..10 |-> <<1, 2, 4, 8, 16, 32, 64, 128, 256, 512, 1024>>[i + 1]]

\* s3c_fimc_get_scaler_factor: <<ratio, shift>>.  From 64 times the target on it
\* returns an error the caller ignores, and the old factors stay.
BadScalerFactor(src, tar, ratio, shift) ==   \* > for >= at each power
    IF src >= tar * 64 THEN <<ratio, shift>>
    ELSE LET s == CHOOSE i \in 0..5 : /\ i = 0 \/ src > tar * Pow2[i]
                                      /\ \A j \in 0..5 : j > i => src <= tar * Pow2[j]
         IN  <<Pow2[s], s>>

get_scaler_factor(src, tar, ratio, shift) ==
    CASE src >= tar * 64                     -> <<ratio, shift>>
      [] src >= tar * 32 /\ src < tar * 64   -> <<32, 5>>
      [] src >= tar * 16 /\ src < tar * 32   -> <<16, 4>>
      [] src >= tar * 8  /\ src < tar * 16   -> <<8, 3>>
      [] src >= tar * 4  /\ src < tar * 8    -> <<4, 2>>
      [] src >= tar * 2  /\ src < tar * 4    -> <<2, 1>>
      [] src < tar * 2                       -> <<1, 0>>

\* The sizes s3c_fimc_set_scaler_info can work with; with others it returns an
\* error, which start_dma ignores too.
ScalerAccepts(sx, sy, tx, ty) == tx > 0 /\ ty > 0 /\ sx > 0 /\ sy > 0

\* s3c_fimc_set_scaler_info for a source of sx by sy and a target of tx by ty.
set_scaler_info(sc, sx, sy, tx, ty) ==
    LET h == get_scaler_factor(sx, tx, sc.pre_hratio, sc.hfactor)
        v == get_scaler_factor(sy, ty, sc.pre_vratio, sc.vfactor)
        real == IF tx > 0 /\ ty > 0
                THEN [sc EXCEPT !.real_width = sx, !.real_height = sy] ELSE sc
    IN  IF ScalerAccepts(sx, sy, tx, ty)
        THEN [real EXCEPT
                !.pre_hratio = h[1], !.hfactor = h[2],
                !.pre_vratio = v[1], !.vfactor = v[2],
                !.pre_dst_width  = Div(sx, h[1]),
                !.pre_dst_height = Div(sy, v[1]),
                !.main_hratio = (sx * 256) \div (tx * Pow2[h[2]]),
                !.main_vratio = (sy * 256) \div (ty * Pow2[v[2]]),
                !.scaleup_h = tx >= sx, !.scaleup_v = ty >= sy]
        ELSE real

-----------------------------------------------------------------------------
(* s3c_fimc_check_zoom *)

\* "zoom_size / pre_hratio > line_length" in unsigned arithmetic: a negative size
\* divided by at most 32 is still above 2^26, more than any line buffer holds.
Above(zoom_size, pre_hratio, line_length) ==
    IF zoom_size < 0 /\ pre_hratio # 0 THEN TRUE
    ELSE Div(zoom_size, pre_hratio) > line_length

BadMayZoomIn(sc, offset) ==   \* what is left after the step, offsets taken off once
    ~Above(sc.real_width - 2 * ZOOM_PIXELS, sc.pre_hratio, sc.line_length)

\* real_width is already without the offsets; they are taken off again.
MayZoomIn(sc, offset) ==
    ~Above(sc.real_width - (2 * offset + 2 * ZOOM_PIXELS), sc.pre_hratio, sc.line_length)

BadMayZoomOut(sc) == TRUE   \* without the test

MayZoomOut(sc) == sc.zoom_depth > 0
=============================================================================
