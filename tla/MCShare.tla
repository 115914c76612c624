-------------------------------- MODULE MCShare -------------------------------
(***************************************************************************)
(* Share with two processes: sizes from the display (odd), from the        *)
(* arguments (one of them 0) and too large for the wire or the encoder; a  *)
(* keyframe interval of 0; a quality and a frame rate out of range; a      *)
(* wrong and a missing token.                                              *)
(***************************************************************************)
EXTENDS Share, TLC

MCDisplay == [width |-> 5, height |-> 3]
MCSecret == "changeme"

Plain == ShareConfig(MCSecret, 30, None, None)

MCConfigs == {
  Plain,
  [Plain EXCEPT !.width = 0, !.height = 64, !.keyframe_interval = 0],
  [Plain EXCEPT !.width = 65536], [Plain EXCEPT !.height = 16384],
  [Plain EXCEPT !.fps = 0], [Plain EXCEPT !.quality = 201],
  [Plain EXCEPT !.token = "other"], [Plain EXCEPT !.token = None] }

MCSymmetry == Permutations(Producers)
=============================================================================
