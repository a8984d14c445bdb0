--------------------------- MODULE MCThemisSession ---------------------------
(* The four services of Initialize_THEMIS_EXT, in their order: 1 MOUSE,      *)
(* 2 KEYBOARD, 3 VIDEO, 4 AUDIO; the last two run a thread.                  *)
EXTENDS ThemisSession
MCSenders == {3, 4}
AnyFails  == 0..4
LateServices == {3, 4}
=============================================================================
