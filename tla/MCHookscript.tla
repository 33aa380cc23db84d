---------------------------- MODULE MCHookscript ----------------------------
(* VM ids for checking Hookscript.                                          *)
EXTENDS Hookscript

Apart == {<<1, 0, 1>>, <<1, 0, 2>>}
Prefixed == {<<1, 0, 1>>, <<1, 0, 1, 0>>}

=============================================================================
