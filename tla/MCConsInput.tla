------------------------------ MODULE MCConsInput -----------------------------
(* NUL and a character on the line; 'a', Ctrl, Alt, the E0 prefix and Delete   *)
(* on the keyboard.                                                            *)
EXTENDS ConsInput

MCSerialBytes == {0, 98}
MCKbdBytes == {30, 29, 56, 224, 83}
===============================================================================
