------------------------------ MODULE MCConsOutput ----------------------------
(* A letter, the three control characters, a tab and the sign-extended char of *)
(* a key such as Up; the default colours and red.                              *)
EXTENDS ConsOutput

MCPutChars == {97, BS, NL, CR, TAB, -30}
MCColors == {0, 4}
MCMachines == {{}, Ports}
===============================================================================
