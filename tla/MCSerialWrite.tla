---------------------------- MODULE MCSerialWrite ----------------------------
(***************************************************************************)
(* An instance of SerialWrite for TLC.                                     *)
(***************************************************************************)
EXTENDS SerialWrite

(* A newline becomes two bytes. *)
SomeTexts == {<<"\n">>}
===============================================================================
