-------------------------------- MODULE MCJson --------------------------------
(***************************************************************************)
(* JsonDocument for TLC: alphabets for the structure of documents, for     *)
(* objects in each other, for numbers, for escapes, for surrogate pairs,   *)
(* for UTF-8, and for literals and whitespace.                             *)
(***************************************************************************)
EXTENDS JsonDocument

MCAlphabets ==
    {[bytes |-> {"{", "}", "[", "]", ":", ",", Quote, "0"}, max |-> 6],
     [bytes |-> {"{", "}", ":", ",", Quote, "0"}, max |-> 8],
     [bytes |-> {"[", "]", ",", "-", "0", "7", ".", "e", "E", "+"}, max |-> 6],
     [bytes |-> {Quote, Escape, "u", "n", "x", "0022", "0001", "000a"}, max |-> 6],
     [bytes |-> {Quote, Escape, "u", HighSurrogate, LowSurrogate}, max |-> 8],
     [bytes |-> {Quote, Escape, "ctl", "c3", "f0", "80", "ff", "x"}, max |-> 6],
     [bytes |-> {"[", "]", ",", " ", "n", "u", "l", "0"}, max |-> 6]}
==============================================================================
