---------------------------- MODULE MC_RuntimeConfig ----------------------------
(***************************************************************************)
(* RuntimeConfig with updates at the end of two ranges, below one, beyond  *)
(* a uint8_t and of no known key, and a device that starts without a file, *)
(* with one of the old format, or with one of the present format.          *)
(***************************************************************************)
EXTENDS RuntimeConfig

U(key, value) == [key |-> key, value |-> value]

MCUpdates ==
  {U("TEMP_THRESHOLD", 4), U("TEMP_THRESHOLD", 80), U("TEMP_THRESHOLD", 300),
   U("DIAG_PERIOD_MS", 60000), U("UNKNOWN", 7)}

OldFile == File("CFG1", V1Size, Config(40, 30, 4000, 2000, 1))
NewFile == File("CFG2", V2Size, Config(41, 34, 6000, 3000, 1))
SomeFiles == {EmptyFile, OldFile, NewFile}
=============================================================================
