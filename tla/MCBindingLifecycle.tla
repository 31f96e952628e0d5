------------------------- MODULE MCBindingLifecycle -------------------------
(* Two commands at a time, one of which resumes: a command that grants meets   *)
(* a pause, a stop, a device-revoke, an allowlist update and a claim at every  *)
(* file and every request.  The Server makes two grants, so a resume or an     *)
(* update replaces one while a Bridge may still run it.  The progress run      *)
(* offers every kind of command, register, retire-local and purge-local too,   *)
(* one command at a time.                                                      *)
EXTENDS BindingLifecycle, TLC

CONSTANTS first, second

TwoCommands == first :> {"claim", "pause", "stop", "forget", "allowlist"} @@ second :> {"resume"}
OneCommand == first :> Kind
=============================================================================
