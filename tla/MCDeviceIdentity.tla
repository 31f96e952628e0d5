-------------------------- MODULE MCDeviceIdentity --------------------------
(* An enrolment and two rotations, or a rotation crossed by renewals and      *)
(* policy updates.  The device may stop for good (no deadlock check): a key   *)
(* that was generated without its metadata makes every command refuse, and   *)
(* the bounds leave no key or operation to generate.                         *)
EXTENDS DeviceIdentity
=============================================================================
