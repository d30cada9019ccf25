-------------------------- MODULE MCLockstepMatch ---------------------------
(***************************************************************************)
(* LockstepMatch on two slots and two ticks.                               *)
(***************************************************************************)
EXTENDS LockstepMatch

CONSTANTS noop, portal

SomeMasks == {{noop}, {noop, portal}}
=============================================================================
