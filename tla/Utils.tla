------------------------------- MODULE Utils -------------------------------
(***************************************************************************)
(* The arithmetic helpers every contract inherits (raiden/Utils.sol).      *)
(*                                                                         *)
(* A uint256 is a number in Uint.  Solidity 0.8 reverts when a checked     *)
(* operation leaves that range; inside an `unchecked` block the result     *)
(* wraps instead, which is Wrap.                                           *)
(***************************************************************************)
EXTENDS Integers

CONSTANT MAX_SAFE_UINT256   \* 2^256 - 1 in the contracts, small under TLC

ASSUME MaxIsNat == MAX_SAFE_UINT256 \in Nat

Uint == 0 .. MAX_SAFE_UINT256

Wrap(x) == x % (MAX_SAFE_UINT256 + 1)

min(a, b) == IF a > b THEN b ELSE a

\* What is left of a, and how much of b could be taken out of it.
failsafe_subtract(a, b) == IF a > b THEN <<a - b, b>> ELSE <<0, a>>

failsafe_additionWrapsMutant(a, b) == Wrap(a + b)

failsafe_addition(a, b) ==
  LET sum == Wrap(a + b)
  IN  IF sum >= a THEN sum ELSE MAX_SAFE_UINT256
=============================================================================
