----------------------------- MODULE FixedPoint -----------------------------
(***************************************************************************)
(* The rounding and width rules of include/market/fixed_point.hpp and       *)
(* rtl/fixed_point_pkg.sv, and the microprice computed with them            *)
(* (src/market/order_book.cpp, rtl/feature_engine.sv).  WideLimit stands    *)
(* for 2^63: a wide value is in -WideLimit .. WideLimit - 1.  Signed        *)
(* overflow wraps here, as it does in the RTL and in the usual builds.      *)
(***************************************************************************)
EXTENDS Integers

CONSTANT WideLimit

ASSUME FixedPointAssumption == WideLimit \in Nat \ {0}

Representable(value) == value \in -WideLimit .. WideLimit - 1
wide(value) == ((value + WideLimit) % (2 * WideLimit)) - WideLimit

magnitude(value) == IF value < 0 THEN -value ELSE value

(* A mistake: plain integer division. *)
truncated_divide(numerator, denominator) ==
  LET quotient == magnitude(numerator) \div magnitude(denominator)
  IN IF (numerator < 0) # (denominator < 0) THEN -quotient ELSE quotient

(* Nearest, halves away from zero. *)
rounded_divide(numerator, denominator) ==
  LET n == magnitude(numerator)
      d == magnitude(denominator)
      quotient == (n \div d) + (IF n % d >= (d + 1) \div 2 THEN 1 ELSE 0)
  IN IF (numerator < 0) # (denominator < 0) THEN -quotient ELSE quotient

(* The best levels of two non-empty sides. *)
weighted_price(bid, ask) ==
  ask.price_ticks * bid.quantity + bid.price_ticks * ask.quantity
microprice_ticks(bid, ask) ==
  rounded_divide(wide(weighted_price(bid, ask)), bid.quantity + ask.quantity)
=============================================================================
