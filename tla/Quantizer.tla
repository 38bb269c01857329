----------------------------- MODULE Quantizer -----------------------------
(***************************************************************************)
(* The error-controlled quantizer of the vectorised ("knl") kernels.       *)
(*                                                                         *)
(* Numbers of the element type T are integers on some lattice.  Rounding   *)
(* to T is the operator Fl, and the product fabs(diff) * recip_precision,  *)
(* truncated, is the operator Scale; neither is assumed to be accurate.    *)
(* The type int is bounded: conversion and arithmetic beyond IntMax give   *)
(* what x86 gives (INT_MIN for the conversion, wrap-around otherwise).     *)
(***************************************************************************)
EXTENDS Integers

CONSTANTS
  Precision,  (* the absolute error bound                                  *)
  IntMax,     (* INT_MAX                                                   *)
  Fl(_),      (* rounding to T                                             *)
  Scale(_)    (* (integer part of) |diff| * recip_precision                *)

ASSUME QuantizerAssumption ==
  /\ Precision \in Nat \ {0}
  /\ IntMax \in Nat \ {0} /\ IntMax % 2 = 1
  /\ Fl(0) = 0

Abs(x) == IF x < 0 THEN -x ELSE x
IntMin == -IntMax - 1

ToInt(x) == IF x \in 0 .. IntMax THEN x ELSE IntMin
Wrap(x) == IF x > IntMax THEN x - 2 * (IntMax + 1)
           ELSE IF x < IntMin THEN x + 2 * (IntMax + 1)
           ELSE x

\* The check the code makes before it trusts a reconstruction.
WithinPrecision(cur, dec) == ~(Abs(Fl(cur - dec)) > Precision)

\* The quantization code of cur against pred and the value it stands for;
\* code 0, with cur itself, when no code may be used.
Quantize_unchecked(cur, pred, capacity, radius) ==
  LET diff  == Fl(cur - pred)
      half  == Wrap(ToInt(Scale(Abs(diff))) + 1) \div 2
      quant == IF diff < 0 THEN Wrap(-Wrap(2 * half)) ELSE Wrap(2 * half)
  IN  IF Wrap(ToInt(Scale(Abs(diff))) + 1) < capacity
      THEN [type |-> IF diff < 0 THEN radius - half ELSE radius + half,
            dec  |-> Fl(pred + Fl(quant * Precision))]
      ELSE [type |-> 0, dec |-> cur]
Quantize_offByOne(cur, pred, capacity, radius) ==
  LET diff  == Fl(cur - pred)
      index == Wrap(ToInt(Scale(Abs(diff))) + 1)
      half  == index \div 2
      quant == IF diff < 0 THEN Wrap(-Wrap(2 * half)) ELSE Wrap(2 * half)
      dec   == Fl(pred + Fl(quant * Precision))
  IN  IF index <= capacity /\ WithinPrecision(cur, dec)
      THEN [type |-> IF diff < 0 THEN radius - half ELSE radius + half, dec |-> dec]
      ELSE [type |-> 0, dec |-> cur]
Quantize(cur, pred, capacity, radius) ==
  LET diff  == Fl(cur - pred)
      index == Wrap(ToInt(Scale(Abs(diff))) + 1)            \* quant_index
      half  == index \div 2                                 \* half_index
      quant == IF diff < 0 THEN Wrap(-Wrap(2 * half)) ELSE Wrap(2 * half)
      dec   == Fl(pred + Fl(quant * Precision))             \* decompressed_data
  IN  IF index < capacity /\ WithinPrecision(cur, dec)
      THEN [type |-> IF diff < 0 THEN radius - half ELSE radius + half, dec |-> dec]
      ELSE [type |-> 0, dec |-> cur]

\* What the decompressor makes of a non-zero code.
Recover(pred, type, radius) ==
  Fl(pred + Fl(Wrap(2 * (type - radius)) * Precision))
=============================================================================
