------------------------------- MODULE MCGpio -------------------------------
(* Two chips whose names and numbers sort differently, two objects. *)
EXTENDS Leds, TLC

CONSTANTS gpiochip2, gpiochip10, o1, o2

TwoAndTen == gpiochip2 :> 2 @@ gpiochip10 :> 10
TwoAndOne == gpiochip2 :> 2 @@ gpiochip10 :> 1

ObjectSymmetry == Permutations(Objects)
=============================================================================
