---------------------------- MODULE MCOpenampBoot ---------------------------
(* Model-checking instance of OpenampBoot: the two virtual UARTs of main.c.  *)
EXTENDS OpenampBoot

TwoUarts == <<"vuart0", "vuart1">>
=============================================================================
