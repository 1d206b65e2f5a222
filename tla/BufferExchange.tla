--------------------------- MODULE BufferExchange ---------------------------
(***************************************************************************)
(* What a virtqueue promises its two clients: a buffer the driver lends    *)
(* reaches the device in the order it was offered, the device hands back   *)
(* what it holds in any order, and the driver reclaims the buffers in the  *)
(* order they were handed back.  At every moment a buffer is in exactly    *)
(* one of the four places.                                                 *)
(***************************************************************************)
EXTENDS Naturals, Sequences, FiniteSets

CONSTANTS Buffers,   \* the buffers the driver owns to begin with
          Capacity   \* the most buffers that can be lent at a time

VARIABLES pool,      \* buffers in the hands of the driver's client
          offered,   \* lent, not yet taken by the device
          atDevice,  \* in the hands of the device's client
          returned   \* handed back, not yet reclaimed

exchangeVars == <<pool, offered, atDevice, returned>>

ExchangeInit ==
  /\ pool = Buffers
  /\ offered = <<>>
  /\ atDevice = {}
  /\ returned = <<>>

Lend(b) ==
  /\ b \in pool
  /\ Len(offered) + Cardinality(atDevice) + Len(returned) < Capacity
  /\ pool' = pool \ {b}
  /\ offered' = Append(offered, b)
  /\ UNCHANGED <<atDevice, returned>>

Take ==
  /\ offered # <<>>
  /\ atDevice' = atDevice \cup {Head(offered)}
  /\ offered' = Tail(offered)
  /\ UNCHANGED <<pool, returned>>

HandBack(b) ==
  /\ b \in atDevice
  /\ atDevice' = atDevice \ {b}
  /\ returned' = Append(returned, b)
  /\ UNCHANGED <<pool, offered>>

Reclaim ==
  /\ returned # <<>>
  /\ pool' = pool \cup {Head(returned)}
  /\ returned' = Tail(returned)
  /\ UNCHANGED <<offered, atDevice>>

ExchangeNext ==
  \/ \E b \in Buffers : Lend(b) \/ HandBack(b)
  \/ Take
  \/ Reclaim

ExchangeSpec == ExchangeInit /\ [][ExchangeNext]_exchangeVars
=============================================================================
