-------------------------------- MODULE Time --------------------------------
(***************************************************************************)
(* Conversions between jiffies and wall-clock units (kernel/time/time.h).  *)
(* All of them are computed in unsigned int, so every intermediate result  *)
(* is reduced modulo UINT_RANGE (2^32 on the machine).                     *)
(***************************************************************************)
EXTENDS Naturals

CONSTANTS UINT_RANGE,    \* number of values of unsigned int
          TIMER_PERIOD,  \* jiffies in a second
          USEC           \* microseconds in a second

ASSUME TimeAssumption ==
  /\ UINT_RANGE \in Nat \ {0}
  /\ TIMER_PERIOD \in Nat \ {0}
  /\ USEC \in Nat \ {0}

UInt == 0 .. UINT_RANGE - 1

uint(n) == n % UINT_RANGE

sec_to_jiffies(sec) == uint(sec * TIMER_PERIOD)

usec_to_jiffies(usec) == uint(uint(usec * TIMER_PERIOD) + USEC - 1) \div USEC
=============================================================================
