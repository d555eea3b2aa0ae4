------------------------------ MODULE PriceCurve ------------------------------
(***************************************************************************)
(* get_mint_price of programs/gumball_nft/src/lib.rs: eleven points of an  *)
(* exponential curve and integer interpolation between them.  GumballMint  *)
(* takes any positive prices; ArithmeticProofs says what these ones are.   *)
(***************************************************************************)
EXTENDS Integers, Sequences

MAX_SUPPLY == 10000
BASE_PRICE == 10000000      \* 0.01 XNT in lamports
MAX_PRICE  == 40000000      \* 0.04 XNT
SCALE      == 10000         \* the fixed point of TABLE

\* SCALE * 4^(i/10) for i in 0..10
TABLE == <<10000, 11487, 13195, 15157, 17411, 20000, 22974, 26390, 30314, 34822, 40000>>

point(i) == TABLE[i + 1]

bucket(n) == (10 * n) \div MAX_SUPPLY
remainder(n) == (10 * n) % MAX_SUPPLY

\* Linear interpolation within the bucket of n.
interp(n) ==
    point(bucket(n))
      + ((point(bucket(n) + 1) - point(bucket(n))) * remainder(n)) \div MAX_SUPPLY

get_mint_price(n) ==
    IF n >= MAX_SUPPLY THEN MAX_PRICE ELSE (BASE_PRICE * interp(n)) \div SCALE

=============================================================================
