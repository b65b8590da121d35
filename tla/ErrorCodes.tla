----------------------------- MODULE ErrorCodes -----------------------------
(* The error codes a command can answer with (error.rs).  A fallible Rust    *)
(* function returns Result<u64, u32>; here its value is an integer, and      *)
(* Err(code) is the negative number -code.  Every Ok value is a natural.     *)
EXTENDS Integers

ERROR_INVALID_BET_AMOUNT     == 1
ERROR_MARKET_NOT_ACTIVE      == 2
ERROR_MARKET_NOT_RESOLVED    == 3
ERROR_INSUFFICIENT_BALANCE   == 4
ERROR_ALREADY_CLAIMED        == 5
ERROR_PLAYER_NOT_EXIST       == 6
ERROR_MARKET_ALREADY_RESOLVED == 7
ERROR_PLAYER_ALREADY_EXISTS  == 8
ERROR_OVERFLOW               == 100
ERROR_DIVISION_BY_ZERO       == 101
ERROR_UNDERFLOW              == 102
ERROR_BET_TOO_LARGE          == 103
ERROR_LIQUIDITY_TOO_HIGH     == 104
ERROR_INVALID_CALCULATION    == 105
ERROR_NO_WINNING_POSITION    == 1007
ERROR_INVALID_BET_TYPE       == 1011
ERROR_INVALID_MARKET_TIME    == 1012
ERROR_NO_FEES_TO_WITHDRAW    == 1013

NoError == 0

Err(code) == -code

=============================================================================
