------------------------------ MODULE MCLogic ------------------------------
(***************************************************************************)
(* An instance of Logic for TLC: packages of every kind the checks tell    *)
(* apart, with STRUCT_REGISTER two bytes long.                             *)
(***************************************************************************)
EXTENDS Logic

Bytes == <<{0, 2, 5, 7}, {1, 3, 4, 6}>>
OtherBytes == <<{0, 2, 5, 7}, {1, 3, 4}>>

Pack(code, body, crc) == [code |-> code, body |-> body, crc |-> crc]

MCPackage ==
    {Pack(CMD_PING, <<>>, {}),
     Pack(CMD_PING, <<>>, {0}),
     Pack(CMD_PING, <<{3}>>, Remainder(<<{3}>>)),
     Pack(CMD_REGISTER, Bytes, Remainder(Bytes)),
     Pack(CMD_REGISTER, OtherBytes, Remainder(Bytes)),
     Pack(CMD_REGISTER, <<{3}>>, Remainder(<<{3}>>)),
     Pack(CMD_REGISTER, <<>>, {}),
     Pack(CMD_LOGIN, <<>>, {}),
     Pack(1, <<>>, {}),
     Pack(AUTH_TOTAL_COMMANDS, <<>>, {}),
     Pack(AUTH_TOTAL_COMMANDS + 1, <<>>, {})}

\* The check value that tables of check sums give for CRC-32: 16#cbf43926# for
\* the characters "123456789".  It tells that Remainder is the right polynomial
\* division.
Digits ==
    LET digit(low) == low \cup {4, 5}
    IN  <<digit({0}), digit({1}), digit({0, 1}), digit({2}), digit({0, 2}), digit({1, 2}),
          digit({0, 1, 2}), digit({3}), digit({0, 3})>>

ASSUME CheckValue ==
    Remainder(Digits) = {31, 30, 27, 25, 24, 23, 22, 21, 20, 18, 13, 12, 11, 8, 5, 2, 1}

=============================================================================
