------------------------------ MODULE Codewords ------------------------------
(***************************************************************************)
(* The table of code words that coefficients are coded with, and of their  *)
(* lengths, by the quotient that quantisation makes of a coefficient.      *)
(***************************************************************************)
EXTENDS Integers

ilog2(x) == CHOOSE k \in 0..30 : 2^k <= x /\ x < 2 * 2^k

WLLUT == [d \in 0..255 |-> CASE d = 0 -> 1 [] d \in 1..2 -> 4 [] d \in 3..6 -> 6
                            [] d \in 7..14 -> 8 [] d \in 15..30 -> 10 [] d \in 31..62 -> 12
                            [] d \in 63..126 -> 14 [] d \in 127..254 -> 16 [] OTHER -> 18]

\* Words are right-aligned; the last bit of all but the first is the sign's.
CWLUT ==
    <<1, 2, 6, 2, 6, 18, 22, 2, 6, 18, 22, 66, 70, 82, 86, 2,
          6,    18,    22,    66,    70,    82,    86,   258,   262,   274,   278,   322,   326,   338,   342,     2,
          6,    18,    22,    66,    70,    82,    86,   258,   262,   274,   278,   322,   326,   338,   342,  1026,
       1030,  1042,  1046,  1090,  1094,  1106,  1110,  1282,  1286,  1298,  1302,  1346,  1350,  1362,  1366,     2,
          6,    18,    22,    66,    70,    82,    86,   258,   262,   274,   278,   322,   326,   338,   342,  1026,
       1030,  1042,  1046,  1090,  1094,  1106,  1110,  1282,  1286,  1298,  1302,  1346,  1350,  1362,  1366,  4098,
       4102,  4114,  4118,  4162,  4166,  4178,  4182,  4354,  4358,  4370,  4374,  4418,  4422,  4434,  4438,  5122,
       5126,  5138,  5142,  5186,  5190,  5202,  5206,  5378,  5382,  5394,  5398,  5442,  5446,  5458,  5462,     2,
          6,    18,    22,    66,    70,    82,    86,   258,   262,   274,   278,   322,   326,   338,   342,  1026,
       1030,  1042,  1046,  1090,  1094,  1106,  1110,  1282,  1286,  1298,  1302,  1346,  1350,  1362,  1366,  4098,
       4102,  4114,  4118,  4162,  4166,  4178,  4182,  4354,  4358,  4370,  4374,  4418,  4422,  4434,  4438,  5122,
       5126,  5138,  5142,  5186,  5190,  5202,  5206,  5378,  5382,  5394,  5398,  5442,  5446,  5458,  5462, 16386,
      16390, 16402, 16406, 16450, 16454, 16466, 16470, 16642, 16646, 16658, 16662, 16706, 16710, 16722, 16726, 17410,
      17414, 17426, 17430, 17474, 17478, 17490, 17494, 17666, 17670, 17682, 17686, 17730, 17734, 17746, 17750, 20482,
      20486, 20498, 20502, 20546, 20550, 20562, 20566, 20738, 20742, 20754, 20758, 20802, 20806, 20818, 20822, 21506,
      21510, 21522, 21526, 21570, 21574, 21586, 21590, 21762, 21766, 21778, 21782, 21826, 21830, 21842, 21846,     2>>
=============================================================================
