------------------------------ MODULE MCStream ------------------------------
(***************************************************************************)
(* Stream with the formats that TLC tries for the header: every            *)
(* combination of flags, with values that make long and short words, and   *)
(* each ratio given by index or by value.  The header of one of them is    *)
(* followed by pictures and auxiliary data.                                *)
(***************************************************************************)
EXTENDS Stream

Plain(values) == {[flag |-> b, values |-> values] : b \in BOOLEAN}
Ratio(i) == {[flag |-> b, values |-> <<i>>, ratio |-> <<24000, 1001>>] : b \in BOOLEAN}
Part(b) == [flag |-> b, values |-> <<1>>]
Colour(i) == {[flag |-> b, values |-> <<i>>, parts |-> <<Part(TRUE), Part(a), Part(~a)>>]
                : a, b \in BOOLEAN}

Combine ==
    {<<d, <<>>, s, r, a, c, q, k>> :
        d \in Plain(<<1920, 1080>>), s \in Plain(<<1>>),
        r \in Ratio(0) \union Ratio(6), a \in Ratio(0) \union Ratio(1),
        c \in Plain(<<65534, 3, 0, 7>>), q \in Plain(<<3>>), k \in Colour(0) \union Colour(3)}

MCFormats == {[f EXCEPT ![2] = y] : f \in Combine, y \in Plain(<<1>>)}

MCFollowed == {f \in MCFormats : /\ \A g \in 1..8 : ~f[g].flag
                                 /\ f[4].values = <<0>> /\ f[5].values = <<0>> /\ f[8].values = <<0>>
                                 /\ ~f[8].parts[2].flag}
=============================================================================
