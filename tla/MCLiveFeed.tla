----------------------------- MODULE MCLiveFeed -----------------------------
(* Three rows of operator x, two of them located in different countries and *)
(* sent under different SSIDs, and one located row of operator y; a cache   *)
(* of one station, so that y evicts x.                                      *)
EXTENDS LiveFeed, TLC

x0 == [base |-> "x", ssid |-> 0]
x9 == [base |-> "x", ssid |-> 9]
y0 == [base |-> "y", ssid |-> 0]

MCRows   == {"p", "q", "r", "s"}
MCCallOrder == <<x0, x9, y0>>
MCCallOf    == [p |-> x0, q |-> x9, r |-> x0, s |-> y0]
MCCountryCode == [p |-> "DE", q |-> "US", r |-> "none", s |-> "DE"]

(* Received in the order they are named in, the other way round, at equal   *)
(* times, and mixed.                                                       *)
MCArrivals ==
    {[p |-> 1, q |-> 2, r |-> 3, s |-> 3],
     [p |-> 3, q |-> 2, r |-> 1, s |-> 1],
     [p |-> 1, q |-> 1, r |-> 2, s |-> 1],
     [p |-> 2, q |-> 3, r |-> 3, s |-> 1]}

=============================================================================
