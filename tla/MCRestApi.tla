----------------------------- MODULE MCRestApi -----------------------------
(* Two request threads, a request log listed in two page sizes, a weather   *)
(* request log and a latest report; one input per way a handler goes on or  *)
(* refuses.                                                                 *)
EXTENDS RestApi, TLC

MCKeys == {[table |-> "request", size |-> 1], [table |-> "request", size |-> 2],
           [table |-> "wx_request", size |-> 1], [table |-> "report", size |-> 1]}

num(n) == <<"num", n>>
Default == [handler |-> "nearest", key |-> "ok", body |-> "given", lat |-> num(37), lon |-> num(-180),
            count |-> <<>>, names |-> <<>>, fields |-> {}]
History == [Default EXCEPT !.handler = "wx_history", !.names = <<"a">>, !.fields = {"temperature"}]

Refused ==
    {[Default EXCEPT !.key = "wrong"],
     [Default EXCEPT !.lon = num(181)],
     [Default EXCEPT !.handler = "location", !.names = <<"a", "b", "c">>],
     [Default EXCEPT !.handler = "aprsfi_location", !.key = "unset"],
     [History EXCEPT !.lat = num(0), !.lon = num(18)]}
Listing == [Default EXCEPT !.handler = "requests", !.count = num(2)]
WxStationList == [Default EXCEPT !.handler = "wx_stations"]

NearestTwo == [Default EXCEPT !.handler = "wxnearest", !.count = num(2)]
Latest == [Default EXCEPT !.handler = "wxstation_report", !.count = num(7)]
ByCallsign == [Default EXCEPT !.handler = "stations", !.names = <<"a">>]
WxListing == [Default EXCEPT !.handler = "wxrequests", !.count = num(1)]

Limits(a, b, c) == [request |-> a, wx_request |-> b, report |-> c]

MCLoads ==
    {[inputs |-> {Default, Listing, [Listing EXCEPT !.count = num(0)]},
      rows |-> Limits(2, 0, 0), stations |-> 0],
     [inputs |-> {NearestTwo, Latest, ByCallsign, WxListing, Default}, rows |-> Limits(1, 1, 1), stations |-> 0],
     [inputs |-> Refused \cup {WxStationList, [History EXCEPT !.lat = num(2), !.lon = num(13)]},
      rows |-> Limits(0, 0, 0), stations |-> 2]}

=============================================================================
