---------------------------- MODULE MCMaintenance ----------------------------
(* Two states and two countries with the rows that matter; three stations, *)
(* two of which a batch holds; a source whose rows meet incoming ones.      *)
EXTENDS Maintenance

repeater(i, b) == [id |-> i, data |-> "new", extra |-> None, frequency |-> TRUE, bad |-> b]
mute(i) == [repeater(i, None) EXCEPT !.frequency = FALSE]
MCRegions == <<[kind |-> "state", rows |-> <<repeater(1, None), repeater(2, "garbled"), repeater(3, None)>>],
               [kind |-> "state", rows |-> <<mute(3), repeater(4, None)>>],
               [kind |-> "country", rows |-> <<>>],
               [kind |-> "country", rows |-> <<repeater(5, None), repeater(6, "refused")>>]>>

place(c, k) == [call |-> c, code |-> k]
dated(c, d) == [call |-> c, day |-> d]
old == [id |-> 4, data |-> "old", extra |-> "kept"]
MCInitial == [station |-> {old}, weather_station |-> {place(c, None) : c \in {"a", "b", "c"}},
              weather_report |-> {dated("a", 0)}, aprs_packet |-> {dated("a", 0)}]
MCSource == [station |-> {old}, weather_station |-> {place("a", "US"), place("d", "CA")},
             weather_report |-> {dated("a", 0), dated("d", 0)}, aprs_packet |-> {dated("d", 0)}]
MCIncoming == {<<"weather_station", place("d", None)>>, <<"weather_report", dated("a", 1)>>}
MCTogether == {{"fetch", "clone"}, {"populate", "clone"}}
MCIncludes == {{}, {"weather_station"}}
MCExcludes == {{}, {"station", "aprs_packet"}}
=============================================================================
