-------------------------- MODULE MCWeatherData --------------------------
(* Small values for WeatherData: an area and a longer one that contains it, *)
(* lines with no, one and seven days ahead, one that is too short, one of   *)
(* no fields that ends the file, and one with a temperature without a '/'.  *)
EXTENDS WeatherData

CONSTANTS a, ab

(* Today 12 to 31 degrees, listed the wrong way round, with rain in a       *)
(* typhoon; fair days ahead.                                                *)
Temps == [k \in 0..7 |-> IF k = 0 THEN <<12, 31>> ELSE <<28, 18>>]
Sky == [k \in 0..7 |-> IF k = 0 THEN {"rain", "typhoon"} ELSE {"wind"}]

LineOf(area, fields) == [area |-> area, fields |-> fields, temps |-> Temps, sky |-> Sky]
NoSlash(area, fields) == [LineOf(area, fields) EXCEPT !.temps[1] = <<>>]

MCAlike == {<<a, ab>>, <<ab, a>>}
MCContents == {<<LineOf(ab, 8), LineOf(a, 17), LineOf(a, 0), LineOf(ab, 12)>>,
               <<LineOf(a, 12), LineOf(ab, 37)>>,
               <<LineOf(ab, 12), NoSlash(a, 17)>>}
MCIndexFiles == {{a}}
MCStart == {-1, 0, 1, 8}
MCTarget == {"TARGET_TEMPERATURE", "TARGET_IS_COLD", "TARGET_IS_HOT", "TARGET_IS_RAINY",
             "TARGET_IS_TYPHOON", "TARGET_WEATHER", "TARGET_INDEX"}
=============================================================================
