--------------------------- MODULE MCGoogleSheets ---------------------------
(* Instances of GoogleSheets for TLC. *)
EXTENDS GoogleSheets

\* A message key for which strconv.Atoi fails.
CONSTANT NotANumber

MCBadKeys == {NotANumber}

\* m1 in the transformer's format (keys "0".."n-1", as the package test
\* sends them); m2 numbered from 1, as in parseTransformedData's comment;
\* m3 with a key past the end and one that is not a number, which panics
\* or is refused with 400 depending on Go's map iteration order.
MCPayload ==
    [m \in {"m1", "m2", "m3"} |->
        CASE m = "m1" -> (0 :> "v1" @@ 1 :> "v2")
          [] m = "m2" -> (1 :> "v1" @@ 2 :> "v2")
          [] m = "m3" -> (2 :> "v1" @@ NotANumber :> "v2")]
====
