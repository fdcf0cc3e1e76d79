---------------------------- MODULE MCEventSchema ----------------------------
(* Model-checking instance of EventSchema: one write key, two event kinds,  *)
(* two flattened fields and three payload shapes.                           *)
EXTENDS EventSchema

MCFields     == {"a", "b"}
MCFieldOrder == <<"a", "b">>

\* {a: "x"}, {a: "x", b: 1} and {a: 1}: a new field, and a type change.
MCPayloads ==
    { [a |-> "string",  b |-> Absent],
      [a |-> "string",  b |-> "float64"],
      [a |-> "float64", b |-> Absent] }

\* Two payloads: one shape without and one with a second field.
MCPayloads2 ==
    { [a |-> "string", b |-> Absent],
      [a |-> "string", b |-> "float64"] }

\* None of the JSON scalar type names is a substring of another.
MCSubTypeName == {}
=============================================================================
