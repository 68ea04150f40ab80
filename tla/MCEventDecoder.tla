--------------------------- MODULE MCEventDecoder ---------------------------
(* The frames of the instance: preludes of two bytes, trailers of one.       *)
EXTENDS EventDecoder

H(name, value) == [name |-> name, value |-> value, size |-> 1, known |-> TRUE]
Unknown == [name |-> "other", value |-> "", size |-> 1, known |-> FALSE]
Frame(size, section, payload) ==
    [size |-> size, total |-> size, headers |-> Len(section),
     section |-> section, payload |-> payload]
Text(payload) == Frame(4, <<H(":event-type", "assistantResponseEvent")>>, payload)

MCFrames ==
    { Frame(3, <<>>, "empty"),                      \* the initial response
      Text("json"), Text("broken"),
      Frame(4, <<H(":exception-type", "ThrottlingException")>>, "broken"),
      Frame(5, <<H(":event-type", "citationEvent"), H(":event-type", "newEvent")>>, "json"),
      Frame(4, <<Unknown>>, "json"),                \* a value type from the future
      [Text("json") EXCEPT !.total = 9],            \* lengths that cannot be
      [Text("json") EXCEPT !.total = 2],
      [Text("json") EXCEPT !.total = 5],
      [Text("json") EXCEPT !.headers = 2] }
=============================================================================
