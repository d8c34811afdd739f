------------------------------ MODULE Serialization ------------------------------
(***************************************************************************)
(* How a parameter is written: its serialization method, a record          *)
(* [style, explode], and the kinds of value a decoder takes in it.         *)
(***************************************************************************)
CONSTANT
    None          \* an explode that is not given

\* Parameter.SerializationMethod
MethodOf(p) ==
    LET flat == p.in \in {"path", "header"}
    IN  [style   |-> IF p.style # "" THEN p.style ELSE IF flat THEN "simple" ELSE "form",
         explode |-> IF p.explode # None THEN p.explode ELSE ~flat]

\* Encoding.SerializationMethod, of an encoding that may be nil
EncodingMethod(enc) ==
    [style   |-> IF enc # None /\ enc.style # "" THEN enc.style ELSE "form",
     explode |-> IF enc # None /\ enc.explode # None THEN enc.explode ELSE TRUE]

\* Which method a decoder takes for which kind of value.
Takes(in, sm, kind) ==
    CASE in = "path"   -> sm.style \in {"simple", "label", "matrix"}
      [] in = "header" -> sm.style = "simple"
      [] in = "cookie" -> sm.style = "form" /\ (kind = "primitive" \/ ~sm.explode)
      [] in = "query"  -> CASE kind = "primitive" -> sm.style = "form"
                            [] kind = "array"     -> sm.style # "deepObject"
                            [] kind = "object"    -> sm.style \in {"form", "deepObject"}
=================================================================================
