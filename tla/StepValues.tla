----------------------------- MODULE StepValues -----------------------------
(***************************************************************************)
(* The values that Task steps take and return.                             *)
(*                                                                         *)
(* A JavaScript value is a record whose one field names its type:          *)
(*   [string |-> tokens]  [number |-> n]  [boolean |-> b]  [null |-> TRUE] *)
(*   [object |-> record]  [array |-> sequence]  [undefined |-> TRUE].      *)
(* A string is a sequence of tokens: [text |-> t] is a run of characters   *)
(* with neither braces nor dots, [ref |-> r] a reference in double braces, *)
(* [json |-> v] the JSON text of v.                                        *)
(***************************************************************************)
Undefined == [undefined |-> TRUE]
Null == [null |-> TRUE]
Text(t) == [string |-> <<[text |-> t]>>]

IsString(v) == "string" \in DOMAIN v
IsArray(v) == "array" \in DOMAIN v
IsObject(v) == "object" \in DOMAIN v
IsNullish(v) == v \in {Undefined, Null}
=============================================================================
