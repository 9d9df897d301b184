--------------------------- MODULE StepTemplates ---------------------------
(***************************************************************************)
(* The references a Task step may make to the results of earlier steps,    *)
(* {{step1.output.items[0].id}} or {{number(step1.output.n)}}, and how     *)
(* they are validated and resolved (application/services/                  *)
(* template-resolver.ts).                                                  *)
(*                                                                         *)
(* A reference is [helper, parts], the parts being what split(".")         *)
(* returns, each [name, index]; the index is Plain when the segment has no *)
(* [n] at its end.                                                         *)
(***************************************************************************)
EXTENDS StepValues, Integers, Sequences, SequencesExt

Plain == -1
Helpers == {"string", "number", "boolean", "json"}
Segment(name) == [name |-> name, index |-> Plain]
Mangled == Segment("}}{{")                    \* a name that no result has

\* The results a step may refer to, by the name of their step.
buildStepContext(completed) ==
  [k \in {s.key : s \in completed} |->
     LET s == CHOOSE t \in completed : t.key = k
     IN [output |-> s.output, status |-> s.status, error |-> s.error]]

Property(v, name) ==
  IF IsObject(v) /\ name \in DOMAIN v.object THEN v.object[name] ELSE Undefined

navigatePath(v, segment) ==
  IF segment.index = Plain THEN Property(v, segment.name)
  ELSE LET container == Property(v, segment.name)
       IN IF IsArray(container) /\ segment.index < Len(container.array)
          THEN container.array[segment.index + 1] ELSE Undefined

\* Number(v): NaN (here Undefined) for what is no numeral.
NumberOf(v) ==
  CASE "number" \in DOMAIN v -> v
    [] "boolean" \in DOMAIN v -> [number |-> IF v.boolean THEN 1 ELSE 0]
    [] IsString(v) ->
         CASE v.string = <<>> -> [number |-> 0]
           [] v = Text("0") -> [number |-> 0]
           [] v = Text("1") -> [number |-> 1]
           [] v = Text("12") -> [number |-> 12]
           [] OTHER -> Undefined
    [] IsArray(v) /\ v.array = <<>> -> [number |-> 0]
    [] OTHER -> Undefined

Truthy(v) ==
  CASE IsString(v) -> v.string # <<>>
    [] "number" \in DOMAIN v -> v.number # 0
    [] OTHER -> TRUE

applyConversionHelper(helper, v) ==
  CASE helper = "string" ->
         IF v = Undefined THEN Text("undefined")
         ELSE IF v = Null THEN Text("null")
         ELSE IF IsString(v) THEN v ELSE [string |-> <<[json |-> v]>>]
    [] IsNullish(v) -> v
    [] helper = "number" -> IF NumberOf(v) = Undefined THEN v ELSE NumberOf(v)
    [] helper = "boolean" ->
         IF "boolean" \in DOMAIN v THEN v
         ELSE IF v \in {Text("true"), Text("1")} THEN [boolean |-> TRUE]
         ELSE IF v \in {Text("false"), Text("0")} THEN [boolean |-> FALSE]
         ELSE [boolean |-> Truthy(v)]
    [] helper = "json" -> IF IsString(v) THEN v ELSE [string |-> <<[json |-> v]>>]

\* The path behind a reference, its helper aside.  Any field but status and
\* error is taken for the output.
ResolvePath(parts, ctx) ==
  IF parts[1].name \notin DOMAIN ctx THEN Undefined
  ELSE LET step == ctx[parts[1].name]
           field == IF Len(parts) > 1 THEN parts[2] ELSE Segment("")
       IN IF field = Segment("status") THEN step.status
          ELSE IF field = Segment("error")
          THEN IF step.error = Undefined THEN Null ELSE step.error
          ELSE FoldLeft(navigatePath, step.output, SubSeq(parts, 3, Len(parts)))

resolveReference(ref, ctx) ==
  IF ref.helper \in Helpers
  THEN applyConversionHelper(ref.helper, ResolvePath(ref.parts, ctx))
  ELSE ResolvePath(ref.parts, ctx)

(***************************************************************************)
(* A string that begins with {{ and ends with }} is taken for one          *)
(* reference, also when it holds several: the pattern is greedy.  The      *)
(* characters between two references then become part of a segment.        *)
(***************************************************************************)
IsRef(token) == "ref" \in DOMAIN token

Spans(tokens) == tokens # <<>> /\ IsRef(Head(tokens)) /\ IsRef(Last(tokens))

SpanningReference(tokens) ==
  LET refs == [i \in 1..Len(SelectSeq(tokens, IsRef)) |-> SelectSeq(tokens, IsRef)[i].ref]
      first == Head(refs)
      final == Last(refs)
      Join(parts, r) == Front(parts) \o <<Mangled>> \o Tail(r.parts)
      joined == FoldLeft(Join, first.parts, Tail(refs))
      wrapped == first.helper \in Helpers /\ final.helper \in Helpers
  IN IF Len(refs) = 1 THEN first
     ELSE IF wrapped THEN [helper |-> first.helper, parts |-> joined]
     ELSE [helper |-> "none",
           parts |-> IF first.helper \in Helpers THEN <<Mangled>> \o Tail(joined)
                     ELSE IF final.helper \in Helpers THEN Front(joined) \o <<Mangled>>
                     ELSE joined]

\* The two patterns that interpolation and validation look for.
IsHelperTemplate(token) == IsRef(token) /\ token.ref.helper \in Helpers
IsDirectTemplate(token) ==
  /\ IsRef(token) /\ token.ref.helper = "none"
  /\ \/ Len(token.ref.parts) = 1
     \/ token.ref.parts[2] \in {Segment("output"), Segment("status"), Segment("error")}

Interpolate(tokens, pattern, ctx) ==
  LET Matches(token) == IF pattern = "helper" THEN IsHelperTemplate(token) ELSE IsDirectTemplate(token)
      Replacement(token) ==
        LET v == IF Matches(token) THEN ResolvePath(token.ref.parts, ctx) ELSE Undefined
        IN IF v = Undefined THEN <<token>>
           ELSE IF IsString(v) THEN v.string ELSE <<[json |-> v]>>
  IN FlattenSeq([i \in 1..Len(tokens) |-> Replacement(tokens[i])])

resolveString(tokens, ctx) ==
  IF Spans(tokens)
  THEN LET v == resolveReference(SpanningReference(tokens), ctx)
       IN IF v = Undefined THEN [string |-> tokens] ELSE v
  ELSE [string |-> Interpolate(Interpolate(tokens, "helper", ctx), "direct", ctx)]

RECURSIVE resolveTemplates(_, _)
resolveTemplates(v, ctx) ==
  CASE IsString(v) -> resolveString(v.string, ctx)
    [] IsArray(v) -> [array |-> [i \in 1..Len(v.array) |-> resolveTemplates(v.array[i], ctx)]]
    [] IsObject(v) -> [object |-> [k \in DOMAIN v.object |-> resolveTemplates(v.object[k], ctx)]]
    [] OTHER -> v

\* Every string inside a value, however deep.
RECURSIVE StringsIn(_)
StringsIn(v) ==
  CASE IsString(v) -> {v.string}
    [] IsArray(v) -> UNION {StringsIn(v.array[i]) : i \in 1..Len(v.array)}
    [] IsObject(v) -> UNION {StringsIn(v.object[k]) : k \in DOMAIN v.object}
    [] OTHER -> {}

hasTemplates(v) ==
  \E s \in StringsIn(v) : \E i \in 1..Len(s) : IsRef(s[i]) /\ Len(s[i].ref.parts) > 1

\* A validation that looks only for references without a helper.
validateTemplates_DirectOnly(v, ctx) ==
  \A s \in StringsIn(v) : \A i \in 1..Len(s) :
    IsDirectTemplate(s[i]) => ResolvePath(s[i].ref.parts, ctx) # Undefined

\* validateTemplates throws nothing: every reference leads to a value.
validateTemplates(v, ctx) ==
  \A s \in StringsIn(v) : \A i \in 1..Len(s) :
    IsHelperTemplate(s[i]) \/ IsDirectTemplate(s[i])
      => ResolvePath(s[i].ref.parts, ctx) # Undefined
=============================================================================
