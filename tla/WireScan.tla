------------------------------- MODULE WireScan -------------------------------
(***************************************************************************)
(* The scan of an OTLP export's bytes before they are parsed               *)
(* (ledger/otlp_wire.py): one walk that counts every field and object,     *)
(* stops at the first limit and refuses what it cannot bound.              *)
(*                                                                         *)
(* A message is the sequence of its field occurrences.  An occurrence has  *)
(* a name, and either a child message, or a scalar ("scalar"), or is a     *)
(* field of a newer schema ("unknown"), or broken ("bad": truncated data,  *)
(* a wrong wire type, a group).                                            *)
(***************************************************************************)
EXTENDS Naturals, Sequences, FiniteSets

CONSTANTS Inputs,   \* the requests scanned, messages
          Limits    \* WireLimits, and value_depth for MAX_VALUE_DEPTH

(* The schema the descriptors give: message -> field -> child and label.   *)
Many(kind) == [child |-> kind, repeated |-> TRUE]
Single(kind) == [child |-> kind, repeated |-> FALSE]
Schema ==
  [request |-> [resource_spans |-> Many("resource_spans")],
   resource_spans |-> [resource |-> Single("resource"), scope_spans |-> Many("scope_spans")],
   resource |-> [attributes |-> Many("key_value")],
   scope_spans |-> [scope |-> Single("scope"), spans |-> Many("span")],
   scope |-> [attributes |-> Many("key_value")],
   span |-> [attributes |-> Many("key_value"), events |-> Many("event"), links |-> Many("link")],
   event |-> [attributes |-> Many("key_value")],
   link |-> [attributes |-> Many("key_value")],
   key_value |-> [value |-> Single("any_value")],
   any_value |-> [array |-> Single("array_value"), kvlist |-> Single("kvlist")],
   array_value |-> [values |-> Many("any_value")],
   kvlist |-> [values |-> Many("key_value")]]

Containers == {"resource", "scope"}
Nesting == {"array_value", "kvlist"}

VARIABLES input,
          stack,    \* the messages being walked, innermost last
          counts,
          verdict   \* "scanning", "ok", or the error's code

vars == <<input, stack, counts, verdict>>

Counters == {"resources", "scopes", "spans", "records", "links", "attributes", "fields", "objects"}
Zero == [c \in Counters |-> 0]

Frame(kind, message, depth) ==
  [kind |-> kind, rest |-> message, depth |-> depth, singular |-> {}, own |-> 0]

Init == /\ input \in Inputs
        /\ stack = <<Frame("request", input, 0)>>
        /\ counts = Zero
        /\ verdict = "scanning"

-----------------------------------------------------------------------------
Plus(c, names) == [n \in Counters |-> IF n \in names THEN c[n] + 1 ELSE c[n]]

(* The counters an entered message adds to (_enter, _attribute, _record).  *)
EnterCounts(kind) == CASE kind = "key_value" -> {"attributes"}
                       [] kind = "span" -> {"spans", "records"}
                       [] kind = "event" -> {"records"}
                       [] kind = "link" -> {"links"}
                       [] kind = "scope_spans" -> {"scopes"}
                       [] kind = "resource_spans" -> {"resources"}
                       [] OTHER -> {}

TooDeep(kind, depth) == kind \in Nesting \cup {"key_value"} /\ depth > Limits.value_depth

(* A plain attribute: exactly a key and one string value, read inline.     *)
IsPlain(message) == /\ Len(message) = 2
                    /\ message[1].name = "key" /\ message[1].is = "scalar"
                    /\ message[2].name = "value" /\ message[2].is = "message"
                    /\ Len(message[2].message) = 1
                    /\ message[2].message[1].name = "string"
                    /\ message[2].message[1].is = "scalar"

(* The counters past their limit.                                          *)
Over(c) == {n \in Counters : c[n] > Limits[n]}

Top == stack[Len(stack)]
Below == SubSeq(stack, 1, Len(stack) - 1)
Field == Head(Top.rest)

Stop(code) == verdict' = code /\ UNCHANGED <<input, stack>>

(* A finished message; the request's own end is the verdict.               *)
Return == /\ verdict = "scanning" /\ Top.rest = <<>>
          /\ stack' = IF Len(stack) = 1 THEN stack ELSE Below
          /\ verdict' = IF Len(stack) = 1 THEN "ok" ELSE verdict
          /\ UNCHANGED <<input, counts>>

(* An unknown field, a scalar or a repeated string: counted and skipped.   *)
Skip == /\ verdict = "scanning" /\ Top.rest # <<>> /\ Field.is \in {"unknown", "scalar", "strings"}
        /\ counts' = Plus(counts, {"fields"} \cup (IF Field.is = "strings" THEN {"objects"} ELSE {}))
        /\ IF Over(counts') = {}
           THEN /\ stack' = Append(Below, [Top EXCEPT !.rest = Tail(@)])
                /\ UNCHANGED <<input, verdict>>
           ELSE Stop("limit")

Malformed == /\ verdict = "scanning" /\ Top.rest # <<>> /\ Field.is = "bad"
             /\ counts' = Plus(counts, {"fields"})
             /\ Stop(IF Over(counts') = {} THEN "refused" ELSE "limit")

(* A singular message field that occurs again would be merged: refused.    *)
MergedTwice == ~Schema[Top.kind][Field.name].repeated /\ Field.name \in Top.singular

(* A plain attribute counts as a field of its own.                         *)
Mut_PlainCounts == {"attributes", "fields"}

(* What a plain attribute counts, without its three fields.                *)
PlainCounts == {"attributes"}

AddFields(c, n) == [c EXCEPT !.fields = @ + n]

(* A message field: its counts in the walk's order, then the inline read   *)
(* of a plain attribute or the descent.                                    *)
Message ==
  /\ verdict = "scanning" /\ Top.rest # <<>> /\ Field.is = "message"
  /\ LET spec == Schema[Top.kind][Field.name]
         child == spec.child
         depth == IF child \in Nesting THEN Top.depth + 1 ELSE Top.depth
         own == IF Top.kind \in Containers /\ Field.name = "attributes" THEN Top.own + 1 ELSE Top.own
         seen == Plus(counts, {"fields"} \cup (IF spec.repeated THEN {"objects"} ELSE {}))
         element == IF Top.kind = "array_value" THEN Plus(seen, {"attributes"}) ELSE seen
         plain == child = "key_value" /\ IsPlain(Field.message)
         after == IF plain THEN AddFields(Plus(element, PlainCounts), 3)
                           ELSE Plus(element, EnterCounts(child))
         tooDeep == \/ TooDeep(child, depth)
                    \/ Top.kind = "array_value" /\ Top.depth > Limits.value_depth
         caller == [Top EXCEPT !.rest = Tail(@), !.own = own,
                               !.singular = IF spec.repeated THEN @ ELSE @ \cup {Field.name}]
     IN  /\ counts' = after
         /\ CASE Over(Plus(counts, {"fields"})) # {} -> Stop("limit")
              [] Over(Plus(counts, {"fields"})) = {} /\ MergedTwice -> Stop("refused")
              [] OTHER ->
                   IF \/ Over(after) # {} \/ tooDeep \/ own > Limits.container
                   THEN Stop("limit")
                   ELSE /\ stack' = IF plain THEN Append(Below, caller)
                                    ELSE Append(Append(Below, caller),
                                                Frame(child, Field.message, depth))
                        /\ UNCHANGED <<input, verdict>>

Next == Return \/ Skip \/ Malformed \/ Message

Spec == Init /\ [][Next]_vars

-----------------------------------------------------------------------------
(* The reference: what a request holds, counted over its whole tree.       *)

RECURSIVE Occurrences(_, _, _)
(* Every field occurrence of known messages: [in, name, is, depth].        *)
Occurrences(kind, message, depth) ==
  LET at(i) == message[i]
      Child(i) == Schema[kind][at(i).name].child
      Depth(i) == IF Child(i) \in Nesting THEN depth + 1 ELSE depth
      one(i) == <<[in |-> kind, field |-> at(i), depth |-> depth]>>
      below(i) == IF at(i).is = "message" THEN Occurrences(Child(i), at(i).message, Depth(i)) ELSE <<>>
      RECURSIVE From(_)
      From(i) == IF i > Len(message) THEN <<>> ELSE one(i) \o below(i) \o From(i + 1)
  IN  From(1)

All == Occurrences("request", input, 0)
Number(P(_)) == Cardinality({i \in DOMAIN All : P(All[i])})
ChildKind(o) == IF o.field.is = "message" THEN Schema[o.in][o.field.name].child ELSE "none"
IsRepeated(o) == \/ o.field.is = "strings"
                 \/ o.field.is = "message" /\ Schema[o.in][o.field.name].repeated
IsAttribute(o) == ChildKind(o) = "key_value" \/ (o.in = "array_value" /\ o.field.is = "message")

RefCounts ==
  [fields |-> Len(All), objects |-> Number(IsRepeated), attributes |-> Number(IsAttribute),
   spans |-> Number(LAMBDA o : ChildKind(o) = "span"),
   records |-> Number(LAMBDA o : ChildKind(o) \in {"span", "event"}),
   links |-> Number(LAMBDA o : ChildKind(o) = "link"),
   scopes |-> Number(LAMBDA o : ChildKind(o) = "scope_spans"),
   resources |-> Number(LAMBDA o : ChildKind(o) = "resource_spans")]

(* The largest container once the parser has merged the occurrences of a   *)
(* singular field into one message.                                        *)
Named(message, name) == {i \in DOMAIN message : message[i].is = "message" /\ message[i].name = name}
RECURSIVE SumLen(_, _)
SumLen(message, at) == IF at = {} THEN 0
                       ELSE LET i == CHOOSE i \in at : TRUE
                            IN  Cardinality(Named(message[i].message, "attributes"))
                                + SumLen(message, at \ {i})
MergedContainers ==
  {SumLen(input[i].message, Named(input[i].message, "resource")) :
     i \in Named(input, "resource_spans")}

(* A scan that accepts has counted exactly what the request holds, plain   *)
(* attributes read inline included, and all of it is within the limits.    *)
AcceptedIsCounted ==
  verdict = "ok" => counts = RefCounts /\ \A n \in Counters : counts[n] <= Limits[n]

(* A request within every limit, with nothing broken and nothing merged,   *)
(* is never refused: a limit is hit only by what exceeds it.               *)
NoFalseRefusal ==
  verdict = "limit" =>
    \/ \E n \in Counters : RefCounts[n] > Limits[n]
    \/ \E i \in DOMAIN All : All[i].depth > Limits.value_depth
    \/ \E i \in DOMAIN All : ChildKind(All[i]) \in Containers
         /\ Cardinality(Named(All[i].field.message, "attributes")) > Limits.container
    \/ \E i \in DOMAIN All : ChildKind(All[i]) \in Nesting /\ All[i].depth = Limits.value_depth

(* What is accepted stays within the container limit after parsing, where  *)
(* two occurrences of a singular message become one.                       *)
ParsedContainersBounded ==
  verdict = "ok" => \A n \in MergedContainers : n <= Limits.container
=============================================================================
