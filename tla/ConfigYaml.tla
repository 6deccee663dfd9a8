----------------------------- MODULE ConfigYaml -----------------------------
(* What LoadFromYaml makes of a document (config.h, config.cc).  A YAML node *)
(* is a scalar, a sequence, a map or null, and every scalar is plain:        *)
(* writing a node out and loading the text gives the node again.             *)
EXTENDS Config

CONSTANTS
  Number,     \* the texts that lexical_cast<int> takes, and their numbers
  FromLog(_)  \* LexicalCast<std::string, LogDefine> (log.cc)

-----------------------------------------------------------------------------
\* node[i] of a map is the value whose key reads as the number i; if there is none
\* it is an undefined node, which is written as the empty text.
ABSENT == [kind |-> "undefined"]
Lookedup(node, i) ==
  LET named == SelectInSeq(node.keys, LAMBDA k : k \in DOMAIN Number /\ Number[k] = i)
  IN  IF named = 0 THEN ABSENT ELSE node.items[named]

\* node[0], node[1], ... of a node, up to its size.  A node that is no container has
\* no elements.
Elements(node) ==
  CASE node.kind = "seq" -> node.items
    [] node.kind = "map" -> [i \in DOMAIN node.items |-> Lookedup(node, i - 1)]
    [] OTHER -> <<>>

\* The text that LoadFromYaml makes of a node, converted.  For a std::map the
\* elements of a sequence have neither text nor name: Scalar() throws, after the
\* conversion of the empty text (in the order of g++), if that gives a value.
RECURSIVE FromStr(_, _)
FromStr(type, node) ==
  CASE type.is = "int" ->
         IF node.kind = "scalar" /\ node.text \in DOMAIN Number THEN Value(Number[node.text]) ELSE BAD
    [] type.is = "string" -> Value(node)
    [] type.is = "LogDefine" -> FromLog(node)
    [] type.is = "map" /\ node.kind = "seq" /\ node.items # <<>> ->
         IF Converts(FromStr(type.of, ABSENT)) THEN THROWN ELSE FromStr(type.of, ABSENT)
    [] type.is = "map" /\ node.kind = "map" ->
         Container(type, node.keys, [i \in DOMAIN node.items |-> FromStr(type.of, node.items[i])])
    [] OTHER ->
         LET items == IF type.is = "map" THEN <<>> ELSE Elements(node)
         IN  Container(type, <<>>, [i \in DOMAIN items |-> FromStr(type.of, items[i])])

\* ListAllMember: a node with its name, then the members of a map; nothing at
\* and below a name that is not allowed.
RECURSIVE ListAllMember(_, _)
ListAllMember(prefix, node) ==
  IF Range(prefix) \cap Invalid # {} THEN <<>>
  ELSE <<[name |-> prefix, node |-> node]>> \o
       (IF node.kind # "map" THEN <<>>
        ELSE FlattenSeq([i \in DOMAIN node.items |-> ListAllMember(Append(prefix, node.keys[i]), node.items[i])]))
=============================================================================
