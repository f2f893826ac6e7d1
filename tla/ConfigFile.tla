----------------------------- MODULE ConfigFile -----------------------------
(***************************************************************************)
(* What the daemon's configuration parsers do to a file (daemon/parser):     *)
(* one operator per format, from the document that is read and a sequence    *)
(* of replacements to the document that is written, or to a failure, after   *)
(* which nothing is written.                                                 *)
(*                                                                         *)
(* A replacement is [match, with]; match is the sequence of the parts        *)
(* between the dots, "*" for a wildcard and "[0]", "[1]" for an index.       *)
(*   json, yaml  a function from the paths of the leaves to their values;     *)
(*               no path is a prefix of another, array elements have index    *)
(*               keys, empty objects and arrays are left out;                 *)
(*   xml         a function from the paths of all elements to their texts;    *)
(*               elements with one path count as one, attributes are left out *)
(*   ini         a function from <<section, key>> to values;                  *)
(*   properties  a sequence of <<key, value>>;                                *)
(*   file        a sequence of lines, each a sequence of words.               *)
(* gabs, ini, properties and etree are external: modelled as they are used.   *)
(***************************************************************************)
EXTENDS Integers, Sequences, FiniteSets, SequencesExt, TLC

CONSTANTS
  Quoted,      \* values that end with a quotation mark
  ConfigData   \* values of the {{config.*}} placeholders the daemon knows

Index == {"[0]", "[1]"}
Null == "null"
List == "list"
Mangled == "mangled"

Done(doc) == [ok |-> TRUE, doc |-> doc]
Failed == [ok |-> FALSE, doc |-> <<>>]
Bare(doc) == DOMAIN doc = {}

\* LookupConfigurationValueAny: known placeholders are resolved, others stay.
Resolve(v, data) == IF v \in DOMAIN data THEN data[v] ELSE v

\* ReplaceValue.String and Bytes: what has no text becomes a marker.
Text(v) == CASE v = Null -> "<nil>" [] v = List -> "<invalid>" [] OTHER -> v

-----------------------------------------------------------------------------
(* json and yaml.                                                           *)

Kids(doc, p) == {q[Len(p) + 1] : q \in {q \in DOMAIN doc : IsStrictPrefix(p, q)}}
IsArray(doc, p) == Kids(doc, p) \cap Index # {}

\* A value that is no object stands in the way of the path below base.
Collides(doc, base, path) ==
  \E n \in 0 .. Len(path) - 1 :
    LET p == base \o SubSeq(path, 1, n) IN
      \/ p \in DOMAIN doc /\ doc[p] # Null
      \/ IsArray(doc, p)

\* The empty path names the key "".
KeyPath(path) == IF path = <<>> THEN <<"">> ELSE path

\* gabs SetP on the container at base: missing objects are made, whatever is
\* at the path is replaced.  A null container is set apart from the document.
SetP(doc, base, path, v) ==
  LET full == base \o KeyPath(path) IN
    IF base \in DOMAIN doc /\ doc[base] = Null THEN Done(doc)
    ELSE IF Collides(doc, base, KeyPath(path)) THEN Failed
    ELSE Done([q \in {q \in DOMAIN doc : ~IsPrefix(full, q) /\ ~IsPrefix(q, full)} \cup {full} |->
                 IF q = full THEN v ELSE doc[q]])

\* setValueAtPath: through an array element, which is made when it is the
\* first one and what is there is no array.
SetValueAtPath(doc, base, path, v) ==
  LET at == {i \in DOMAIN path : path[i] \in Index}
      j == CHOOSE i \in at : TRUE
      list == SubSeq(path, 1, j - 1)
      rest == SubSeq(path, j + 1, Len(path))
      element == base \o list \o <<path[j]>>
      made == SetP(doc, base, list, Null)
  IN IF at = {} THEN SetP(doc, base, path, v)
     ELSE IF \E q \in DOMAIN doc : IsPrefix(element, q) THEN SetP(doc, element, rest, v)
     ELSE IF path[j] # "[0]" \/ IsArray(doc, base \o list) \/ ~made.ok THEN Failed
     ELSE SetP([q \in DOMAIN made.doc \ {base \o list} |-> made.doc[q]], element, rest, v)

\* One round of IterateOverJson: every child of the path before the wildcard,
\* or the path itself.
JsonSet(doc, match, v) ==
  LET wild == {i \in DOMAIN match : match[i] = "*"}
      i == CHOOSE i \in wild : \A j \in wild : i <= j
      parent == SubSeq(match, 1, i - 1)
      rest == SubSeq(match, i + 1, Len(match))
  IN IF wild = {} THEN SetValueAtPath(doc, <<>>, match, v)
     ELSE FoldLeft(LAMBDA res, kid : IF res.ok
                                     THEN SetValueAtPath(res.doc, Append(parent, kid), rest, v)
                                     ELSE res,
                   Done(doc), SetToSeq(Kids(doc, parent)))

\* A plausible bug: the first replacement that fails is skipped, and with it
\* the ones after it, without an error.
IterateOverJsonSkips(doc, replace, data) ==
  FoldLeft(LAMBDA res, r : LET next == JsonSet(res.doc, r.match, Resolve(r.with, data))
                           IN IF res.ok /\ next.ok THEN next ELSE res,
           Done(doc), replace)

\* All replacements in turn; the first that fails ends it.
IterateOverJson(doc, replace, data) ==
  FoldLeft(LAMBDA res, r : IF res.ok THEN JsonSet(res.doc, r.match, Resolve(r.with, data)) ELSE res,
           Done(doc), replace)

\* An empty json file is no json; an empty yaml file is an empty map.
ParseJsonFile(doc, replace, data) ==
  IF Bare(doc) THEN Failed ELSE IterateOverJson(doc, replace, data)

ParseYamlFile(doc, replace, data) == IterateOverJson(doc, replace, data)

-----------------------------------------------------------------------------
(* The other formats; their values are texts.                               *)

\* The first dot ends the section, the others belong to the key.
IniPath(match) == IF Len(match) = 1 THEN <<"">> \o match ELSE match

ParseIniFile(doc, replace, data) ==
  Done(FoldLeft(LAMBDA d, r : (IniPath(r.match) :> Text(Resolve(r.with, data))) @@ d, doc, replace))

XmlRoot(doc) == (CHOOSE q \in DOMAIN doc : Len(q) = 1)[1]
XmlMatches(match, q) ==
  Len(q) = Len(match) /\ \A i \in DOMAIN q : match[i] \in {"*", q[i]}

\* The first replacement of an empty document makes the root; the elements of
\* a path without wildcard are made below the root whatever its name is.
XmlSet(doc, match, v) ==
  LET rooted == IF Bare(doc) THEN <<match[1]>> :> "" ELSE doc
      made == IF "*" \in ToSet(match) THEN {}
              ELSE {<<XmlRoot(rooted)>> \o SubSeq(match, 2, k) : k \in 2 .. Len(match)}
  IN [q \in DOMAIN rooted \cup made |->
        IF XmlMatches(match, q) THEN v ELSE IF q \in DOMAIN rooted THEN rooted[q] ELSE ""]

ParseXmlFile(doc, replace, data) ==
  Done(FoldLeft(LAMBDA d, r : XmlSet(d, r.match, Text(Resolve(r.with, data))), doc, replace))

\* Every replacement the line begins with is written, one after the other;
\* placeholders are not resolved.  The scan ends at a line that is too long.
TextLine(line, replace) ==
  LET hits == SelectSeq(replace, LAMBDA r : IsPrefix(r.match, line))
  IN IF hits = <<>> THEN line ELSE [i \in DOMAIN hits |-> Text(hits[i].with)]

Scanned(doc) ==
  LET long == {i \in DOMAIN doc : "long" \in ToSet(doc[i])}
  IN IF long = {} THEN doc ELSE SubSeq(doc, 1, (CHOOSE i \in long : \A j \in long : i <= j) - 1)

ParseTextFile(doc, replace) ==
  Done([i \in DOMAIN Scanned(doc) |-> TextLine(doc[i], replace)])

SetProperty(doc, key, v) ==
  LET at == {i \in DOMAIN doc : doc[i][1] = key}
  IN IF at = {} THEN Append(doc, <<key, v>>) ELSE [doc EXCEPT ![CHOOSE i \in at : TRUE][2] = v]

\* The quotation marks around a quoted value are trimmed together with one
\* the value ends with; the backslash that escaped it then joins the next
\* line to this one.
WriteProperties(doc) ==
  FoldLeft(LAMBDA out, line :
             [open |-> line[2] \in Quoted,
              lines |-> IF out.open THEN out.lines
                        ELSE Append(out.lines, IF line[2] \in Quoted THEN <<line[1], Mangled>> ELSE line)],
           [open |-> FALSE, lines |-> <<>>], doc).lines

ParsePropertiesFile(doc, replace, data) ==
  Done(WriteProperties(
         FoldLeft(LAMBDA d, r : SetProperty(d, r.match, Text(Resolve(r.with, data))), doc, replace)))

-----------------------------------------------------------------------------
\* Parse, up to the first write.
Parse(parser, doc, replace, data) ==
  CASE parser = "properties" -> ParsePropertiesFile(doc, replace, data)
    [] parser = "file" -> ParseTextFile(doc, replace)
    [] parser \in {"yaml", "yml"} -> ParseYamlFile(doc, replace, data)
    [] parser = "json" -> ParseJsonFile(doc, replace, data)
    [] parser = "ini" -> ParseIniFile(doc, replace, data)
    [] parser = "xml" -> ParseXmlFile(doc, replace, data)
    [] OTHER -> Failed
=============================================================================
