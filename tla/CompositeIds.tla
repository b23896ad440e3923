---------------------------- MODULE CompositeIds ----------------------------
(***************************************************************************)
(* The id of a row whose key has several columns: the components joined    *)
(* with a separator.  CompositeIdEncodingSimple joins them as they are;    *)
(* CompositeIdEncodingEscaped, which the server and the client use,        *)
(* escapes the separator, but only in an id of which some component        *)
(* contains one.                                                           *)
(*                                                                         *)
(* A string is a sequence of characters.  A null component and an empty    *)
(* one are both <<>>: an id is written alike for both and read as null.    *)
(***************************************************************************)
EXTENDS Naturals, Sequences, FiniteSets, SequencesExt

CONSTANTS
    Letters,       \* ordinary characters
    MaxLength,     \* bound: characters of a component
    MaxComponents  \* bound: components of a key

Separator == "/"
Escape == "\\"

ASSUME LettersAssumption == Separator \notin Letters /\ Escape \notin Letters

Component == UNION {[1..n -> Letters \union {Separator, Escape}] : n \in 0..MaxLength}
Key == UNION {[1..n -> Component] : n \in 1..MaxComponents}

\* String.replace of a character by a string, and of a pair of characters by one.
Spelled(string, char, by) ==
    FlattenSeq([n \in DOMAIN string |-> IF string[n] = char THEN by ELSE <<string[n]>>])

Contracted(string, first, second, by) ==
    LET Step(acc, n) ==
          IF acc.skip THEN [acc EXCEPT !.skip = FALSE]
          ELSE IF n < Len(string) /\ string[n] = first /\ string[n + 1] = second
               THEN [out |-> Append(acc.out, by), skip |-> TRUE]
               ELSE [acc EXCEPT !.out = Append(@, string[n])]
    IN  FoldLeftDomain(Step, [out |-> <<>>, skip |-> FALSE], string).out

\* StringUtils.join, and the parts of an id between the positions `cuts`.
Join(components) ==
    FlattenSeq([n \in DOMAIN components |->
                  IF n = 1 THEN components[n] ELSE <<Separator>> \o components[n]])

Split(id, cuts) ==
    LET Step(parts, n) ==
          IF n \in cuts THEN Append(parts, <<>>)
          ELSE [parts EXCEPT ![Len(parts)] = Append(@, id[n])]
    IN  FoldLeftDomain(Step, <<<<>>>>, id)

Separators(id) == {n \in DOMAIN id : id[n] = Separator}

CreateSimple(components) == Join(components)
ParseSimple(id) == Split(id, Separators(id))

EscapingRequired(components) ==
    \E n \in DOMAIN components : Contains(components[n], Separator)

\* Mutant: only the separator is escaped.
EscapedSeparators(component) == Spelled(component, Separator, <<Escape, Separator>>)

Escaped(component) ==
    Spelled(Spelled(component, Escape, <<Escape, Escape>>),
            Separator, <<Escape, Separator>>)

CreateCompositeId(components) ==
    IF EscapingRequired(components)
    THEN Join([n \in DOMAIN components |-> Escaped(components[n])])
    ELSE Join(components)

Unescaped(part) ==
    Contracted(Contracted(part, Escape, Separator, Separator), Escape, Escape, Escape)

\* Mutant: every separator separates.
ParseAtSeparators(id) ==
    LET parts == Split(id, Separators(id)) IN [n \in DOMAIN parts |-> Unescaped(parts[n])]

\* A separator behind an escape does not separate.
ParseCompositeIdComponents(id) ==
    LET cuts == {n \in Separators(id) : n = 1 \/ id[n - 1] # Escape}
        parts == Split(id, cuts)
    IN  [n \in DOMAIN parts |-> Unescaped(parts[n])]

-----------------------------------------------------------------------------
EndsWithEscape(component) == component # <<>> /\ component[Len(component)] = Escape

DoubledEscape(component) ==
    \E n \in 1..(Len(component) - 1) : component[n] = Escape /\ component[n + 1] = Escape

\* The keys whose ids can be read: the separator behind a component that ends with
\* an escape is taken for an escaped one, and doubled escapes are contracted even
\* where nothing was escaped.
Readable(key) ==
    /\ \A n \in 1..(Len(key) - 1) : ~EndsWithEscape(key[n])
    /\ EscapingRequired(key) \/ \A n \in DOMAIN key : ~DoubledEscape(key[n])

\* An id is read as the key it was created from exactly if the key is readable; with
\* CompositeIdEncodingSimple, exactly if it has no separators.
KeySurvives(key) ==
    /\ ParseCompositeIdComponents(CreateCompositeId(key)) = key <=> Readable(key)
    /\ ParseSimple(CreateSimple(key)) = key <=> ~EscapingRequired(key)

\* An id tells its row apart from all others, though some ids are escaped and some not:
\* no other key of the same columns has it, readable or not.
IdDistinct(key) ==
    \A other \in [DOMAIN key -> Component] :
        CreateCompositeId(other) = CreateCompositeId(key) => other = key
=============================================================================
