----------------------------- MODULE MCSanitize -----------------------------
(***************************************************************************)
(* Two tasks: the first sanitizes texts that exercise the scans and the    *)
(* merge, the second races it for the vault.                               *)
(***************************************************************************)
EXTENDS Sanitize

\* 1 80 04 2A 001 002 with its key 78, and an IBAN of fifteen characters.
NirN == <<1, 8, 0, 0, 4, 2, 10, 0, 0, 1, 0, 0, 2>>
NirKey == 97 - Mod97(SubSeq(NirN, 1, 5) \o <<1, 9>> \o SubSeq(NirN, 8, 13))
Nir == NirN \o <<NirKey \div 10, NirKey % 10>>
Iban == <<23, 24, 9, 3, 8, 6, 0, 1, 1, 1, 1, 7, 9, 4, 7>>   \* NO93 8601 1117 947

Found(start, end, kind, chars) ==
    [start |-> start, end |-> end, kind |-> kind, chars |-> chars]
Candidates == {
    <<>>,
    <<Found(1, 3, "EMAIL", <<>>)>>,
    <<Found(0, 3, "NIR", Nir), Found(2, 4, "UUID", <<>>)>>,
    <<Found(0, 2, "NIR", [Nir EXCEPT ![3] = 7]), Found(1, 4, "IBAN", Iban)>>}

\* Four letters between the tokens that frame a sentence.
Token(i, label) == [start |-> i - 1, end |-> i, label |-> label]
Framed(labels) ==
    LET frame == [start |-> 0, end |-> 0, label |-> "O"]
    IN  <<frame>> \o [i \in DOMAIN labels |-> Token(i, labels[i])] \o <<frame>>
Labels == {"O", "B-PER", "I-PER", "I-ORG"}

Input(ws, vault, text, candidates, tokens) ==
    [ws |-> ws, vault |-> vault, text |-> text, candidates |-> candidates, tokens |-> tokens]

\* The letters, upper-case variants, a ligature and white space.
Text == <<1, 56, 0, 9>>
Alone(text) == Framed([i \in DOMAIN text |-> IF i = 1 THEN "B-PER" ELSE "I-PER"])

Scanned == {Input("A", FALSE, Text, c, Framed(l)) : c \in Candidates, l \in [1..4 -> Labels]}
Same == Input("A", TRUE, <<1, 56, 0, 9>>, <<>>, Alone(Text))
Variant == Input("A", TRUE, <<51, 6, 0, 0, 59, 0>>, <<>>, Alone(<<1, 2, 3, 4, 5, 6>>))
Ligature == Input("A", TRUE, <<100>>, <<>>, Alone(<<100>>))
Spelled == Input("A", TRUE, <<6, 9>>, <<>>, Alone(<<6, 9>>))
TwoNames == Input("A", TRUE, <<1, 2, 1>>, <<Found(1, 2, "EMAIL", <<>>)>>,
                  Framed(<<"B-PER", "B-PER", "I-PER">>))
Elsewhere == Input("B", TRUE, Text, <<>>, Alone(Text))
Empty == Input("A", TRUE, <<>>, <<>>, <<>>)

First == CHOOSE t \in Tasks : TRUE
Pair(a, b) == [t \in Tasks |-> IF t = First THEN a ELSE b]
MCInputs == {Pair(a, Empty) : a \in Scanned}
       \cup {Pair(a, b) : a \in {Same, TwoNames}, b \in {Same, Variant, TwoNames, Elsewhere}}
       \cup {Pair(Ligature, Spelled)}

\* One text, twice at once.
MCSameText == {Pair(Same, Same)}
=============================================================================
