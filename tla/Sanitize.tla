------------------------------ MODULE Sanitize ------------------------------
(***************************************************************************)
(* sanitize(): find personal data by pattern and by model, merge the       *)
(* findings, and rebuild the text with a vault token, or a placeholder, in *)
(* the place of each.  Several tasks sanitize at once against one vault.   *)
(*                                                                         *)
(* Spans are half-open and count from 0, as in the code.  A pattern's      *)
(* candidate carries the characters its validator reads: 0..9 the digits,  *)
(* 10..35 the letters A to Z.                                              *)
(***************************************************************************)
EXTENDS Vault, Places

CONSTANTS
    Inputs    \* the texts the tasks may be given: functions from Tasks

VARIABLES
    model,    \* the model's OnceLock: "unloaded", "loaded", "missing"
    job       \* what each task is sanitizing

vars == <<vaultVars, model, job>>

-----------------------------------------------------------------------------
(* regex_scan.                                                             *)

IsDigit(c) == c \in 0..9

\* A letter counts as two digits.
Feed(rem, c) == (rem * (IF IsDigit(c) THEN 10 ELSE 100) + c) % 97

\* The remainder after each character.
Remainders(chars) ==
    LET rem[k \in 0..Len(chars)] == IF k = 0 THEN 0 ELSE Feed(rem[k - 1], chars[k])
    IN  rem

\* Mutant: the last digit is left out.
Mod97ButLast(chars) == Remainders(chars)[Len(chars) - 1]

Mod97(chars) == Remainders(chars)[Len(chars)]

\* The Corsican departments: 2A counts as 19, 2B as 18.
Department(dep) == CASE dep = <<2, 10>> -> <<1, 9>>
                     [] dep = <<2, 11>> -> <<1, 8>>
                     [] OTHER -> dep

is_valid_nir(c) ==
    /\ Len(c) = 15
    /\ LET dep == Department(<<c[6], c[7]>>)
           n == [c EXCEPT ![6] = dep[1], ![7] = dep[2]]
       IN  /\ \A i \in 1..15 : IsDigit(n[i])
           /\ 97 - Mod97(SubSeq(n, 1, 13)) = n[14] * 10 + n[15]

is_valid_iban(c) ==
    /\ Len(c) \in 15..34
    /\ Mod97(SubSeq(c, 5, Len(c)) \o SubSeq(c, 1, 4)) = 1

Valid(c) ==
    /\ c.kind = "NIR" => is_valid_nir(c.chars)
    /\ c.kind = "IBAN" => is_valid_iban(c.chars)

Span(start, end, kind) == [start |-> start, end |-> end, kind |-> kind]

regex_scan(candidates) ==
    LET hits == Selected(candidates, {i \in DOMAIN candidates : Valid(candidates[i])})
    IN  [i \in DOMAIN hits |-> Span(hits[i].start, hits[i].end, hits[i].kind)]

-----------------------------------------------------------------------------
(* ner.                                                                    *)

NoKind == "none"
map_label(label) == CASE label \in {"B-PER", "I-PER"} -> "PERSON"
                      [] label \in {"B-ORG", "I-ORG"} -> "ORG"
                      [] label \in {"B-LOC", "I-LOC"} -> "LOC"
                      [] OTHER -> NoKind
Begins(label) == label \in {"B-PER", "B-ORG", "B-LOC", "B-MISC"}
Special(token) == token.start = 0 /\ token.end = 0

\* Mutant: a token that begins an entity extends one of the same kind.
ExtendsAnyTag(acc, token) ==
    ~Special(token) /\ acc.open # <<>> /\ map_label(token.label) = acc.open[1].kind

\* An inside tag of the open span's kind.
Extends(acc, token) ==
    /\ ~Special(token) /\ ~Begins(token.label)
    /\ acc.open # <<>> /\ map_label(token.label) = acc.open[1].kind

\* The open span, if any, is kept as a sequence of length one.
BioStep(acc, token) ==
    IF Extends(acc, token)
      THEN [acc EXCEPT !.open = <<Span(@[1].start, token.end, @[1].kind)>>]
      ELSE [out |-> acc.out \o acc.open,
            open |-> IF Special(token) \/ map_label(token.label) = NoKind
                       THEN <<>>
                       ELSE <<Span(token.start, token.end, map_label(token.label))>>]

bio_merge(tokens) ==
    LET acc[k \in 0..Len(tokens)] ==
            IF k = 0 THEN [out |-> <<>>, open |-> <<>>] ELSE BioStep(acc[k - 1], tokens[k])
    IN  acc[Len(tokens)].out \o acc[Len(tokens)].open

\* What patterns match and tokens come from are stretches of the text, tokens
\* in its order; a token of no text is special.
Fits(input) ==
    LET length == Len(input.text)
    IN  /\ input.candidates \in Seq([start : Nat, end : 1..length, kind : Kinds,
                                     chars : Seq(0..35)])
        /\ \A c \in Range(input.candidates) : c.start < c.end
        /\ input.tokens \in Seq([start : Nat, end : 0..length, label : STRING])
        /\ \A i \in DOMAIN input.tokens :
            LET token == input.tokens[i]
            IN  ~Special(token) =>
                    /\ token.start < token.end
                    /\ \A j \in (i + 1)..Len(input.tokens) :
                        Special(input.tokens[j]) \/ token.end <= input.tokens[j].start

ASSUME InputsAssumption ==
    \A given \in Inputs, t \in Tasks : given[t].text \in Seq(Nat) /\ Fits(given[t])

\* What scan may return from each state of the model: loading is tried once
\* per process, and a tokenizer or inference error is an error of this call.
ScanFrom(m, input) ==
    IF input.text = <<>> THEN {[model |-> m, spans |-> <<>>]}
    ELSE {[model |-> "missing", spans |-> <<>>] : x \in {m} \ {"loaded"}}
         \cup (IF m = "missing" THEN {}
               ELSE {[model |-> "loaded", spans |-> s] : s \in {<<>>, bio_merge(input.tokens)}})

-----------------------------------------------------------------------------
(* merge_and_dedup and substitute.                                         *)

\* By start, then the longer first; the sort is stable.
Before(spans) ==
    LET size(k) == spans[k].end - spans[k].start
        before(i, j) ==
            \/ spans[i].start < spans[j].start
            \/ /\ spans[i].start = spans[j].start
               /\ size(i) > size(j) \/ (size(i) = size(j) /\ i < j)
    IN  {p \in (DOMAIN spans) \X (DOMAIN spans) : before(p[1], p[2])}

\* Mutant: a span is dropped only if it starts where another has begun.
OverlapsStart(out, s) == out # <<>> /\ s.start = Last(out).start

\* s.start < cursor
Overlapped(out, s) == out # <<>> /\ s.start < Last(out).end

merge_and_dedup(spans) ==
    LET order == Arranged(Before(spans), DOMAIN spans)
        kept[k \in 0..Len(spans)] ==
            IF k = 0 THEN <<>>
            ELSE LET s == spans[order[k]]
                 IN  IF Overlapped(kept[k - 1], s) THEN kept[k - 1] ELSE Append(kept[k - 1], s)
    IN  kept[Len(spans)]

\* Spans beyond the end of the text are passed over.  Positions count characters, so
\* every one of them is a character boundary.
Within(spans, length) == Selected(spans, {i \in DOMAIN spans : spans[i].end <= length})

\* The output is a sequence of cells: a stretch of the text as it stands, or
\* what was put in place of a span.
Cell(span, token) == [span |-> span, token |-> token]
Raw(from, to) == IF from < to THEN <<Cell(Span(from, to, "raw"), NoToken)>> ELSE <<>>

-----------------------------------------------------------------------------
NoJob == [pc |-> "idle", input |-> NoToken, found |-> <<>>, spans |-> <<>>,
          cursor |-> 0, out |-> <<>>]

Init ==
    /\ VaultInit
    /\ model = "unloaded"
    /\ \E given \in Inputs : job = [t \in Tasks |-> [NoJob EXCEPT !.input = given[t]]]

\* Both scans and the merge.  Nothing found: the text is returned as it is.
Begin(t) ==
    /\ job[t].pc = "idle"
    /\ \E ner \in ScanFrom(model, job[t].input) :
        LET found == regex_scan(job[t].input.candidates) \o ner.spans
            text == Len(job[t].input.text)
        IN  /\ job' = [job EXCEPT ![t].pc = "span", ![t].found = found,
                                  ![t].spans = Within(merge_and_dedup(found), text)]
            /\ model' = ner.model
    /\ UNCHANGED vaultVars

Current(t) == Head(job[t].spans)
RawValue(t) == SubSeq(job[t].input.text, Current(t).start + 1, Current(t).end)

\* What the text is rebuilt with in place of the current span.
Substitute(t, token) ==
    job' = [job EXCEPT ![t].out = job[t].out \o Raw(job[t].cursor, Current(t).start)
                                             \o <<Cell(Current(t), token)>>,
                       ![t].cursor = Current(t).end,
                       ![t].spans = Tail(job[t].spans)]

\* render_token with a vault: call it.
CallVault(t) ==
    /\ job[t].pc = "span" /\ job[t].spans # <<>> /\ job[t].input.vault
    /\ Tokenize(t, job[t].input.ws, Current(t).kind, RawValue(t))
    /\ UNCHANGED <<model, job>>

\* Its token, or the placeholder if it failed.
RenderToken(t) ==
    /\ call[t].pc = "done"
    /\ Substitute(t, IF call[t].result = Failed THEN NoToken ELSE call[t].result)
    /\ call' = [call EXCEPT ![t] = NoCall]
    /\ UNCHANGED <<map, counter, dbFaults, model>>

RenderPlaceholder(t) ==
    /\ job[t].pc = "span" /\ job[t].spans # <<>> /\ ~job[t].input.vault
    /\ Substitute(t, NoToken)
    /\ UNCHANGED <<vaultVars, model>>

\* The rest of the text.
Finish(t) ==
    /\ job[t].pc = "span" /\ job[t].spans = <<>>
    /\ job' = [job EXCEPT ![t].pc = "done",
                          ![t].out = @ \o Raw(job[t].cursor, Len(job[t].input.text))]
    /\ UNCHANGED <<vaultVars, model>>

Step(t) ==
    \/ Begin(t) \/ CallVault(t) \/ RenderToken(t) \/ RenderPlaceholder(t) \/ Finish(t)
    \/ VaultStep(t) /\ UNCHANGED <<model, job>>

Next == \E t \in Tasks : Step(t)

Spec == Init /\ [][Next]_vars

-----------------------------------------------------------------------------
(* Correctness.                                                            *)

TypeOK ==
    /\ VaultTypeOK
    /\ model \in {"unloaded", "loaded", "missing"}
    /\ \A t \in Tasks :
        /\ job[t].pc \in {"idle", "span", "done"}
        /\ job[t].cursor \in 0..Len(job[t].input.text)
        /\ call[t].pc # "idle" => job[t].pc = "span" /\ job[t].spans # <<>>

Positions(s) == s.start..(s.end - 1)

\* What of the input is still readable in the output.
InClear(t) == UNION {Positions(c.span) : c \in {d \in Range(job[t].out) : d.span.kind = "raw"}}

\* merge_and_dedup, substitute: a finding shows through only in the tail it
\* sticks out of an earlier finding that covers its start; all other text
\* comes through, once and in order.
NothingShowsThrough ==
    \A t \in Tasks : job[t].pc = "done" =>
        LET found == Range(job[t].found)
            out == job[t].out
        IN  /\ \A s \in found, p \in InClear(t) : p \in Positions(s) =>
                    \E r \in found : r.start < s.start /\ s.start < r.end /\ r.end <= p
            /\ InClear(t) \cup UNION {Positions(s) : s \in found}
                    = 0..(Len(job[t].input.text) - 1)
            /\ \A i, j \in DOMAIN out :
                    i < j => out[i].span.end <= out[j].span.start

\* sanitize with tokenize_blocking: every token in a text stands in the vault
\* for the value that was there, in the text's own workspace.
TokensDecode ==
    \A t \in Tasks : \A i \in DOMAIN job[t].out :
        LET c == job[t].out[i]
            input == job[t].input
        IN  c.token # NoToken =>
                LET v == Value(input.ws, c.span.kind,
                               SubSeq(input.text, c.span.start + 1, c.span.end))
                IN  v \in DOMAIN map /\ map[v] = c.token

\* The runs of tokens that a reader of the contract of bio_merge would mark:
\* a first token with a kind, then the inside tags of that kind.
Runs(tokens) ==
    {r \in (DOMAIN tokens) \X (DOMAIN tokens) :
        LET kind(i) == IF Special(tokens[i]) THEN NoKind ELSE map_label(tokens[i].label)
            inside(i) == ~Begins(tokens[i].label) /\ i - 1 \in DOMAIN tokens
                            /\ kind(i) = kind(i - 1)
        IN  /\ r[1] <= r[2]
            /\ kind(r[1]) # NoKind /\ ~inside(r[1])
            /\ \A i \in (r[1] + 1)..r[2] : inside(i)
            /\ r[2] + 1 \in DOMAIN tokens => ~inside(r[2] + 1)}

\* bio_merge: the spans it finds are those runs, in document order.
BioMergeFindsRuns ==
    \A t \in Tasks : job[t].pc = "idle" =>
        LET tokens == job[t].input.tokens
            spans == bio_merge(tokens)
        IN  /\ Range(spans) = {Span(tokens[r[1]].start, tokens[r[2]].end,
                                    map_label(tokens[r[1]].label)) : r \in Runs(tokens)}
            /\ \A i \in 1..(Len(spans) - 1) : spans[i].start < spans[i + 1].start

\* is_valid_nir, is_valid_iban: one wrong digit never passes for a valid number.
WrongDigitRejected ==
    \A t \in Tasks : job[t].pc = "idle" =>
        \A c \in Range(job[t].input.candidates) :
            (c.kind \in {"NIR", "IBAN"} /\ Valid(c)) =>
                \A i \in DOMAIN c.chars, d \in 0..9 :
                    (IsDigit(c.chars[i]) /\ d # c.chars[i]) =>
                        ~Valid([c EXCEPT !.chars[i] = d])
=============================================================================
