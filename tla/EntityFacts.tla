---------------------------- MODULE EntityFacts ----------------------------
(***************************************************************************)
(* What is read out of a link's title and description                      *)
(* (web/lib/entities.ts): people, organisations, countries and religions.  *)
(* A text is a sequence of the tokens the model labels; the labels         *)
(* themselves are given.  A span is a run of tokens, by its first and last.*)
(***************************************************************************)
EXTENDS Integers, Sequences, FiniteSets, SequencesExt, FiniteSetsExt

CONSTANTS
    Attached,       \* tokens with no space before them
    Piece,          \* of those, the ones that go on with a word: "##..."
    Mark,           \* tokens of one character, neither letter nor digit
    Lost,           \* tokens the tokenizer wrote otherwise than the text has them
    Letters, Bytes, \* token -> its letters, its length in UTF-8
    Lower,          \* token -> the same without capitals and accents
    Capital,        \* tokens that begin with a capital
    Short,          \* of those, the ones of at most three letters
    Stop, Plain,    \* CAPITALISED_STOPWORDS; phrases of common-words.txt
    Connector,      \* CONNECTORS
    Gazetteer,      \* folded name -> [country -> weight]
    LoneWeight,     \* MIN_LONE_PLACE_WEIGHT
    NameWeight,     \* COUNTRY_NAME_WEIGHT
    StateOf,        \* US_STATES, CA_PROVINCES: token -> country
    Demonym,        \* word -> country
    LanguageBefore, LanguageAfter,
    Term,           \* TERM_RELIGION: word -> bit of the religion
    Figure,         \* RELIGIOUS_FIGURES
    CodeOrder,      \* codes of countries in alphabetical order
    CountryCodes,   \* those the server knows: countries.tsv
    NerMax, CountriesMax, EntityNamesMax, EntityNameBytes, ReligionBits

ASSUME TokenAssumption == Piece \subseteq Attached /\ Lost \cap Attached = {}

(* The tables name countries the server knows: build-entity-data.ts leaves *)
(* other places out and entities_test.ts:7 checks the gazetteer it wrote;  *)
(* the words for people and the states are written by hand.                *)
ASSUME TableAssumption ==
    /\ UNION {DOMAIN Gazetteer[n] : n \in DOMAIN Gazetteer} \subseteq CountryCodes
    /\ {StateOf[t] : t \in DOMAIN StateOf} \cup {Demonym[w] : w \in DOMAIN Demonym} \subseteq CountryCodes
    /\ CountryCodes \subseteq ToSet(CodeOrder)

MaxNgram == 4

-----------------------------------------------------------------------------
(* The spans the model's labels make, kind "O" being none.                 *)

Part(text, s) == SubSeq(text, s.from, s.to)

Worded(phrase) == \E k \in DOMAIN phrase : Letters[phrase[k]] > 0

(* nerSpans(): labels are read for as many tokens as the model takes.  A   *)
(* piece goes on with its word whatever its label; a token that is not     *)
(* found in the text, or has no label, ends the span.                      *)
NerSpans(text, labels) ==
    LET longer(done, i) == [done EXCEPT !.spans[Len(done.spans)].to = i]
        step(done, i) ==
          CASE text[i] \in Lost -> [done EXCEPT !.open = FALSE]
            [] text[i] \in Piece /\ done.open -> longer(done, i)
            [] ~(text[i] \in Piece /\ done.open) /\ labels[i].kind = "O" -> [done EXCEPT !.open = FALSE]
            [] OTHER ->
                 IF done.open /\ labels[i].inside /\ Last(done.spans).kind = labels[i].kind
                 THEN longer(done, i)
                 ELSE [spans |-> Append(done.spans, [kind |-> labels[i].kind, from |-> i, to |-> i]),
                       open |-> TRUE]
    IN  FoldLeft(step, [spans |-> <<>>, open |-> FALSE],
                 [i \in 1..(IF Len(text) < NerMax THEN Len(text) ELSE NerMax) |-> i]).spans

Abbreviation(phrase) ==
    phrase[1] \in Short /\ (Len(phrase) = 1 \/ (Len(phrase) = 2 /\ phrase[2] = "."))

(* continues(): nothing or one character lies between, or a space behind   *)
(* an abbreviation.  Places are never joined.                              *)
Continues(text, l, r) ==
    LET between == SubSeq(text, l.to + 1, r.from - 1)
        close == text[r.from] \in Attached
        one == Len(between) = 1 /\ between[1] \in Attached \cap Mark
    IN  /\ l.kind = r.kind /\ l.kind # "LOC"
        /\ \/ close /\ (between = <<>> \/ one)
           \/ /\ Abbreviation(Part(text, l)) /\ ~close
              /\ between = <<>> \/ (one /\ between[1] = ".")

MergeSpans(text, spans) ==
    FoldLeft(LAMBDA merged, s :
               IF merged # <<>> /\ Continues(text, Last(merged), s)
               THEN [merged EXCEPT ![Len(merged)].to = s.to]
               ELSE Append(merged, s),
             <<>>, SelectSeq(spans, LAMBDA s : Worded(Part(text, s))))

OfKind(spans, kind) == SelectSeq(spans, LAMBDA s : s.kind = kind)

Within(spans, from, to) == \E s \in ToSet(spans) : s.from <= from /\ to <= s.to

-----------------------------------------------------------------------------
(* Words: the matches of WORD and RELIGION_WORD, runs of attached tokens.  *)

LetterToken == {t \in DOMAIN Letters : Letters[t] > 0}
Inner == {"'", ".", "-"}

Runs(text, first, rest) ==
    LET joined(i, j) == \A k \in (i + 1)..j : text[k] \in Attached \cap rest
        begins(i) == /\ text[i] \in first
                     /\ ~\E h \in 1..(i - 1) : text[h] \in first /\ joined(h, i)
        end(i) == Max({j \in i..Len(text) : joined(i, j)})
        starts == SelectSeq([i \in 1..Len(text) |-> i], begins)
    IN  [k \in DOMAIN starts |-> [from |-> starts[k], to |-> end(starts[k])]]

TextWords(text) == Runs(text, LetterToken, LetterToken \cup Inner)
ReligionWords(text) == Runs(text, LetterToken \cup {"'"}, LetterToken \cup {"'"})

Lowered(phrase) == [k \in DOMAIN phrase |-> Lower[phrase[k]]]

(* The part of a phrase between its outermost tokens that are kept.        *)
Trimmed(phrase, dropped) ==
    LET kept == {k \in DOMAIN phrase : phrase[k] \notin dropped}
    IN  IF kept = {} THEN <<>> ELSE SubSeq(phrase, Min(kept), Max(kept))

FoldPlaceName(phrase) == Lowered(Trimmed(phrase, Inner \cup {","}))

-----------------------------------------------------------------------------
(* Places and countries.                                                   *)

(* The longest run of at most four words from each word on that the        *)
(* gazetteer knows, capitalised at both ends and no part of a person's     *)
(* name; a single word must be no common one, and a place of some size.    *)
CapitalisedPlaces(text, people) ==
    LET words == TextWords(text)
        word(k) == Part(text, words[k])
        capital(k) == word(k)[1] \in Capital
        phrase(k, n) == FlattenSeq([i \in 1..n |-> word(k + i - 1)])
        weights(k, n) == Gazetteer[FoldPlaceName(phrase(k, n))]
        known(k, n) ==
          /\ k + n - 1 <= Len(words)
          /\ capital(k) /\ capital(k + n - 1)
          /\ \A i \in k..(k + n - 1) : capital(i) \/ word(i) \in Connector
          /\ n = 1 => word(k) \notin Stop /\ FoldPlaceName(word(k)) \notin Plain
          /\ ~Within(people, words[k].from, words[k + n - 1].to)
          /\ FoldPlaceName(phrase(k, n)) \in DOMAIN Gazetteer
        large(k) == \E c \in DOMAIN weights(k, 1) : weights(k, 1)[c] >= LoneWeight
        step(done, k) ==
          LET n == Max({0} \cup {n \in 1..MaxNgram : known(k, n)}) IN
          IF k < done.at THEN done
          ELSE [names |-> IF n > 1 \/ (n = 1 /\ large(k)) THEN Append(done.names, phrase(k, n))
                          ELSE done.names,
                at |-> IF n = 0 THEN k + 1 ELSE k + n]
    IN  FoldLeft(step, [names |-> <<>>, at |-> 1], [k \in DOMAIN words |-> k]).names

(* resolve(): the country of most weight, unless the next has half as much;*)
(* countries named without doubt elsewhere in the text come first.         *)
Resolve(weights, context) ==
    LET among == IF DOMAIN weights \cap context # {} THEN DOMAIN weights \cap context
                 ELSE DOMAIN weights
    IN  {c \in among : \A d \in among \ {c} : 2 * weights[d] < weights[c]}

(* A place and, if it does not resolve, its parts between commas.          *)
PartsOf(name) ==
    LET commas == {0, Len(name) + 1} \cup {k \in DOMAIN name : name[k] = ","}
        after(k) == Min({c \in commas : c > k})
        starts == SetToSortSeq(commas \ {Len(name) + 1}, <)
    IN  <<name>> \o SelectSeq([i \in DOMAIN starts |-> SubSeq(name, starts[i] + 1, after(starts[i]) - 1)],
                              LAMBDA part : part # <<>>)

ResolvePlaces(places) ==
    LET known(name) == FoldPlaceName(name) \in DOMAIN Gazetteer
        weights(name) == Gazetteer[FoldPlaceName(name)]
        context == UNION {DOMAIN weights(n) :
                            n \in {n \in ToSet(places) : known(n) /\ Cardinality(DOMAIN weights(n)) = 1}}
        found(name) == SelectSeq(PartsOf(name),
                                 LAMBDA part : known(part) /\ Resolve(weights(part), context) # {})
    IN  UNION {IF found(n) = <<>> THEN {} ELSE Resolve(weights(found(n)[1]), context) : n \in ToSet(places)}

StateCountries(text) ==
    {StateOf[text[i]] : i \in {i \in 2..Len(text) :
        /\ text[i - 1] = "," /\ text[i] \in DOMAIN StateOf
        /\ i < Len(text) => text[i + 1] \notin Piece}}

(* demonymCountries(): not the name of a language, not one of a list of    *)
(* peoples, not part of a longer place.                                    *)
DemonymCountries(text, locations) ==
    LET words == TextWords(text)
        word(k) == IF k \in DOMAIN words THEN Lowered(Part(text, words[k])) ELSE <<>>
        bare(k) == Trimmed(Part(text, words[k]), {"."})
        inLonger(k) ==
          \E l \in ToSet(locations) :
            /\ l.from <= words[k].from /\ words[k].from + Len(bare(k)) - 1 <= l.to
            /\ l.to - l.from + 1 > Len(bare(k))
        told(k) ==
          /\ bare(k) \in DOMAIN Demonym
          /\ ~inLonger(k)
          /\ word(k - 1) \notin LanguageBefore
          /\ Trimmed(word(k + 1), {"."}) \notin LanguageAfter
          /\ \A o \in (DOMAIN words \cap (k - 3)..(k + 3)) \ {k} : bare(o) \notin DOMAIN Demonym
    IN  {Demonym[bare(k)] : k \in {k \in DOMAIN words : told(k)}}

(* religionsIn(): the words of people's names do not count, those of       *)
(* religious figures do.                                                   *)
ReligionsIn(text, people) ==
    LET words == ToSet(ReligionWords(text))
        word(w) == Lowered(Part(text, w))
    IN  {Term[word(w)] : w \in {w \in words :
           /\ word(w) \in DOMAIN Term
           /\ Within(people, w.from, w.to) => word(w) \in Figure}}

-----------------------------------------------------------------------------
(* Names, and the facts of a text.                                         *)

LetterCount(phrase) == FoldLeft(LAMBDA n, t : n + Letters[t], 0, phrase)

ByteCount(phrase) ==
    FoldLeft(LAMBDA n, t : n + Bytes[t] + (IF t \in Attached THEN 0 ELSE 1), 0, phrase)
      - (IF phrase # <<>> /\ phrase[1] \notin Attached THEN 1 ELSE 0)

FirstOf(s, n) == SubSeq(s, 1, IF Len(s) < n THEN Len(s) ELSE n)

Unique(s) == FoldLeft(LAMBDA seen, x : IF x \in ToSet(seen) THEN seen ELSE Append(seen, x), <<>>, s)

NamesOfAnyLength(text, spans, kind) ==    \* mutant: names are not measured
    LET bare(s) == SubSeq(text, Min({k \in s.from..s.to : text[k] \notin Mark}), s.to)
        found == OfKind(spans, kind)
        names == [k \in DOMAIN found |-> bare(found[k])]
    IN  FirstOf(Unique(SelectSeq(names, LAMBDA name : LetterCount(name) >= 2)), EntityNamesMax)

(* names(): without punctuation before them, of two letters at least, as   *)
(* long and as many as a record of facts has room for.                     *)
NamesIn(text, spans, kind) ==
    LET bare(s) == SubSeq(text, Min({k \in s.from..s.to : text[k] \notin Mark}), s.to)
        found == OfKind(spans, kind)
        names == [k \in DOMAIN found |-> bare(found[k])]
    IN  FirstOf(Unique(SelectSeq(names, LAMBDA name : LetterCount(name) >= 2
                                                        /\ ByteCount(name) <= EntityNameBytes)),
                EntityNamesMax)

ExtractEntities(text, labels) ==
    LET spans == MergeSpans(text, NerSpans(text, labels))
        people == OfKind(spans, "PER")
        locations == OfKind(spans, "LOC")
        places == [k \in DOMAIN locations |-> Part(text, locations[k])] \o CapitalisedPlaces(text, people)
        countries == ResolvePlaces(places) \cup StateCountries(text)
                       \cup DemonymCountries(text, locations)
    IN  [religions |-> ReligionsIn(text, people),
         countries |-> FirstOf(SelectSeq(CodeOrder, LAMBDA c : c \in countries), CountriesMax),
         people |-> NamesIn(text, spans, "PER"),
         orgs |-> NamesIn(text, spans, "ORG")]

(* The same tables read a query: the names countries are known by, and     *)
(* before them the words for their people.                                 *)
CountryNames ==
    LET named(name) == {c \in DOMAIN Gazetteer[name] : Gazetteer[name][c] >= NameWeight}
    IN  [name \in {n \in DOMAIN Gazetteer : Cardinality(named(n)) = 1} |->
           CHOOSE c \in named(name) : TRUE]

QueryCountries ==
    LET folded == {Lowered(word) : word \in DOMAIN Demonym}
    IN  [name \in DOMAIN CountryNames \cup folded |->
           IF name \in folded
           THEN Demonym[CHOOSE word \in DOMAIN Demonym : Lowered(word) = name]
           ELSE CountryNames[name]]

(* decode() of facts/entities.zig: the facts the server takes.  It has the *)
(* limits of the client, each written down once more.                      *)
AcceptsFacts(facts) ==
    /\ facts.religions \subseteq 0..(ReligionBits - 1)
    /\ Len(facts.countries) <= CountriesMax /\ ToSet(facts.countries) \subseteq CountryCodes
    /\ \A names \in {facts.people, facts.orgs} :
         /\ Len(names) <= EntityNamesMax
         /\ \A k \in DOMAIN names : ByteCount(names[k]) \in 1..EntityNameBytes

=============================================================================
