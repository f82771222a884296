----------------------------- MODULE SitePages -----------------------------
(***************************************************************************)
(* The pages readers see: the search page (web/routes/search), a           *)
(* category's page (web/routes/category) and the query of the API          *)
(* (web/routes/api/v1/links/query.ts), each a handler that asks the        *)
(* directory several times through DmozClient and puts the answers on one  *)
(* page.  Every call goes over the wire as WireCalls has it; the index of  *)
(* names, the links and the categories may have changed between two calls, *)
(* so each answers what it likes.                                          *)
(*                                                                         *)
(* What a reader types is a sequence of tokens.  An operator (site:x) is   *)
(* one token; Noise is a token without a letter or a digit.  Here are the  *)
(* steps of the pages; the next-state relation is that of Website.         *)
(***************************************************************************)
EXTENDS WireCalls

CONSTANTS
    Query,         \* what readers type: sequences of tokens
    Noise,
    Operator,      \* token -> [kind, value], value None where it normalises to nothing
    WordLength,    \* token -> number of letters
    Stopword, The, CueBefore, CueAfter,
    Common,        \* common-words.txt
    Domain,        \* words in the form of a domain
    CountryOf,     \* phrase -> code of the country it names
    ReligionOf,    \* word -> the religion it names
    Religions,     \* RELIGIONS, each at its bit
    NamesMax,      \* MATCH_NAMES_MAX
    NameMaxBytes,  \* MATCH_NAME_MAX_BYTES
    MaxEntityNameBytes,
    ApiQuery,      \* what callers of the API ask: [query, path]
    Offset,        \* offsets of pages of a category
    OffsetCap      \* OFFSET_CAP

MaxNameWords == 4
MaxPlaceWords == 8
QueryLinksMaxRows == 50

VARIABLE page      \* the page being built

pvars == <<vars, page>>

NoPage ==
    [kind |-> "none", at |-> "idle", tokens |-> <<>>, after |-> 0, phrases |-> <<>>, typed |-> 0,
     targets |-> <<>>, words |-> <<>>, path |-> NoText, own |-> 0, ask |-> None,
     rows |-> <<>>, labels |-> <<>>, missing |-> {}, tried |-> <<>>, chips |-> <<>>,
     view |-> "none"]

PagesInit == Init /\ page = NoPage

-----------------------------------------------------------------------------
(* Words (targets.ts).                                                     *)

WordsOf(text) == SelectSeq(text, LAMBDA w : w # Noise)
IsContentWord(w) == WordLength[w] > 1 /\ w \notin Stopword

(* A Set built from a sequence: the first of each, in order.               *)
Distinct(s) == FoldLeft(LAMBDA seen, x : IF x \in ToSet(seen) THEN seen ELSE Append(seen, x), <<>>, s)

ContentWords(text) == Distinct(SelectSeq(WordsOf(text), IsContentWord))
Join(words) == IF words = <<>> THEN NoText ELSE words

RankedQuery(tokens) == IF ContentWords(tokens) # <<>> THEN ContentWords(tokens) ELSE tokens

At(words, i) == IF i \in DOMAIN words THEN words[i] ELSE None

Cued(words, i, j) ==
    LET before == IF At(words, i - 1) = The THEN At(words, i - 2) ELSE At(words, i - 1)
    IN  before \in CueBefore \/ At(words, j + 1) \in CueAfter

NameShaped(phrase) ==
    phrase[1] \notin Stopword /\ Last(phrase) \notin Stopword /\ ToSet(phrase) \cap Domain = {}

Distinctive(phrase) == Len(phrase) > 1 /\ ~(ToSet(phrase) \subseteq Common)

UpTo(s, n) == SubSeq(s, 1, IF Len(s) < n THEN Len(s) ELSE n)

(* The phrases worth asking for, short ones first.                         *)
NamePhrases(words) ==
    LET asked(n) == SelectSeq([i \in 1..(Len(words) - n + 1) |-> i],
                      LAMBDA i :
                        LET phrase == SubSeq(words, i, i + n - 1) IN
                        /\ NameShaped(phrase)
                        /\ Cued(words, i, i + n - 1) \/ Distinctive(phrase)
                        /\ Length[phrase] <= NameMaxBytes)
        ofLength(n) == [k \in DOMAIN asked(n) |-> SubSeq(words, asked(n)[k], asked(n)[k] + n - 1)]
    IN  UpTo(Distinct(FlattenSeq([n \in 1..Len(UpTo(words, MaxNameWords)) |-> ofLength(n)])), NamesMax)

-----------------------------------------------------------------------------
(* Targets.                                                                *)

Single == {"site", "country", "category", "name"}    \* KINDS[kind].single

Target(kind, value, id) == [kind |-> kind, value |-> value, id |-> id]

(* typedTargets(): the operators, and the text without them.               *)
TypedTargets(tokens) ==
    LET ops == SelectSeq(tokens, LAMBDA w : w \in DOMAIN Operator)
    IN  [i \in DOMAIN ops |-> Target(Operator[ops[i]].kind, Operator[ops[i]].value, 0)]

TextOf(tokens) == SelectSeq(tokens, LAMBDA w : w \notin DOMAIN Operator)

(* targetFor(): names maps phrases to what the directory knows of them.    *)
TargetFor(words, i, j, names) ==
    LET span == SubSeq(words, i, j)
        single == i = j
        known == span \in DOMAIN names
    IN  CASE single /\ span[1] \in Domain -> Target("site", span, 0)
          [] span \in DOMAIN CountryOf -> Target("country", CountryOf[span], 0)
          [] single /\ span[1] \in DOMAIN ReligionOf -> Target("religion", ReligionOf[span[1]], 0)
          [] known /\ names[span].id # 0 /\ (Distinctive(span) \/ Cued(words, i, j)) ->
               Target("category", NoText, names[span].id)
          [] known /\ names[span].someone /\ Distinctive(span) -> Target("name", span, 0)
          [] OTHER -> None

(* longestTargetAt(): how many words from i on name a target whose kind is *)
(* not taken; 0 if none do.                                                *)
LongestAt(words, i, names, taken) ==
    Max({0} \cup {n \in 1..MaxPlaceWords :
                    /\ i + n - 1 <= Len(words)
                    /\ LET t == TargetFor(words, i, i + n - 1, names)
                       IN  t # None /\ t.kind \notin taken})

TakenNone(targets) == {}    \* mutant: nothing is remembered

Taken(targets) == {targets[k].kind : k \in DOMAIN targets} \cap Single

BehindNextWord(i, n) == i + n + 1    \* mutant: one word too many

Behind(i, n) == i + n

(* recognise(): from left to right, the longest span that names a target;  *)
(* the words of no span are left.                                          *)
Recognise(words, typed, names) ==
    LET step(done, i) ==
          LET n == LongestAt(words, i, names, Taken(done.targets)) IN
          IF i < done.at THEN done
          ELSE IF n = 0 THEN [done EXCEPT !.rest = Append(@, words[i]), !.at = i + 1]
          ELSE [done EXCEPT !.targets = Append(@, TargetFor(words, i, i + n - 1, names)), !.at = Behind(i, n)]
        read == FoldLeft(step, [targets |-> typed, rest |-> <<>>, at |-> 1], [i \in 1..Len(words) |-> i])
    IN  [targets |-> read.targets, words |-> Distinct(SelectSeq(read.rest, IsContentWord))]

(* linkQueryFor(), with the defaults of queryLinks().                      *)
LinkQueryFor(targets, words, limit) ==
    LET ofKind(kind) == SelectSeq(targets, LAMBDA t : t.kind = kind)
        valueOf(kind) == IF ofKind(kind) = <<>> THEN NoText ELSE ofKind(kind)[1].value
        religions == {t.value : t \in ToSet(ofKind("religion"))}
    IN  [op |-> "queryLinks",
         category |-> IF ofKind("category") = <<>> THEN 0 ELSE ofKind("category")[1].id,
         domain |-> valueOf("site"), country |-> valueOf("country"),
         religions |-> {k - 1 : k \in {k \in DOMAIN Religions : Religions[k] \in religions}},
         entity |-> valueOf("name"), words |-> Join(words), allWords |-> TRUE,
         via |-> {0, 1, 2}, hostedOnly |-> FALSE, subdomainOnly |-> FALSE, groupBy |-> 0,
         status |-> "approved", groupLimit |-> 10, limit |-> limit, after |-> 0]

(* constraintsOf(): what is left when one target, or the words, are given  *)
(* up.                                                                     *)
ConstraintsOf(p) ==
    [k \in DOMAIN p.targets |-> [targets |-> RemoveAt(p.targets, k), words |-> p.words]]
      \o (IF p.words = <<>> THEN <<>> ELSE <<[targets |-> p.targets, words |-> <<>>]>>)

CategoryAt(p) == SelectInSeq(p.targets, LAMBDA t : t.kind = "category")


-----------------------------------------------------------------------------
(* A page begins.                                                          *)

Shown(p, view) == [p EXCEPT !.at = "shown", !.view = view]

(* The query of the targets, once the category has its id; a search        *)
(* without targets is ranked.                                              *)
AskForLinks(p, after) ==
    [p EXCEPT !.at = "links",
              !.ask = [LinkQueryFor(p.targets, p.words, QueryLinksMaxRows) EXCEPT !.after = after]]

Understood(p, names) ==
    LET found == Recognise(WordsOf(TextOf(p.tokens)), p.targets, names)
        q == [p EXCEPT !.targets = found.targets, !.words = found.words]
    IN  IF found.targets = <<>> THEN [q EXCEPT !.at = "ranked"]
        ELSE IF CategoryAt(q) = 0 THEN AskForLinks(q, p.after)
        ELSE IF q.targets[CategoryAt(q)].id # 0 THEN [q EXCEPT !.at = "crumbs"]
        ELSE [q EXCEPT !.at = "path", !.path = q.targets[CategoryAt(q)].value]

(* understand(), up to the first call.                                     *)
Understand(p) ==
    LET targets == TypedTargets(p.tokens)
        phrases == NamePhrases(WordsOf(TextOf(p.tokens)))
        q == [p EXCEPT !.targets = targets, !.typed = Len(targets), !.phrases = phrases]
    IN  IF \E t \in ToSet(targets) : t.value = None THEN Shown(p, "nothing matches")
        ELSE IF phrases # <<>> THEN [q EXCEPT !.at = "names"]
        ELSE Understood(q, <<>>)

VisitSearch(tokens, plain, after) ==
    /\ page = NoPage /\ stage = "idle"
    /\ LET p == [NoPage EXCEPT !.kind = "search", !.tokens = tokens, !.after = after]
       IN  page' = IF plain THEN [p EXCEPT !.at = "ranked"] ELSE Understand(p)
    /\ UNCHANGED vars

VisitCategory(path, offset) ==
    /\ page = NoPage /\ stage = "idle"
    /\ page' = [NoPage EXCEPT !.kind = "category", !.at = "path", !.path = path, !.after = offset]
    /\ UNCHANGED vars

BadRequest(c) ==
    \/ c.limit > QueryLinksMaxRows \/ c.groupLimit > QueryLinksMaxRows
    \/ Length[c.country] \notin {0, 2} \/ Length[c.entity] > MaxEntityNameBytes

VisitApi(c, path) ==
    /\ page = NoPage /\ stage = "idle"
    /\ LET p == [NoPage EXCEPT !.kind = "api", !.ask = c, !.path = path]
       IN  page' = IF BadRequest(c) THEN Shown(p, "bad request")
                   ELSE [p EXCEPT !.at = IF path = NoText THEN "links" ELSE "path"]
    /\ UNCHANGED vars

-----------------------------------------------------------------------------
(* The calls of a page: the next one, while the wire is free.              *)

(* The ids whose names the page still needs.                               *)
Unnamed(p) == SelectSeq(Distinct(p.rows), LAMBDA id : id # p.own /\ id > 0)

Without(p) == ConstraintsOf(p)[Len(p.tried) + 1]

CallsOf(p) ==
    CASE p.at = "names" -> [op : {"matchNames"}, phrases : {p.phrases}]
      [] p.at = "path" -> [op : {"browsePath"}, path : {p.path}]
      [] p.at = "crumbs" -> [op : {"breadcrumbsByIds"}, ids : {<<p.targets[CategoryAt(p)].id>>}]
      [] p.at = "links" -> {p.ask}
      [] p.at = "relax" -> {LinkQueryFor(Without(p).targets, Without(p).words, 0)}
      [] p.at = "ranked" ->
           [op : {"search"}, query : {RankedQuery(p.tokens)}, limit : {50}, scope : {"both"},
            mode : {"ranked"}, vector : Vector \cup {None}, capPerSite : {TRUE}]
      [] p.at = "listing" ->
           [op : {"listSubtreeLinks"}, key : {p.own}, offset : {p.after}, limit : {50},
            status : {None}, after : {None}]
      [] p.at = "cousins" -> [op : {"getCategoriesByIds"}, ids : {Unnamed(p)}]
      [] p.at = "labels" -> [op : {"breadcrumbsByIds"}, ids : {Unnamed(p)}]
      [] OTHER -> {}

-----------------------------------------------------------------------------
(* What a page makes of an answer.                                         *)

(* A method threw: the server reported an error, or sent no chain at all.  *)
Threw ==
    reply # None /\ (reply.status # 0 \/ (call.op = "breadcrumbsByIds" /\ reply.count = 0))

NotFound == 1      \* Status.NotFound, the answer browsePathIfFound() takes for none

(* errorResponse() of the API: what a caller is told of a failure; an      *)
(* error that is not the server's is one of the site.                      *)
ErrorResponse ==
    CASE reply.status \in {1, 5} -> "not found"      \* NotFound, CategoryNotFound
      [] reply.status = 3 -> "bad request"           \* Invalid
      [] reply.status = 0 -> "unavailable"
      [] OTHER -> "bad gateway"

(* annotateLinks() of a category's page takes the page's own name for      *)
(* links whose category it cannot learn.                                   *)
OwnNames(p) == [k \in DOMAIN p.rows |-> p.own]

AfterFailure(p) ==
    CASE p.kind = "category" /\ p.at = "cousins" ->
           Shown([p EXCEPT !.labels = OwnNames(p), !.missing = ToSet(p.rows)], "links")
      [] p.kind = "category" /\ p.at # "cousins" -> Shown(p, "not found")
      [] p.kind = "search" /\ p.at = "path" /\ reply.status = NotFound -> Shown(p, "not found")
      [] p.kind = "api" -> Shown(p, ErrorResponse)
      [] OTHER -> Shown(p, "unavailable")

(* The constraints whose removal finds links, each with how many.          *)
Chips(p) ==
    SelectSeq([k \in DOMAIN p.tried |-> [chip |-> k, links |-> p.tried[k]]],
              LAMBDA r : r.links > 0)

(* Links came; those of a search that found none are sought again with one *)
(* constraint less, for each in turn.                                      *)
AfterLinks(p, found) ==
    LET q == [p EXCEPT !.rows = [k \in DOMAIN found.hits |-> found.hits[k].row.cat]
                                  \o [k \in DOMAIN found.groups |-> found.groups[k][2]]]
    IN  IF ~found.ready THEN Shown(p, "still loading")
        ELSE IF p.kind = "api" THEN [q EXCEPT !.at = "labels"]
        ELSE IF found.counts[1] = 0 /\ Len(ConstraintsOf(p)) > 1 THEN [p EXCEPT !.at = "relax"]
        ELSE Shown(p, "links")

AfterRelaxing(p, found) ==
    LET q == [p EXCEPT !.tried = Append(@, found.counts[1])]
    IN  IF Len(q.tried) < Len(ConstraintsOf(p)) THEN q
        ELSE Shown([q EXCEPT !.chips = Chips(q)], "links")

AfterPath(p, found) ==
    LET id == found.category.id IN
    CASE p.kind = "search" ->
           [p EXCEPT !.at = "crumbs", !.targets[CategoryAt(p)].id = id]
      [] p.kind = "api" -> [p EXCEPT !.at = "links", !.ask.category = id]
      [] OTHER -> IF p.after > OffsetCap THEN Shown([p EXCEPT !.own = id], "offset cap")
                  ELSE [p EXCEPT !.at = "listing", !.own = id]

NameByPosition(p, known) ==    \* mutant: names taken in the order of the rows
    [k \in DOMAIN p.rows |->
       IF p.rows[k] = p.own \/ k \notin DOMAIN known THEN p.own ELSE known[k].id]

(* The name of each row's category, as the cache of annotateLinks() has it.*)
NameById(p, known) ==
    LET ids == {known[k].id : k \in DOMAIN known}
    IN  [k \in DOMAIN p.rows |-> IF p.rows[k] \in ids THEN p.rows[k] ELSE p.own]

(* chains.get(id) ?? []: the end of the chain of each row's category.      *)
PathById(p, chains) ==
    LET of(id) == SelectSeq(chains, LAMBDA c : c[1] = id)
        end(id) == IF of(id) = <<>> \/ Last(of(id))[2] = <<>> THEN 0 ELSE Last(Last(of(id))[2])
    IN  [k \in DOMAIN p.rows |-> end(p.rows[k])]

(* The categories the server did not tell of.                              *)
Untold(p) ==
    LET chains == Answered
        told == IF call.op = "getCategoriesByIds" THEN {c.id : c \in ToSet(Answered)}
                ELSE {call.ids[i] : i \in DOMAIN chains} \ {call.ids[i] : i \in {i \in DOMAIN chains : chains[i] = <<>>}}
    IN  ToSet(p.rows) \ (told \cup {p.own})

AfterAnswer(p, found) ==
    CASE p.at = "names" ->
           Understood(p, IF found = None THEN <<>>
                         ELSE [x \in ToSet(p.phrases) |-> found[SelectInSeq(p.phrases, LAMBDA y : y = x)]])
      [] p.at = "path" -> AfterPath(p, found)
      [] p.at = "crumbs" -> AskForLinks(p, p.after)
      [] p.at = "links" -> AfterLinks(p, found)
      [] p.at = "relax" -> AfterRelaxing(p, found)
      [] p.at = "ranked" ->
           [p EXCEPT !.at = "labels",
                     !.rows = [k \in DOMAIN found.categories |-> found.categories[k].id]
                                \o [k \in DOMAIN found.hits |-> found.hits[k].row.cat]]
      [] p.at = "listing" ->
           [p EXCEPT !.at = "cousins", !.rows = [k \in DOMAIN found.links |-> found.links[k].cat]]
      [] p.at = "cousins" ->
           Shown([p EXCEPT !.labels = NameById(p, found), !.missing = Untold(p)], "links")
      [] p.at = "labels" ->
           Shown([p EXCEPT !.labels = PathById(p, found), !.missing = Untold(p)], "links")

Leave == page.at = "shown" /\ page' = NoPage /\ UNCHANGED vars

-----------------------------------------------------------------------------

(* Calls of other callers, one at a time, while no page is being built.    *)
OtherCall ==
    /\ page = NoPage
    /\ (\E c \in Call : Ask(c)) \/ Return
    /\ UNCHANGED page

-----------------------------------------------------------------------------
(* Properties.                                                             *)

Recognised(p) == SubSeq(p.targets, p.typed + 1, Len(p.targets))

(* What a span of words may stand for.                                     *)
StandsFor(target, span, p) ==
    CASE target.kind = "country" -> span \in DOMAIN CountryOf /\ CountryOf[span] = target.value
      [] target.kind = "religion" ->
           span[1] \in DOMAIN ReligionOf /\ Len(span) = 1 /\ ReligionOf[span[1]] = target.value
      [] target.kind = "category" -> span \in ToSet(p.phrases)
      [] OTHER -> span = target.value

(* Nothing a reader types is lost or counted twice: the text divides, from *)
(* left to right, into spans that the recognised targets stand for and the *)
(* words the links must mention, stopwords aside.                          *)
WordsAreAccountedFor ==
    page.kind = "search" /\ page.at \in {"path", "crumbs", "links"} =>
      LET words == WordsOf(TextOf(page.tokens))
          found == Recognised(page)
          spans == {<<i, j>> \in (DOMAIN words) \X (DOMAIN words) : i <= j}
      IN  \E cut \in [DOMAIN found -> spans] :
            /\ \A k \in DOMAIN found : StandsFor(found[k], SubSeq(words, cut[k][1], cut[k][2]), page)
            /\ \A k \in 2..Len(found) : cut[k - 1][2] < cut[k][1]
            /\ ToSet(page.words) =
                 {words[i] : i \in {i \in DOMAIN words :
                    IsContentWord(words[i]) /\ \A k \in DOMAIN found : i \notin cut[k][1]..cut[k][2]}}

(* The links are asked for by every target the page shows a chip for, as   *)
(* the server reads the request, and by all words: the query has room for  *)
(* one target of a kind, religions apart, so no second may be recognised.  *)
(* Excepted is an operator the reader types twice.                         *)
QueryAsksForTargets ==
    stage = "read" /\ page.kind = "search" /\ page.at = "links" /\ request # None =>
      /\ request.words = Join(page.words)
      /\ \A k \in DOMAIN page.targets :
           LET t == page.targets[k]
               asked == CASE t.kind = "site" -> request.domain = t.value
                          [] t.kind = "country" -> request.country = t.value
                          [] t.kind = "name" -> request.entity = t.value
                          [] t.kind = "category" -> request.category = t.id
                          [] OTHER -> \E bit \in request.religions : Religions[bit + 1] = t.value
           IN  asked \/ (k <= page.typed /\ \E n \in 1..(k - 1) : page.targets[n].kind = t.kind)

(* A row on a page carries the name or the path of its own category,       *)
(* whatever the order, the number and the grouping in which the directory  *)
(* told of the categories; another only when it did not tell.              *)
LabelsAreOwn ==
    page.at = "shown" /\ page.labels # <<>> =>
      \A k \in DOMAIN page.rows : page.labels[k] = page.rows[k] \/ page.rows[k] \in page.missing \cup {0}

=============================================================================
