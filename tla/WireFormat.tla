----------------------------- MODULE WireFormat -----------------------------
(***************************************************************************)
(* The binary protocol as the two sides read it: what the methods of       *)
(* DmozClient (web/lib/dmoz-client.ts) write for the arguments they are    *)
(* given, what the handlers of binary_protocol.zig make of it, and back.   *)
(* Neither side names a field or a type on the wire: a payload means what  *)
(* widths and positions say, optional tails are told apart by their        *)
(* length, and a long list of ids goes in several frames.                  *)
(*                                                                         *)
(* A payload is a sequence of fields <<width in bytes, value>>.  A reader  *)
(* that expects other widths than were written gets nothing, so that a     *)
(* layout the two sides do not share never goes unnoticed.                 *)
(***************************************************************************)
EXTENDS Integers, Sequences, FiniteSets, SequencesExt, FiniteSetsExt

CONSTANTS
    None,        \* undefined, null
    Text,        \* strings
    Sample,      \* bound: those callers use as texts of records
    Length,      \* how many bytes each is encoded in: [Text -> Nat]
    NoText,      \* the empty string
    Id,          \* ids of records
    LinkRow,     \* link records: [id, cat, status]
    CategoryRow, \* category records: [id, parent]
    Vector,      \* embeddings
    MaxRows,     \* bound: rows, groups, crumbs of one reply
    IdsMax,      \* GET_CATEGORIES_BY_IDS_MAX, BREADCRUMBS_BY_IDS_MAX
    ListsOfIds,  \* the lists of ids callers pass
    NameIndex,   \* the names known: [categories, people], sets of phrases
    LinkQuery,   \* the queries callers pass to queryLinks
    Bare,        \* a domain in lower case, without dots before it: [Text -> Text]
    Assigned,    \* codes of the countries there are (countries.zig)
    HostLenMax, QueryWordsMax, NameLenMax,    \* the server's limits on a query, in bytes
    NameMatchesMax, FoldedNameLenMax,         \* on names to be matched
    BulkItemsMax, VectorsMax, EntityWritesMax, FactsLenMax    \* on batches

(* Fixed strings of the schema and the bounds of forms keep every text     *)
(* below what a u16 length prefix can say; ids are issued from one.        *)
ASSUME TextAssumption ==
    /\ NoText \in Sample /\ Sample \subseteq Text
    /\ Length \in [Text -> 0..65535]
    /\ \A s \in Text : Length[s] = 0 <=> s = NoText
    /\ Bare \in [Text -> Text] /\ Assigned \subseteq Text
ASSUME IdAssumption == Id \subseteq Nat \ {0} /\ None \notin Id
ASSUME IdsMaxAssumption == IdsMax \in Nat \ {0}

-----------------------------------------------------------------------------
(* BufferWriter.                                                           *)

U8(v) == << <<1, v % 256>> >>
U16(v) == << <<2, v % 65536>> >>
U32(v) == << <<4, v>> >>
U64(v) == << <<8, v>> >>

Raw(v, width) == IF width = 0 THEN <<>> ELSE << <<width, v>> >>

Str(s) == U16(Length[s]) \o Raw(s, Length[s])

Width(p) == FoldLeft(LAMBDA n, field : n + field[1], 0, p)

(* Items one after the other, each as Encode writes it.                    *)
Written(items, Encode(_)) == FlattenSeq([i \in 1..Len(items) |-> Encode(items[i])])

(* BufferReader.  From field `at` on, p has fields of these widths.        *)
Has(p, at, widths) ==
    /\ at + Len(widths) - 1 <= Len(p)
    /\ \A i \in 1..Len(widths) : p[at + i - 1][1] = widths[i]

(* The string whose length prefix is field `at`, and the field behind it.  *)
TextAt(p, at) ==
    IF ~Has(p, at, <<2>>) THEN None
    ELSE IF p[at][2] = 0 THEN NoText
    ELSE IF Has(p, at, <<2, p[at][2]>>) THEN p[at + 1][2] ELSE None

AfterText(p, at) == IF p[at][2] = 0 THEN at + 1 ELSE at + 2

(* n texts from field `at` on, each with the field it begins at.           *)
TextsAt(p, at, n) ==
    FoldLeft(LAMBDA done, i :
               [texts |-> Append(done.texts, TextAt(p, done.at)),
                at |-> IF TextAt(p, done.at) = None THEN done.at ELSE AfterText(p, done.at)],
             [texts |-> <<>>, at |-> at],
             [i \in 1..n |-> i])

(* readArray(): items of equal width behind each other; nothing unless all *)
(* of them are there.                                                      *)
ItemsAt(p, at, n, widths, Item(_)) ==
    LET k == Len(widths)
        from(i) == at + (i - 1) * k
    IN  IF \A i \in 1..n : Has(p, from(i), widths)
        THEN [i \in 1..n |-> Item(SubSeq(p, from(i), from(i) + k - 1))]
        ELSE None

-----------------------------------------------------------------------------
(* Codes and records (web/lib/dmoz-protocol.gen.ts).                       *)

LinkStatus == <<"pending", "approved", "rejected">>
StatusToCode(s) == (CHOOSE i \in 1..3 : LinkStatus[i] = s) - 1
LinkStatusFromByte(b) == IF b <= 2 THEN LinkStatus[b + 1] ELSE "unknown"
KnownStatus == {0, 1, 2}
KnownGroupBy == 0..8      \* GroupBy of facts_index.zig
KnownReligions == 0..10   \* religion_mask
AnyStatus == 255    \* ANY_STATUS_CODE, status_filter_none, status_any

LinkSize == 1888
CategorySize == 1288

LinkWidths == <<8, 8, 480, 1, 1391>>
CategoryWidths == <<8, 8, 1272>>

ReadLink(f) == [id |-> f[1][2], cat |-> f[2][2], status |-> LinkStatusFromByte(f[4][2])]
ReadCategory(f) == [id |-> f[1][2], parent |-> f[2][2]]

(* The rows as they lie in the server's pages.                             *)
LinkBytes(l) ==
    U64(l.id) \o U64(l.cat) \o Raw("texts", 480) \o U8(StatusToCode(l.status)) \o Raw("note", 1391)
CategoryBytes(c) == U64(c.id) \o U64(c.parent) \o Raw("texts", 1272)

-----------------------------------------------------------------------------
(* Calls of the client, by the method's name; None where an option is left *)
(* out.                                                                    *)

SomeText == Sample \ {NoText}
StatusOrNone == ToSet(LinkStatus) \cup {None}
Code == {0, 1, 2, 3}

TreeOp == {"createCategory", "updateCategory", "getCategory", "deleteCategory", "moveCategory",
           "listRootCategories", "listChildren"}

LinkOp == {"createLink", "createSubmission", "updateLinkStatus", "updateLink", "getLink",
           "deleteLink", "moveLink"}

TreeCall ==
    [op : {"createCategory"}, parent : Id, texts : {<<s, t, u>> : s, t \in SomeText, u \in Sample}]
      \cup [op : {"updateCategory"}, id : Id, texts : {<<s, t, u>> : s, t, u \in Sample \cup {None}}]
      \cup [op : {"getCategory", "deleteCategory"}, id : Id]
      \cup [op : {"moveCategory"}, id : Id, to : Id]
      \cup [op : {"listRootCategories"}, offset : {0, 3}, limit : {5}]
      \cup [op : {"listChildren"}, key : Id, offset : {0, 3}, limit : {5}]

LinkCall ==
    [op : {"createLink"}, parent : Id, texts : {<<s, t, u>> : s, t \in SomeText, u \in Sample}]
      \cup [op : {"createSubmission"}, parent : Id,
            texts : {<<s, s, u>> : s \in SomeText, u \in Sample}, submitter : {7}]
      \cup [op : {"updateLinkStatus"}, id : Id, status : ToSet(LinkStatus)]
      \cup [op : {"updateLink"}, id : Id, texts : {<<s, t, u>> : s, t, u \in Sample \cup {None}}]
      \cup [op : {"getLink", "deleteLink"}, id : Id]
      \cup [op : {"moveLink"}, id : Id, to : Id]

ListOp == {"listLinks", "listMySubmissions", "listSubtreeLinks", "listAllLinks"}

ListCall ==
    [op : {"listLinks", "listMySubmissions", "listSubtreeLinks"}, key : Id, offset : {0, 3},
     limit : {5}, status : StatusOrNone, after : Id \cup {0, None}]
      \cup [op : {"listAllLinks"}, offset : {0, 3}, limit : {5}, status : StatusOrNone,
            after : Id \cup {0, None}]

(* The bulk routes pass at most 200 ids, the embedder at most as many      *)
(* writes as go in one request: these lists are no longer.                 *)
BatchCall ==
    [op : {"getCategoriesByIds", "breadcrumbsByIds", "bulkDeleteLinks"}, ids : ListsOfIds]
      \cup [op : {"bulkUpdateLinkStatus"}, ids : ListsOfIds, status : ToSet(LinkStatus)]
      \cup [op : {"putLinkVectors", "putCategoryVectors"}, model : {9}, ids : ListsOfIds,
            print : {11}, vector : Vector]

Entities ==
    [religions : SUBSET {0, 2}, countries : {<<>>, <<"gb">>, <<"gb", "fr">>},
     people : {<<>>} \cup {<<s>> : s \in SomeText}, orgs : {<<>>, <<CHOOSE s \in SomeText : TRUE>>}]

(* The search page asks for a limit of 50, the API for at most that.       *)
SearchCall ==
    [op : {"search"}, query : SomeText, limit : {20}, scope : {"both", "links", "categories"},
     mode : {"ranked", None}, vector : Vector \cup {None}, capPerSite : BOOLEAN]
      \cup [op : {"matchNames"}, phrases : {<<s>> : s \in SomeText} \cup {<<s, t>> : s, t \in SomeText}]
      \cup [op : {"browsePath"}, path : SomeText]
      \cup [op : {"putLinkEntities"}, ids : ListsOfIds, print : {11}, facts : Entities]

ServiceCall ==
    [op : {"ping", "stats", "countsByStatus", "indexHealth", "runVerifier"}]
      \cup [op : {"rebuildIndex"}, name : SomeText]

Call ==
    UNION {TreeCall, LinkCall, ListCall, BatchCall, SearchCall, LinkQuery, ServiceCall}

-----------------------------------------------------------------------------
(* What the methods write.                                                 *)

Texts(c) == Str(c.texts[1]) \o Str(c.texts[2]) \o Str(c.texts[3])

FieldBits == <<1, 2, 4>>    \* CATEGORY_FIELD_BITS, LINK_FIELD_BITS

BuildBitmaskPayload(c) ==
    LET given == {i \in 1..3 : c.texts[i] # None}
    IN  U64(c.id) \o U8(MapThenSumSet(LAMBDA i : FieldBits[i], given))
          \o FlattenSeq([i \in 1..3 |-> IF i \in given THEN Str(c.texts[i]) ELSE <<>>])

WriteListExtras(c) ==
    IF c.after # None
    THEN U8(IF c.status # None THEN StatusToCode(c.status) ELSE AnyStatus) \o U64(c.after)
    ELSE IF c.status # None THEN U8(StatusToCode(c.status)) ELSE <<>>

CategoryPayload(c) ==
    IF c.op = "createCategory" THEN U64(c.parent) \o Texts(c) ELSE U64(c.id)

TreePayload(c) ==
    CASE c.op \in {"createCategory", "getCategory"} -> CategoryPayload(c)
      [] c.op = "updateCategory" -> BuildBitmaskPayload(c)
      [] c.op = "deleteCategory" -> U64(c.id)
      [] c.op = "moveCategory" -> U64(c.id) \o U64(c.to)
      [] c.op = "listRootCategories" -> U32(c.offset) \o U32(c.limit)
      [] c.op = "listChildren" -> U64(c.key) \o U32(c.offset) \o U32(c.limit)

LinkPayload(c) ==
    CASE c.op = "createLink" -> U64(c.parent) \o Texts(c)
      [] c.op = "createSubmission" -> U64(c.parent) \o Texts(c) \o U64(c.submitter)
      [] c.op = "updateLinkStatus" -> U64(c.id) \o U8(StatusToCode(c.status))
      [] c.op = "updateLink" -> BuildBitmaskPayload(c)
      [] c.op \in {"getLink", "deleteLink"} -> U64(c.id)
      [] c.op = "moveLink" -> U64(c.id) \o U64(c.to)

ListPayload(c) ==
    CASE c.op \in {"listLinks", "listMySubmissions"} ->
           U64(c.key) \o U32(c.offset) \o U32(c.limit) \o WriteListExtras(c)
      [] c.op = "listAllLinks" -> U32(c.offset) \o U32(c.limit) \o WriteListExtras(c)

SubtreePayload(c) ==
    U64(c.key) \o U8(0) \o U32(c.offset) \o U32(c.limit) \o WriteListExtras(c)

WriteIds(ids) == U16(Len(ids)) \o Written(ids, U64)

BulkPayload(c) ==
    (IF c.op = "bulkUpdateLinkStatus" THEN U8(StatusToCode(c.status)) ELSE <<>>) \o WriteIds(c.ids)

VectorBytes == 384 * 4

VectorsPayload(c) ==
    LET item(i) == U64(i) \o (IF c.op = "putLinkVectors" THEN U64(c.print) ELSE <<>>)
                     \o Raw(c.vector, VectorBytes)
    IN  U64(c.model) \o U16(Len(c.ids)) \o Written(c.ids, item)

Mask(religions) == MapThenSumSet(LAMBDA bit : 2^bit, religions)
Bits(mask) == {i \in 0..15 : (mask \div 2^i) % 2 = 1}

ShortText(s) == U8(Length[s]) \o Raw(s, Length[s])

EncodeEntities(facts) ==
    U8(1) \o U16(Mask(facts.religions))
      \o U8(Len(facts.countries)) \o Written(facts.countries, LAMBDA code : Raw(code, 2))
      \o U8(Len(facts.people)) \o Written(facts.people, ShortText)
      \o U8(Len(facts.orgs)) \o Written(facts.orgs, ShortText)

EntitiesPayload(c) ==
    LET facts == EncodeEntities(c.facts)
        item(i) == U64(i) \o U64(c.print) \o U16(Width(facts)) \o facts
    IN  U16(Len(c.ids)) \o Written(c.ids, item)

SearchPayload(c) ==
    LET scope == CASE c.scope = "both" -> 0 [] c.scope = "links" -> 1 [] OTHER -> 2
        ranked == c.vector # None \/ c.mode = "ranked"
    IN  Str(c.query) \o U32(c.limit)
          \o (IF c.vector # None
              THEN U8(scope) \o U8(2) \o U64("model") \o Raw(c.vector, VectorBytes)
              ELSE IF c.mode = "ranked" THEN U8(scope) \o U8(1)
              ELSE IF scope # 0 THEN U8(scope) ELSE <<>>)
          \o (IF ranked /\ c.capPerSite THEN U8(1) ELSE <<>>)

NamesPayload(c) == U16(Len(c.phrases)) \o Written(c.phrases, Str)

(* linkQueryOptions(): the bits each option sets, <<value, bits>> packed   *)
(* from the lowest bit on; a value too large would reach into the next.    *)
PackedOptions(c) ==
    LET status == IF c.status = "any" THEN AnyStatus ELSE StatusToCode(c.status)
        options == <<Mask(c.via), IF c.hostedOnly THEN 1 ELSE 0,
                     IF c.allWords THEN 1 ELSE 0, c.groupBy, status, c.groupLimit, c.limit,
                     Mask(c.religions), IF c.subdomainOnly THEN 1 ELSE 0>>
        widths == <<4, 1, 1, 4, 8, 8, 8, 16, 1>>
        shift(k) == FoldLeft(+, 0, SubSeq(widths, 1, k - 1))
    IN  UNION {{shift(k) + bit : bit \in Bits(options[k])} : k \in 1..9}

QueryPayload(c) ==
    U64(c.category) \o Str(c.domain) \o Str(c.country) \o U64(PackedOptions(c))
      \o Str(c.words) \o Str(c.entity) \o U64(c.after)

ServicePayload(c) == IF c.op = "rebuildIndex" THEN ShortText(c.name) ELSE <<>>

-----------------------------------------------------------------------------
(* What the handlers of the server read; None is the answer "invalid".     *)

(* parsePayload() over link_fields and category_fields.                    *)
ParseCreate(op, p) ==
    LET read == TextsAt(p, 2, 3) IN
    IF ~Has(p, 1, <<8>>) \/ None \in ToSet(read.texts) THEN None
    ELSE IF op # "createSubmission"
    THEN [op |-> op, parent |-> p[1][2], texts |-> read.texts]
    ELSE IF Has(p, read.at, <<8>>)
    THEN [op |-> op, parent |-> p[1][2], texts |-> read.texts, submitter |-> p[read.at][2]]
    ELSE None

(* TextUpdateHandlerType: readOptionalString() for the three bits in turn. *)
ParseUpdate(op, p) ==
    IF ~Has(p, 1, <<8, 1>>) THEN None
    ELSE LET sent == {i \in 1..3 : (p[2][2] \div FieldBits[i]) % 2 = 1}
             read == TextsAt(p, 3, Cardinality(sent)).texts
         IN  IF None \in ToSet(read) THEN None
             ELSE [op |-> op, id |-> p[1][2],
                   texts |-> [i \in 1..3 |-> IF i \in sent
                                            THEN read[Cardinality({j \in sent : j <= i})]
                                            ELSE None]]

ParseStatus(op, p) ==
    IF Has(p, 1, <<8, 1>>) /\ p[2][2] \in KnownStatus
    THEN [op |-> op, id |-> p[1][2], status |-> LinkStatusFromByte(p[2][2])]
    ELSE None

(* GetHandlerType, DeleteHandlerType, MoveHandlerType.                     *)
ParseId(op, p) == IF Has(p, 1, <<8>>) THEN [op |-> op, id |-> p[1][2]] ELSE None
ParseMove(op, p) ==
    IF Has(p, 1, <<8, 8>>) THEN [op |-> op, id |-> p[1][2], to |-> p[2][2]] ELSE None

(* The tail of a list request: nothing, a status, or a status and a cursor,*)
(* told apart by length.                                                   *)
ReadOptionalListExtras(tail) ==
    CASE Width(tail) = 0 -> [status |-> None, after |-> 0]
      [] Width(tail) = 1 /\ tail[1][2] \in KnownStatus ->
           [status |-> LinkStatusFromByte(tail[1][2]), after |-> 0]
      [] Width(tail) = 9 /\ Has(tail, 1, <<1, 8>>) /\ tail[1][2] \in KnownStatus \cup {AnyStatus} ->
           [status |-> IF tail[1][2] = AnyStatus THEN None ELSE LinkStatusFromByte(tail[1][2]),
            after |-> tail[2][2]]
      [] OTHER -> None

(* parse_list_window(), ListChildrenHandlerType, ListLinksHandlerType.     *)
ParseList(op, p) ==
    LET keyed == op \notin {"listRootCategories", "listAllLinks"}
        n == IF keyed THEN 3 ELSE 2
        window == [op |-> op, offset |-> p[n - 1][2], limit |-> p[n][2]]
        extras == ReadOptionalListExtras(SubSeq(p, n + 1, Len(p)))
    IN  IF ~Has(p, 1, IF keyed THEN <<8, 4, 4>> ELSE <<4, 4>>) THEN None
        ELSE IF op \in {"listRootCategories", "listChildren"}
        THEN IF keyed THEN window @@ [key |-> p[1][2]] ELSE window
        ELSE IF extras = None THEN None
        ELSE IF keyed THEN window @@ extras @@ [key |-> p[1][2]] ELSE window @@ extras

(* ListSubtreeLinksRequest.                                                *)
ParseSubtree(op, p) ==
    LET extras == ReadOptionalListExtras(SubSeq(p, 5, Len(p))) IN
    IF Has(p, 1, <<8, 1, 4, 4>>) /\ p[2][2] = 0 /\ extras # None
    THEN [op |-> op, key |-> p[1][2], offset |-> p[3][2], limit |-> p[4][2]] @@ extras
    ELSE None

ValueOf(f) == f[1][2]

(* handle_get_categories_by_ids(), handle_breadcrumbs_by_ids().            *)
ParseIds(op, p) ==
    IF Has(p, 1, <<2>>) /\ p[1][2] <= IdsMax /\ ItemsAt(p, 2, p[1][2], <<8>>, ValueOf) # None
    THEN [op |-> op, ids |-> ItemsAt(p, 2, p[1][2], <<8>>, ValueOf)]
    ELSE None

(* handle_bulk_link_op(): the length must be what the count says.          *)
ParseBulk(op, p) ==
    LET at == IF op = "bulkUpdateLinkStatus" THEN 2 ELSE 1
        ids == ItemsAt(p, at + 1, p[at][2], <<8>>, ValueOf)
    IN  IF ~Has(p, 1, IF at = 2 THEN <<1, 2>> ELSE <<2>>) THEN None
        ELSE IF p[at][2] > BulkItemsMax THEN None
        ELSE IF Width(p) # (IF at = 2 THEN 3 ELSE 2) + 8 * p[at][2] \/ ids = None THEN None
        ELSE IF at = 1 THEN [op |-> op, ids |-> ids]
        ELSE IF p[1][2] \in KnownStatus
        THEN [op |-> op, ids |-> ids, status |-> LinkStatusFromByte(p[1][2])]
        ELSE None

(* handle_put_link_vectors(), handle_put_category_vectors(): what was sent *)
(* for each id.                                                            *)
ParseVectors(op, p) ==
    LET widths == IF op = "putLinkVectors" THEN <<8, 8, VectorBytes>> ELSE <<8, VectorBytes>>
        writes == ItemsAt(p, 3, p[2][2], widths,
                          LAMBDA f : [i \in 1..Len(f) |-> f[i][2]])
    IN  IF /\ Has(p, 1, <<8, 2>>)
           /\ p[2][2] \in 1..VectorsMax
           /\ writes # None
           /\ Len(p) = 2 + Len(widths) * p[2][2]
        THEN [op |-> op, model |-> p[1][2], writes |-> writes]
        ELSE None

(* decode() of facts/entities.zig.                                         *)
ShortTextsAt(p, at, n) ==
    FoldLeft(LAMBDA done, i :
               IF Has(p, done.at, <<1>>) /\ Has(p, done.at, <<1, p[done.at][2]>>)
               THEN [texts |-> Append(done.texts, p[done.at + 1][2]), at |-> done.at + 2]
               ELSE [texts |-> Append(done.texts, None), at |-> done.at],
             [texts |-> <<>>, at |-> at],
             [i \in 1..n |-> i])

DecodeEntities(p) ==
    LET countries == ItemsAt(p, 4, p[3][2], <<2>>, ValueOf)
        people == ShortTextsAt(p, 5 + p[3][2], p[4 + p[3][2]][2])
        orgs == ShortTextsAt(p, people.at + 1, p[people.at][2])
    IN  IF Has(p, 1, <<1, 2, 1>>) /\ p[1][2] = 1
        THEN [religions |-> Bits(p[2][2]), countries |-> countries,
              people |-> people.texts, orgs |-> orgs.texts]
        ELSE None

(* handle_put_link_entities(): a write begins where the one before ends.   *)
ParseEntities(op, p) ==
    LET n == p[1][2]
        factsAt(at) == CHOOSE k \in 0..Len(p) - at - 2 :
                         Width(SubSeq(p, at + 3, at + 2 + k)) = p[at + 2][2]
        read == FoldLeft(
          LAMBDA done, i :
            LET at == done.at IN
            [writes |-> Append(done.writes,
                          <<p[at][2], p[at + 1][2],
                            DecodeEntities(SubSeq(p, at + 3, at + 2 + factsAt(at)))>>),
             fit |-> done.fit /\ p[at + 2][2] <= FactsLenMax,
             at |-> at + 3 + factsAt(at)],
          [writes |-> <<>>, fit |-> TRUE, at |-> 2], [i \in 1..n |-> i])
    IN  IF n \in 1..EntityWritesMax /\ read.fit /\ read.at = Len(p) + 1
        THEN [op |-> op, writes |-> read.writes]
        ELSE None

(* SearchRequest.parse().                                                  *)
ParseSearch(op, p) ==
    LET at == AfterText(p, 1)
        trailing == SubSeq(p, at + 1, Len(p))
        n == Len(trailing)
        scope == IF n >= 1 THEN trailing[1][2] ELSE 0
        mode == IF n >= 2 THEN trailing[2][2] ELSE 0
        vector == IF mode = 2 THEN 2 ELSE 0
        options == IF n < 2 THEN n ELSE 2
        cap == IF n > options + vector THEN trailing[options + vector + 1][2] ELSE 0
    IN  IF /\ TextAt(p, 1) # None /\ Has(p, at, <<4>>)
           /\ Length[TextAt(p, 1)] >= 2
           /\ n >= options + vector /\ n <= options + vector + 1
           /\ scope \in 0..2 /\ mode \in 0..2 /\ cap \in 0..1
           /\ ~(cap = 1 /\ mode = 0)
        THEN [op |-> op, query |-> TextAt(p, 1), limit |-> p[at][2],
              scope |-> <<"both", "links", "categories">>[scope + 1],
              mode |-> <<"all_terms", "ranked", "hybrid">>[mode + 1],
              vector |-> IF mode = 2 THEN trailing[4][2] ELSE None,
              capPerSite |-> cap = 1]
        ELSE None

(* handle_match_names().                                                   *)
ParseNames(op, p) ==
    LET read == TextsAt(p, 2, p[1][2]) IN
    IF /\ p[1][2] \in 1..NameMatchesMax
       /\ read.at = Len(p) + 1 /\ ToSet(read.texts) \cap {None, NoText} = {}
       /\ \A name \in ToSet(read.texts) : Length[name] <= FoldedNameLenMax
    THEN [op |-> op, phrases |-> read.texts]
    ELSE None

ParsePath(op, p) == IF TextAt(p, 1) = None THEN None ELSE [op |-> op, path |-> TextAt(p, 1)]

(* QueryLinksOptions and link_query_from().                                *)
ParseQuery(op, p) ==
    LET names == TextsAt(p, 2, 2)
        options == p[names.at][2]
        texts == TextsAt(p, names.at + 1, 2)
        field(low, bits) == MapThenSumSet(LAMBDA i : IF low + i \in options THEN 2^i ELSE 0,
                                          0..(bits - 1))
        via == IF field(0, 4) = 0 THEN {0, 1, 2} ELSE Bits(field(0, 4))
        status == field(10, 8)
    IN  IF /\ None \notin ToSet(names.texts) \cup ToSet(texts.texts)
           /\ Has(p, texts.at, <<8>>)
           /\ Length[Bare[names.texts[1]]] <= HostLenMax
           /\ names.texts[2] \in Assigned \cup {NoText}
           /\ Length[texts.texts[1]] <= QueryWordsMax
           /\ Length[texts.texts[2]] <= NameLenMax
           /\ status \in KnownStatus \cup {AnyStatus}
           /\ via \subseteq 0..2 /\ field(6, 4) \in KnownGroupBy
           /\ Bits(field(34, 16)) \subseteq KnownReligions
           /\ field(18, 8) <= 50 /\ field(26, 8) <= 50
        THEN [op |-> op, category |-> p[1][2], domain |-> Bare[names.texts[1]],
              country |-> names.texts[2], via |-> via, hostedOnly |-> 4 \in options,
              allWords |-> 5 \in options, groupBy |-> field(6, 4),
              status |-> IF status = AnyStatus THEN "any" ELSE LinkStatusFromByte(status),
              groupLimit |-> field(18, 8), limit |-> field(26, 8),
              religions |-> Bits(field(34, 16)), subdomainOnly |-> 50 \in options,
              words |-> texts.texts[1], entity |-> texts.texts[2], after |-> p[texts.at][2]]
        ELSE None

(* handle_stats(), handle_rebuild_index() and the others that look at no   *)
(* payload.                                                                *)
ParseService(op, p) == [op |-> op]

=============================================================================
