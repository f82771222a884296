------------------------------ MODULE WireCalls ------------------------------
(***************************************************************************)
(* A call of DmozClient from its arguments to its result: the frames it    *)
(* sends, what the server makes of each and answers, and what the method   *)
(* returns.  The directory behind the server is left open: an operation    *)
(* answers what it likes, within what its handler can write, so that the   *)
(* outcome of a call is compared with the answers the server really gave.  *)
(***************************************************************************)
EXTENDS WireFormat, TLC

VARIABLES
    call,        \* the call in progress
    stage,       \* where it is
    settled,     \* how many of its ids earlier frames settled
    frame,       \* the payload on its way to the server
    request,     \* what the server read
    answers,     \* what the operations answered, frame by frame
    reply,       \* the payload on its way back
    result       \* what the method has gathered, returned or thrown

vars == <<call, stage, settled, frame, request, answers, reply, result>>

Init ==
    /\ call = None /\ stage = "idle" /\ settled = 0
    /\ frame = <<>> /\ request = None /\ answers = <<>> /\ reply = None /\ result = None

InSeveralFrames(c) == c.op \in {"getCategoriesByIds", "breadcrumbsByIds"}

ChunkTooLong(ids, from) ==    \* mutant: slice() takes one more
    SubSeq(ids, from + 1, IF from + IdsMax < Len(ids) THEN from + IdsMax + 1 ELSE Len(ids))

(* The ids of the next frame.                                              *)
Chunk(ids, from) ==
    SubSeq(ids, from + 1, IF from + IdsMax < Len(ids) THEN from + IdsMax ELSE Len(ids))

Payload(c, from) ==
    CASE c.op \in TreeOp -> TreePayload(c)
      [] c.op \in LinkOp -> LinkPayload(c)
      [] c.op = "listSubtreeLinks" -> SubtreePayload(c)
      [] c.op \in ListOp -> ListPayload(c)
      [] InSeveralFrames(c) -> WriteIds(Chunk(c.ids, from))
      [] c.op \in {"bulkUpdateLinkStatus", "bulkDeleteLinks"} -> BulkPayload(c)
      [] c.op \in {"putLinkVectors", "putCategoryVectors"} -> VectorsPayload(c)
      [] c.op = "putLinkEntities" -> EntitiesPayload(c)
      [] c.op = "search" -> SearchPayload(c)
      [] c.op = "matchNames" -> NamesPayload(c)
      [] c.op = "browsePath" -> Str(c.path)
      [] c.op = "queryLinks" -> QueryPayload(c)
      [] OTHER -> ServicePayload(c)

(* dispatch().                                                             *)
Parse(op, p) ==
    CASE op \in {"createCategory", "createLink", "createSubmission"} -> ParseCreate(op, p)
      [] op \in {"updateCategory", "updateLink"} -> ParseUpdate(op, p)
      [] op \in {"getCategory", "deleteCategory", "getLink", "deleteLink"} -> ParseId(op, p)
      [] op \in {"moveCategory", "moveLink"} -> ParseMove(op, p)
      [] op = "updateLinkStatus" -> ParseStatus(op, p)
      [] op = "listSubtreeLinks" -> ParseSubtree(op, p)
      [] op \in {"listRootCategories", "listChildren", "listLinks", "listMySubmissions",
                 "listAllLinks"} -> ParseList(op, p)
      [] op \in {"getCategoriesByIds", "breadcrumbsByIds"} -> ParseIds(op, p)
      [] op \in {"bulkUpdateLinkStatus", "bulkDeleteLinks"} -> ParseBulk(op, p)
      [] op \in {"putLinkVectors", "putCategoryVectors"} -> ParseVectors(op, p)
      [] op = "putLinkEntities" -> ParseEntities(op, p)
      [] op = "search" -> ParseSearch(op, p)
      [] op = "matchNames" -> ParseNames(op, p)
      [] op = "browsePath" -> ParsePath(op, p)
      [] op = "queryLinks" -> ParseQuery(op, p)
      [] OTHER -> ParseService(op, p)

-----------------------------------------------------------------------------
(* The caller: one frame, or as many as the ids take.                      *)

NothingToSend(c) == "ids" \in DOMAIN c /\ c.ids = <<>>

(* What a batch call returns when it is given nothing.                     *)
Nothing(c) ==
    CASE c.op \in {"bulkUpdateLinkStatus", "bulkDeleteLinks"} -> [ok |-> 0, errors |-> <<>>]
      [] OTHER -> <<>>

Ask(c) ==
    /\ stage = "idle"
    /\ call' = c
    /\ settled' = 0
    /\ answers' = <<>>
    /\ IF NothingToSend(c)
       THEN stage' = "done" /\ result' = Nothing(c) /\ UNCHANGED frame
       ELSE stage' = "sent" /\ frame' = Payload(c, 0) /\ result' = <<>>
    /\ UNCHANGED <<request, reply>>

-----------------------------------------------------------------------------
(* The server.                                                             *)

Read ==
    /\ stage = "sent"
    /\ request' = Parse(call.op, frame)
    /\ stage' = "read"
    /\ UNCHANGED <<call, settled, frame, answers, reply, result>>

SeqsOf(S, n) == UNION {[1..k -> S] : k \in 0..n}

Failure == {[status |-> 1, sub |-> 0], [status |-> 4, sub |-> 3]}
Invalid == [status |-> 3, sub |-> 0]

Hit == {[row |-> l, match |-> 3, site |-> s, more |-> 2] : l \in LinkRow, s \in Sample}

(* Pages of at most two hits, the second of another row.                   *)
Hits == SeqsOf(Hit, 1) \cup {<<h, CHOOSE g \in Hit : g.row # h.row>> : h \in Hit}

(* What queryLinks may find: nothing, the end of a list, or part of it.    *)
Found ==
    LET PartOf(f) == /\ f.counts = <<0, 0, 0, 0>> <=> f.hits = <<>>
                     /\ ~f.ready => f.hits = <<>>
                     /\ Len(f.groups) + Len(f.hits) # 1
                     /\ f.next # 0 => Len(f.hits) = 2
    IN  {f \in [ready : BOOLEAN, counts : {<<0, 0, 0, 0>>, <<6, 7, 8, 9>>},
                groups : SeqsOf({<<s, 1, 2, 3>> : s \in SomeText}, 1), hits : Hits,
                religions : {{1}}, countries : {<<<<102, 114>>>>}, next : {0, 3}] : PartOf(f)}

(* The answers an operation may give to what was read.                     *)
Answers(r) ==
    Failure \cup
    CASE r.op \in {"createCategory", "createLink", "createSubmission"} -> [id : Id]
      [] r.op = "getLink" -> [row : LinkRow]
      [] r.op = "getCategory" -> [row : CategoryRow]
      [] r.op \in {"listRootCategories", "listChildren"} -> [rows : SeqsOf(CategoryRow, MaxRows)]
      [] r.op \in {"listLinks", "listMySubmissions", "listAllLinks"} ->
           [rows : SeqsOf(LinkRow, MaxRows), next : Id \cup {0}]
      [] r.op = "listSubtreeLinks" -> [rows : SeqsOf(LinkRow, MaxRows), total : {5}, next : Id \cup {0}]
      [] r.op = "getCategoriesByIds" ->
           {[rows |-> SelectSeq([i \in 1..Len(r.ids) |-> [id |-> r.ids[i], parent |-> 1]],
                                LAMBDA c : c.id \in found)] : found \in SUBSET ToSet(r.ids)}
      [] r.op = "breadcrumbsByIds" ->
           {[chains |-> [i \in 1..n |-> IF r.ids[i] \in found THEN <<1, r.ids[i]>> ELSE <<>>]] :
              n \in 0..Len(r.ids), found \in SUBSET ToSet(r.ids)}
      [] r.op \in {"bulkUpdateLinkStatus", "bulkDeleteLinks"} -> [codes : [1..Len(r.ids) -> {0, 1, 2}]]
      [] r.op \in {"putLinkVectors", "putCategoryVectors", "putLinkEntities"} ->
           [codes : [1..Len(r.writes) -> Code]]
      [] r.op = "search" ->
           [categories : SeqsOf(CategoryRow, 1), hits : Hits,
            vectorUsed : IF r.mode = "hybrid" THEN BOOLEAN ELSE {FALSE}]
      [] r.op = "matchNames" ->
           {[ready |-> FALSE, matches |-> <<>>]} \cup
           {[ready |-> TRUE,
             matches |-> [i \in 1..Len(r.phrases) |->
                            [id |-> IF r.phrases[i] \in x.categories THEN 1 ELSE 0,
                             someone |-> r.phrases[i] \in x.people]]] : x \in NameIndex}
      [] r.op = "browsePath" ->
           [category : CategoryRow, ancestors : SeqsOf(CategoryRow, MaxRows),
            children : SeqsOf(CategoryRow, MaxRows), total : {5}]
      [] r.op = "queryLinks" ->
           Found
      [] r.op \in {"stats", "countsByStatus", "rebuildIndex"} ->
           {[numbers |-> [i \in 1..(IF r.op = "stats" THEN 6 ELSE 3) |-> i]]}
      [] r.op \in {"indexHealth", "runVerifier"} -> [last : {17}, indices : SeqsOf({<<s, 1, 2, 3>> : s \in SomeText}, MaxRows)]
      [] OTHER -> {[ok |-> TRUE]}

Ok(count, payload) == [status |-> 0, sub |-> 0, count |-> count, payload |-> payload]
Err(a) == [status |-> a.status, sub |-> a.sub, count |-> 0, payload |-> <<>>]

(* write_item_result(): a batch of creates is answered item by item; a     *)
(* submission that fails says so in the header as well.                    *)
ItemReply(r, a) ==
    IF "id" \in DOMAIN a THEN Ok(1, U8(0) \o U8(0) \o U64(a.id))
    ELSE LET item == U8(a.status) \o U8(a.sub) \o U64(0) IN
         IF r.op = "createSubmission"
         THEN [status |-> a.status, sub |-> a.sub, count |-> 1, payload |-> item]
         ELSE Ok(1, item)

Crumb(id) == U64(id) \o Raw("name", 66) \o Raw("slug", 130)
Chain(ids) == U16(Len(ids)) \o Written(ids, Crumb)

Counted(rows) == U16(Len(rows)) \o Written(rows, CategoryBytes)

(* The result of every id, behind how many went well and how many did not. *)
Codes(ids, codes) ==
    LET ok == Cardinality({i \in DOMAIN codes : codes[i] = 0})
    IN  U16(ok) \o U16(Len(codes) - ok)
          \o FlattenSeq([i \in 1..Len(codes) |-> U64(ids[i]) \o U8(codes[i])])

SearchBody(r, a) ==
    LET hit(h) == LinkBytes(h.row) \o U8(h.match)
                    \o (IF r.capPerSite THEN Str(h.site) \o U16(h.more) ELSE <<>>)
    IN  Counted(a.categories) \o U16(Len(a.hits)) \o Written(a.hits, hit)
          \o (IF r.mode = "hybrid" THEN U8(IF a.vectorUsed THEN 1 ELSE 0) ELSE <<>>)

NamesBody(a) ==
    U8(IF a.ready THEN 1 ELSE 0) \o U16(Len(a.matches))
      \o Written(a.matches, LAMBDA m : U64(m.id) \o U8(IF m.someone THEN 1 ELSE 0))

Country(code) == U8(code[1]) \o U8(code[2])

QueryBody(a) ==
    LET group(g) == Str(g[1]) \o U64(g[2]) \o U64(g[3]) \o U64(g[4])
        hit(h) == LinkBytes(h.row) \o Str(h.site) \o Country(<<0, 0>>) \o Country(<<103, 98>>)
                    \o U16(Mask(a.religions)) \o U8(Len(a.countries)) \o Written(a.countries, Country)
    IN  U8(IF a.ready THEN 1 ELSE 0) \o Written(a.counts, U64)
          \o U16(Len(a.groups)) \o Written(a.groups, group)
          \o U16(Len(a.hits)) \o Written(a.hits, hit) \o U64(a.next)

(* write_index_health_frame(): what the client reads is followed by the    *)
(* state of the repair queue.                                              *)
HealthBody(a) ==
    U64(a.last) \o U8(Len(a.indices))
      \o Written(a.indices, LAMBDA x : ShortText(x[1]) \o U64(x[2]) \o U64(x[3]) \o U32(x[4]))
      \o U64(0) \o U64(0) \o U64(0) \o U64(0)

Reply(r, a) ==
    CASE r.op \in {"createCategory", "createLink", "createSubmission"} -> ItemReply(r, a)
      [] "status" \in DOMAIN a -> Err(a)
      [] r.op = "getLink" -> Ok(1, LinkBytes(a.row))
      [] r.op = "getCategory" -> Ok(1, CategoryBytes(a.row))
      [] r.op \in {"listRootCategories", "listChildren", "getCategoriesByIds"} ->
           Ok(Len(a.rows), Written(a.rows, CategoryBytes))
      [] r.op \in {"listLinks", "listMySubmissions", "listAllLinks"} ->
           Ok(Len(a.rows), Written(a.rows, LinkBytes) \o U64(a.next))
      [] r.op = "listSubtreeLinks" ->
           Ok(0, U32(Len(a.rows)) \o Written(a.rows, LinkBytes) \o U64(a.total) \o U64(a.next))
      [] r.op = "breadcrumbsByIds" -> Ok(Len(a.chains), Written(a.chains, Chain))
      [] r.op \in {"bulkUpdateLinkStatus", "bulkDeleteLinks"} -> Ok(0, Codes(r.ids, a.codes))
      [] r.op \in {"putLinkVectors", "putCategoryVectors", "putLinkEntities"} ->
           Ok(0, Codes([i \in 1..Len(r.writes) |-> r.writes[i][1]], a.codes))
      [] r.op = "search" -> Ok(0, SearchBody(r, a))
      [] r.op = "matchNames" -> Ok(Len(a.matches), NamesBody(a))
      [] r.op = "browsePath" ->
           Ok(0, CategoryBytes(a.category) \o Counted(a.ancestors) \o Counted(a.children) \o U64(a.total))
      [] r.op = "queryLinks" -> Ok(Len(a.hits), QueryBody(a))
      [] r.op \in {"stats", "countsByStatus", "rebuildIndex"} -> Ok(0, Written(a.numbers, U64))
      [] r.op \in {"indexHealth", "runVerifier"} -> Ok(0, HealthBody(a))
      [] OTHER -> Ok(0, <<>>)

Answer ==
    /\ stage = "read"
    /\ IF request = None
       THEN reply' = Err(Invalid) /\ answers' = Append(answers, Invalid)
       ELSE \E a \in Answers(request) :
              reply' = Reply(request, a) /\ answers' = Append(answers, a)
    /\ stage' = "answered"
    /\ UNCHANGED <<call, settled, frame, request, result>>

-----------------------------------------------------------------------------
(* What the methods make of a payload; None where it is not laid out as    *)
(* they expect.                                                            *)

Thrown(status, sub) == [error |-> <<status, sub>>]

ReadCreated(p) ==
    IF ~Has(p, 1, <<1, 1, 8>>) THEN None
    ELSE IF p[1][2] # 0 THEN Thrown(p[1][2], p[2][2]) ELSE p[3][2]

ReadRow(p, widths, Item(_)) ==
    LET rows == ItemsAt(p, 1, 1, widths, Item) IN IF rows = None THEN None ELSE rows[1]

(* listEntitiesWithCursor(): the cursor is behind as many rows as the      *)
(* header counts, if the payload goes on there.                            *)
ReadPage(p, count) ==
    LET at == 1 + count * Len(LinkWidths)
    IN  [links |-> ItemsAt(p, 1, count, LinkWidths, ReadLink),
         next |-> IF Width(p) >= count * LinkSize + 8 /\ Has(p, at, <<8>>) THEN p[at][2] ELSE 0]

ReadSubtree(p) ==
    LET at == 2 + p[1][2] * Len(LinkWidths)
    IN  IF ~Has(p, 1, <<4>>) \/ ~Has(p, at, <<8>>) THEN None
        ELSE [links |-> ItemsAt(p, 2, p[1][2], LinkWidths, ReadLink),
              total |-> p[at][2],
              next |-> IF Has(p, at + 1, <<8>>) THEN p[at + 1][2] ELSE 0]

(* The chains of one frame, each with the count of its crumbs before it.   *)
ReadChains(p, count) ==
    FoldLeft(LAMBDA done, i :
               LET n == p[done.at][2] IN
               [chains |-> Append(done.chains, ItemsAt(p, done.at + 1, n, <<8, 66, 130>>, ValueOf)),
                at |-> done.at + 1 + 3 * n],
             [chains |-> <<>>, at |-> 1], [i \in 1..count |-> i]).chains

CountedAt(p, at) == ItemsAt(p, at + 1, p[at][2], CategoryWidths, ReadCategory)
AfterCounted(p, at) == at + 1 + p[at][2] * Len(CategoryWidths)

ReadBrowse(p) ==
    LET ancestors == 1 + Len(CategoryWidths)
        children == AfterCounted(p, ancestors)
    IN  [category |-> ReadCategory(p), ancestors |-> CountedAt(p, ancestors),
         children |-> CountedAt(p, children), total |-> p[AfterCounted(p, children)][2]]

(* Each hit is a row, the field that matched and, asked for, its site.     *)
ReadSearch(c, p) ==
    LET capped == c.capPerSite /\ (c.vector # None \/ c.mode = "ranked")
        first == AfterCounted(p, 1)
        k == Len(LinkWidths)
        hit(at) == [row |-> ReadLink(SubSeq(p, at, at + k - 1)), match |-> p[at + k][2],
                    site |-> IF capped THEN TextAt(p, at + k + 1) ELSE NoText,
                    more |-> IF capped THEN p[AfterText(p, at + k + 1)][2] ELSE 0]
        after(at) == IF capped THEN AfterText(p, at + k + 1) + 1 ELSE at + k + 1
        read == FoldLeft(LAMBDA done, i : [hits |-> Append(done.hits, hit(done.at)),
                                           at |-> after(done.at)],
                         [hits |-> <<>>, at |-> first + 1], [i \in 1..p[first][2] |-> i])
    IN  [categories |-> CountedAt(p, 1), hits |-> read.hits,
         vectorUsed |-> c.vector # None /\ p[read.at] = <<1, 1>>]

ReadNames(p) ==
    LET matches == ItemsAt(p, 3, p[2][2], <<8, 1>>,
                           LAMBDA f : [id |-> f[1][2], someone |-> f[2][2] = 1])
    IN  IF p[1][2] = 1 THEN matches ELSE None

ReadCountry(f) == IF f[1][2] = 0 THEN <<>> ELSE <<f[1][2], f[2][2]>>

ReadQuery(p) ==
    LET k == Len(LinkWidths)
        group(at) == <<TextAt(p, at)>> \o [i \in 1..3 |-> p[AfterText(p, at) + i - 1][2]]
        groups == FoldLeft(LAMBDA done, i : [all |-> Append(done.all, group(done.at)),
                                             at |-> AfterText(p, done.at) + 3],
                           [all |-> <<>>, at |-> 7], [i \in 1..p[6][2] |-> i])
        facts(at) == AfterText(p, at + k)
        hit(at) == [row |-> ReadLink(SubSeq(p, at, at + k - 1)), site |-> TextAt(p, at + k),
                    cctld |-> ReadCountry(SubSeq(p, facts(at), facts(at) + 1)),
                    category |-> ReadCountry(SubSeq(p, facts(at) + 2, facts(at) + 3)),
                    religions |-> Bits(p[facts(at) + 4][2]),
                    countries |-> ItemsAt(p, facts(at) + 6, p[facts(at) + 5][2], <<1, 1>>, ReadCountry)]
        hits == FoldLeft(LAMBDA done, i : [all |-> Append(done.all, hit(done.at)),
                                           at |-> facts(done.at) + 6 + 2 * p[facts(done.at) + 5][2]],
                         [all |-> <<>>, at |-> groups.at + 1], [i \in 1..p[groups.at][2] |-> i])
    IN  [ready |-> p[1][2] = 1, counts |-> [i \in 1..4 |-> p[i + 1][2]], groups |-> groups.all,
         hits |-> hits.all, next |-> p[hits.at][2]]

CodesAt(p) == ItemsAt(p, 3, p[1][2] + p[2][2], <<8, 1>>, LAMBDA f : <<f[1][2], f[2][2]>>)

(* parseBulkResponse(): the ids that failed, with the reason.              *)
ParseBulkResponse(p) ==
    [ok |-> p[1][2], errors |-> SelectSeq(CodesAt(p), LAMBDA item : item[2] # 0)]

Numbers(p, n) == ItemsAt(p, 1, n, <<8>>, ValueOf)

ReadRebuilt(p) == IF Has(p, 1, <<8, 4>>) THEN <<p[1][2], p[2][2]>> ELSE None

(* parseIndexHealth().                                                     *)
ParseIndexHealth(p) ==
    LET index(at) == <<p[at + 1][2]>> \o [i \in 1..3 |-> p[at + 1 + i][2]]
    IN  [last |-> p[1][2],
         indices |-> FoldLeft(LAMBDA done, i : [all |-> Append(done.all, index(done.at)),
                                                at |-> done.at + 5],
                              [all |-> <<>>, at |-> 3], [i \in 1..p[2][2] |-> i]).all]

Accepted(c, rep) ==
    LET p == rep.payload IN
    CASE c.op \in {"createCategory", "createLink", "createSubmission"} -> ReadCreated(p)
      [] c.op = "getLink" -> ReadRow(p, LinkWidths, ReadLink)
      [] c.op = "getCategory" -> ReadRow(p, CategoryWidths, ReadCategory)
      [] c.op \in {"listRootCategories", "listChildren"} ->
           ItemsAt(p, 1, rep.count, CategoryWidths, ReadCategory)
      [] c.op \in {"listLinks", "listMySubmissions", "listAllLinks"} -> ReadPage(p, rep.count)
      [] c.op = "listSubtreeLinks" -> ReadSubtree(p)
      [] c.op \in {"bulkUpdateLinkStatus", "bulkDeleteLinks"} -> ParseBulkResponse(p)
      [] c.op \in {"putLinkVectors", "putCategoryVectors", "putLinkEntities"} -> CodesAt(p)
      [] c.op = "search" -> ReadSearch(c, p)
      [] c.op = "matchNames" -> ReadNames(p)
      [] c.op = "browsePath" -> ReadBrowse(p)
      [] c.op = "queryLinks" -> ReadQuery(p)
      [] c.op = "stats" -> Numbers(p, 6)
      [] c.op = "countsByStatus" -> Numbers(p, 3)
      [] c.op = "rebuildIndex" -> ReadRebuilt(p)
      [] c.op \in {"indexHealth", "runVerifier"} -> ParseIndexHealth(p)
      [] OTHER -> <<>>

-----------------------------------------------------------------------------

(* assertOk(), and the end of a call that takes one frame.                 *)
Accept ==
    /\ stage = "answered"
    /\ reply.status # 0 \/ ~InSeveralFrames(call)
    /\ result' = IF reply.status # 0 THEN Thrown(reply.status, reply.sub)
                 ELSE Accepted(call, reply)
    /\ stage' = "done"
    /\ UNCHANGED <<call, settled, frame, request, answers, reply>>

NextFromChunk == settled + IdsMax    \* mutant: every chain of the chunk is taken as answered

(* The loops of getCategoriesByIds() and breadcrumbsByIds(): the next frame*)
(* begins behind the chunk, or behind the last chain that was answered.    *)
NextFrom ==
    IF call.op = "getCategoriesByIds" THEN settled + IdsMax ELSE settled + reply.count

AcceptChunk ==
    /\ stage = "answered"
    /\ reply.status = 0 /\ InSeveralFrames(call)
    /\ IF call.op = "breadcrumbsByIds" /\ reply.count = 0
       THEN result' = Thrown("reply buffer", 0) /\ stage' = "done" /\ UNCHANGED <<settled, frame>>
       ELSE /\ result' = result \o
                 (IF call.op = "getCategoriesByIds"
                  THEN ItemsAt(reply.payload, 1, reply.count, CategoryWidths, ReadCategory)
                  ELSE LET chains == ReadChains(reply.payload, reply.count) IN
                       [g \in 1..reply.count |-> <<call.ids[settled + g], chains[g]>>])
            /\ settled' = NextFrom
            /\ IF NextFrom < Len(call.ids)
               THEN stage' = "sent" /\ frame' = Payload(call, NextFrom)
               ELSE stage' = "done" /\ UNCHANGED frame
    /\ UNCHANGED <<call, request, answers, reply>>

Return ==
    /\ stage = "done"
    /\ call' = None /\ stage' = "idle" /\ settled' = 0
    /\ frame' = <<>> /\ request' = None /\ answers' = <<>> /\ reply' = None /\ result' = None

Next ==
    \/ \E c \in Call : Ask(c)
    \/ Read \/ Answer \/ Accept \/ AcceptChunk \/ Return

Spec == Init /\ [][Next]_vars

-----------------------------------------------------------------------------
(* Properties.                                                             *)

(* The arguments of a link query that no caller measures and the server    *)
(* does: a page sends as many words as were typed, any two letters for a   *)
(* country, a name however long.                                           *)
BeyondServer(c) ==
    \/ Length[Bare[c.domain]] > HostLenMax \/ Length[c.words] > QueryWordsMax
    \/ Length[c.entity] > NameLenMax \/ c.country \notin Assigned \cup {NoText}

(* What a caller means by its arguments, as the server should see it: an   *)
(* option left out is its default, a vector makes a search hybrid, a site  *)
(* cap is meant for ranked lists only, and one byte is no query.  Nobody   *)
(* means an index by the name given to rebuildIndex(): all are rebuilt.    *)
Meaning(c) ==
    CASE c.op \in ListOp -> [c EXCEPT !.after = IF @ = None THEN 0 ELSE @]
      [] InSeveralFrames(c) -> [c EXCEPT !.ids = Chunk(@, settled)]
      [] c.op = "putLinkVectors" ->
           [op |-> c.op, model |-> c.model,
            writes |-> [i \in 1..Len(c.ids) |-> <<c.ids[i], c.print, c.vector>>]]
      [] c.op = "putCategoryVectors" ->
           [op |-> c.op, model |-> c.model, writes |-> [i \in 1..Len(c.ids) |-> <<c.ids[i], c.vector>>]]
      [] c.op = "putLinkEntities" ->
           [op |-> c.op, writes |-> [i \in 1..Len(c.ids) |-> <<c.ids[i], c.print, c.facts>>]]
      [] c.op = "search" ->
           LET mode == IF c.vector # None THEN "hybrid"
                       ELSE IF c.mode = "ranked" THEN "ranked" ELSE "all_terms"
           IN  IF Length[c.query] < 2 THEN None
               ELSE [c EXCEPT !.mode = mode, !.capPerSite = @ /\ mode # "all_terms"]
      [] c.op = "queryLinks" -> IF BeyondServer(c) THEN None ELSE [c EXCEPT !.domain = Bare[@]]
      [] c.op = "rebuildIndex" -> [op |-> c.op]
      [] OTHER -> c

(* Whatever options a caller leaves out or combines, the server takes the  *)
(* frame for what the caller means: an option is told by its position and  *)
(* by the length of the frame, so that one written where another is        *)
(* expected would pass for it unnoticed.  It refuses a link query beyond   *)
(* its limits and no other request: what the callers measure themselves,   *)
(* names to match, lists of ids and facts, is never over a limit.          *)
RequestUnderstood == stage = "read" => request = Meaning(call)

Answered == FlattenSeq([k \in 1..Len(answers) |->
                          IF call.op = "getCategoriesByIds" THEN answers[k].rows
                          ELSE answers[k].chains])

(* What a call should come to, given the answers of the operations.        *)
Promise(c) ==
    LET a == answers[1] IN
    IF c.op = "getCategoriesByIds" THEN Answered
    ELSE IF c.op = "breadcrumbsByIds"
    THEN IF Len(Answered) # Len(c.ids) THEN None
         ELSE [i \in 1..Len(c.ids) |-> <<c.ids[i], Answered[i]>>]
    ELSE CASE "id" \in DOMAIN a -> a.id
           [] "row" \in DOMAIN a -> a.row
           [] c.op \in {"listRootCategories", "listChildren"} -> a.rows
           [] c.op = "listSubtreeLinks" -> [links |-> a.rows, total |-> a.total, next |-> a.next]
           [] c.op \in ListOp -> [links |-> a.rows, next |-> a.next]
           [] c.op \in {"bulkUpdateLinkStatus", "bulkDeleteLinks"} ->
                [ok |-> Cardinality({i \in DOMAIN a.codes : a.codes[i] = 0}),
                 errors |-> SelectSeq([i \in 1..Len(c.ids) |-> <<c.ids[i], a.codes[i]>>],
                                      LAMBDA item : item[2] # 0)]
           [] "codes" \in DOMAIN a -> [i \in 1..Len(c.ids) |-> <<c.ids[i], a.codes[i]>>]
           [] c.op = "search" ->
                LET capped == Meaning(c).capPerSite IN
                [a EXCEPT !.hits = [i \in DOMAIN @ |->
                   IF capped THEN @[i] ELSE [@[i] EXCEPT !.site = NoText, !.more = 0]]]
           [] c.op = "matchNames" -> IF a.ready THEN a.matches ELSE None
           [] c.op = "queryLinks" ->
                [ready |-> a.ready, counts |-> a.counts, groups |-> a.groups, next |-> a.next,
                 hits |-> [i \in DOMAIN a.hits |->
                            [row |-> a.hits[i].row, site |-> a.hits[i].site, cctld |-> <<>>,
                             category |-> <<103, 98>>, religions |-> a.religions,
                             countries |-> a.countries]]]
           [] "numbers" \in DOMAIN a -> a.numbers
           [] "ok" \in DOMAIN a -> <<>>
           [] OTHER -> a

Failed == \E k \in DOMAIN answers : "status" \in DOMAIN answers[k]
NoChain == answers # <<>> /\ call.op = "breadcrumbsByIds" /\ Last(answers).chains = <<>>

(* A method returns what the server answered, to the last of the ids it    *)
(* was given and in their order, in however many frames the answers came   *)
(* and however many chains fitted into each; it throws only when the       *)
(* server reported an error or not one chain fits.  Excepted is            *)
(* rebuildIndex(), whose second number is not what the server sends.       *)
ReplyUnderstood ==
    stage = "done" /\ call.op # "rebuildIndex" =>
      IF NothingToSend(call) THEN result = Nothing(call)
      ELSE IF Failed THEN result = Thrown(Last(answers).status, Last(answers).sub)
      ELSE IF NoChain THEN result = Thrown("reply buffer", 0)
      ELSE result = Promise(call)

=============================================================================
