---------------------------- MODULE ReaderPages ----------------------------
(***************************************************************************)
(* The other pages and interfaces that put several answers of the          *)
(* directory together: the front page (web/routes/index.tsx), a link's     *)
(* page (web/routes/link), search, browsing, subtrees and statuses in the  *)
(* API (web/routes/api/v1), the lookups behind the forms                   *)
(* (web/routes/api/category-children.ts, web/routes/admin/api) and the     *)
(* overview and integrity pages of the administration.  They are chains of *)
(* calls like those of SitePages; what they differ in is the answers they  *)
(* can do without.                                                         *)
(***************************************************************************)
EXTENDS SitePages

CONSTANTS
    Lookup,        \* bound: what is typed where names are completed, and asked of the API
    Token,         \* bearer tokens: [signed, scopes, role], None where a claim is missing
    EntryLimit,    \* ENTRY_LIMIT
    AdjacentLimit  \* ADJACENT_LIMIT

MinQueryLength == 2

Api == {"find", "browse", "subtree", "status"}

-----------------------------------------------------------------------------
(* A page begins.                                                          *)

Visit(p) == page = NoPage /\ stage = "idle" /\ page' = p /\ UNCHANGED vars

Starting(kind, at) == [NoPage EXCEPT !.kind = kind, !.at = at]

TooShort(tokens) == Length[tokens] < MinQueryLength

(* api/v1/search.ts: only links have vectors to compare with.              *)
Find(tokens, scope) ==
    \E vector \in (IF scope = "categories" THEN {None} ELSE Vector \cup {None}) :
      Visit(IF TooShort(tokens) THEN Shown(Starting("find", "shown"), "bad request")
            ELSE [Starting("find", "found") EXCEPT
                    !.tokens = tokens,
                    !.ask = [op |-> "search", query |-> RankedQuery(tokens), limit |-> 20,
                             scope |-> scope, mode |-> "ranked", vector |-> vector,
                             capPerSite |-> TRUE]])

(* admin/api/category-search.ts and search.ts: plain searches.             *)
Suggest(tokens, kind) ==
    Visit(IF TooShort(tokens) THEN Shown(Starting(kind, "shown"), "links")
          ELSE [Starting(kind, "found") EXCEPT
                  !.tokens = tokens,
                  !.ask = [op |-> "search", query |-> tokens, limit |-> 20, scope |-> "both",
                           mode |-> None, vector |-> None, capPerSite |-> FALSE]])

(* api/v1/browse.ts.                                                       *)
Browse(path) ==
    Visit(IF path = NoText THEN Starting("browse", "roots")
          ELSE [Starting("browse", "path") EXCEPT !.path = path])

Home == Visit(Starting("home", "roots"))

(* link/[id].tsx.                                                          *)
VisitLink(id) ==
    Visit([Starting("link", "link") EXCEPT !.ask = [op |-> "getLink", id |-> id]])

(* api/v1/categories/[id]/links.ts.                                        *)
Subtree(id, after) ==
    Visit([Starting("subtree", "under") EXCEPT
             !.ask = [op |-> "listSubtreeLinks", key |-> id, offset |-> 0, limit |-> 20,
                      status |-> "approved", after |-> after]])

(* api/category-children.ts.                                               *)
Children(id) ==
    Visit([Starting("children", "entries") EXCEPT !.own = id])

(* verifyBearerToken(): the role a token gives, if it is one of this site  *)
(* and has the scope of the service.                                       *)
VerifyBearerToken(token) ==
    IF token # None /\ token.signed /\ "mcp" \in token.scopes THEN token.role ELSE None

(* api/v1/links/[id]/status.ts.                                            *)
PostStatus(token, id, status) ==
    Visit(IF VerifyBearerToken(token) = None THEN Shown(Starting("status", "shown"), "unauthorized")
          ELSE IF VerifyBearerToken(token) # "admin" THEN Shown(Starting("status", "shown"), "forbidden")
          ELSE IF status \notin {"approved", "rejected"}
          THEN Shown(Starting("status", "shown"), "bad request")
          ELSE [Starting("status", "change") EXCEPT
                  !.ask = [op |-> "updateLinkStatus", id |-> id, status |-> status]])

(* admin/integrity.tsx, admin/index.tsx, admin/api/counts.ts.              *)
Integrity(action) ==
    Visit(IF action = None THEN Starting("integrity", "context")
          ELSE [Starting("integrity", "change") EXCEPT !.ask = action])
Overview == Visit(Starting("overview", "context"))
Counts == Visit([Starting("counts", "change") EXCEPT !.ask = [op |-> "countsByStatus"]])

-----------------------------------------------------------------------------
(* Its calls.                                                              *)

MoreCalls(p) ==
    CASE p.at \in {"found", "link", "under", "change"} -> {p.ask}
      [] p.at = "roots" -> [op : {"listRootCategories"}, offset : {0}, limit : {EntryLimit}]
      [] p.at = "entries" -> [op : {"listChildren"}, key : {p.own}, offset : {0}, limit : {EntryLimit}]
      [] p.at = "recent" ->
           [op : {"listAllLinks"}, offset : {0}, limit : {6}, status : {None}, after : {None}]
      [] p.at = "peers" ->
           [op : {"listLinks"}, key : {p.rows[1]}, offset : {0}, limit : {AdjacentLimit + 1},
            status : {None}, after : {None}]
      [] p.at = "chains" -> [op : {"breadcrumbsByIds"}, ids : {SelectSeq(p.rows, LAMBDA id : id > 0)}]
      [] p.at \in {"stats", "context"} -> [op : {"stats"}]
      [] p.at = "reread" -> [op : {"getLink"}, id : {p.ask.id}]
      [] p.at = "health" -> [op : {"indexHealth"}]
      [] OTHER -> CallsOf(p)

-----------------------------------------------------------------------------
(* loadAdminContext() does not throw; it comes last behind an action.      *)
AfterContext(p) ==
    CASE p.kind = "overview" -> [p EXCEPT !.at = "stats"]
      [] p.kind = "integrity" /\ p.ask = None -> [p EXCEPT !.at = "health"]
      [] OTHER -> Shown(p, "links")
AfterHealth(p) == IF p.ask = None THEN Shown(p, "links") ELSE [p EXCEPT !.at = "context"]

NoNames(p) == [k \in DOMAIN p.rows |-> 0]

(* What becomes of a page when a call fails: the entries of a single root, *)
(* the names beside links, a link's neighbours and the numbers are left    *)
(* out; the API tells its caller, the front page and the forms show an     *)
(* empty list.                                                             *)
MoreAfterFailure(p) ==
    CASE p.kind = "home" /\ p.at = "entries" -> [p EXCEPT !.at = "recent"]
      [] p.kind = "browse" /\ p.at = "entries" -> Shown(p, "links")
      [] p.kind = "home" /\ p.at = "cousins" ->
           [p EXCEPT !.at = "stats", !.labels = NoNames(p), !.missing = ToSet(p.rows)]
      [] p.at = "stats" -> Shown(p, "links")
      [] p.at = "context" -> AfterContext(p)
      [] p.kind = "integrity" /\ p.at = "change" -> [p EXCEPT !.at = "health"]
      [] p.at = "health" -> AfterHealth(p)
      [] p.kind = "link" /\ p.at = "link" ->
           Shown(p, IF reply.status = NotFound THEN "not found" ELSE "unavailable")
      [] p.kind = "link" /\ p.at # "link" -> Shown([p EXCEPT !.rows = <<>>, !.labels = <<>>], "links")
      [] p.kind \in Api -> Shown(p, ErrorResponse)
      [] p.kind \in {"search", "category", "api"} -> AfterFailure(p)
      [] OTHER -> Shown([p EXCEPT !.rows = <<>>], "unavailable")

-----------------------------------------------------------------------------
(* What it makes of an answer.                                             *)

(* loadEntryCategories(): a single root is drilled one level, if it has    *)
(* anything below it.                                                      *)
AfterRoots(p, roots) ==
    LET on == IF p.kind = "home" THEN [p EXCEPT !.at = "recent"] ELSE Shown(p, "links") IN
    IF Len(roots) = 1 THEN [p EXCEPT !.at = "entries", !.own = roots[1].id] ELSE on

AfterEntries(p) == IF p.kind = "home" THEN [p EXCEPT !.at = "recent", !.own = 0] ELSE Shown(p, "links")

(* The categories found, and the links' categories; a form is told of the  *)
(* categories above those found.                                           *)
AfterFound(p, found) ==
    CASE p.kind = "find" ->
           [p EXCEPT !.at = "chains",
                     !.rows = [k \in DOMAIN found.categories |-> found.categories[k].id]
                                \o [k \in DOMAIN found.hits |-> found.hits[k].row.cat]]
      [] p.kind = "suggest" ->
           [p EXCEPT !.at = "chains",
                     !.rows = [k \in DOMAIN found.categories |-> found.categories[k].parent]]
      [] OTHER -> Shown(p, "links")

(* Of the neighbours fetched, all but the link itself.                     *)
Peers(p, links) ==
    UpTo(SelectSeq([k \in DOMAIN links |-> links[k].id], LAMBDA id : id # p.ask.id), AdjacentLimit)

MoreAfterAnswer(p, found) ==
    CASE p.at = "roots" -> AfterRoots(p, found)
      [] p.at = "entries" -> AfterEntries(p)
      [] p.at = "recent" ->
           [p EXCEPT !.own = 0, !.at = "cousins", !.rows = [k \in DOMAIN found.links |-> found.links[k].cat]]
      [] p.kind = "home" /\ p.at = "cousins" ->
           [p EXCEPT !.at = "stats", !.labels = NameById(p, found), !.missing = Untold(p)]
      [] p.at = "found" -> AfterFound(p, found)
      [] p.kind = "link" /\ p.at = "link" -> [p EXCEPT !.at = "chains", !.rows = <<found.cat>>]
      [] p.kind = "link" /\ p.at = "chains" ->
           [p EXCEPT !.at = "peers", !.labels = PathById(p, found), !.missing = Untold(p)]
      [] p.kind = "link" /\ p.at = "peers" -> Shown([p EXCEPT !.tried = Peers(p, found.links)], "links")
      [] p.at = "chains" /\ p.kind # "link" ->
           Shown([p EXCEPT !.labels = PathById(p, found), !.missing = Untold(p)], "links")
      [] p.kind = "status" /\ p.at = "change" -> [p EXCEPT !.at = "reread"]
      [] p.kind = "integrity" /\ p.at = "change" -> [p EXCEPT !.at = "health"]
      [] p.at = "health" -> AfterHealth(p)
      [] p.at = "context" -> AfterContext(p)
      [] p.kind \in {"search", "category", "api"} -> AfterAnswer(p, found)
      [] OTHER -> Shown(p, "links")

VisitMore ==
    \/ \E tokens \in Lookup, scope \in {"both", "categories"} : Find(tokens, scope)
    \/ \E tokens \in Lookup, kind \in {"suggest", "bar"} : Suggest(tokens, kind)
    \/ \E path \in Sample : Browse(path)
    \/ Home \/ Overview \/ Counts
    \/ \E id \in Id : VisitLink(id) \/ Children(id) \/ \E after \in Id \cup {0} : Subtree(id, after)
    \/ \E token \in Token, id \in Id, status \in ToSet(LinkStatus) : PostStatus(token, id, status)
    \/ \E name \in SomeText : Integrity([op |-> "rebuildIndex", name |-> name])
    \/ Integrity([op |-> "runVerifier"]) \/ Integrity(None)

(* The visits of SitePages.                                                *)
VisitPages ==
    \/ \E tokens \in Query, plain \in BOOLEAN, after \in {0, 3} : VisitSearch(tokens, plain, after)
    \/ \E path \in SomeText, offset \in Offset : VisitCategory(path, offset)
    \/ \E c \in ApiQuery : VisitApi(c.query, c.path)

=============================================================================
