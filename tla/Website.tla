------------------------------- MODULE Website -------------------------------
(***************************************************************************)
(* The site as a whole: the pages of SitePages and ReaderPages with their  *)
(* calls over the wire, the forms in the browser (SubmitForms), and the    *)
(* pages and programs that write what was read out of links (EntityFacts): *)
(* storeLinkEntities() of web/lib/entities.ts, the fills of                *)
(* web/scripts, a user's dashboard and the table of categories.            *)
(***************************************************************************)
EXTENDS ReaderPages, EntityFacts, SubmitForms

CONSTANTS
    LinkText,     \* bound: [title, description], sequences of tokens
    NerLabel,     \* bound: the labels of a token: [kind, inside]
    Between,      \* the tokens between a title and a description
    Root          \* CANONICAL_ROOT_ID

siteVars == <<pvars, formVars>>

WebsiteInit == PagesInit /\ FormsIdle

-----------------------------------------------------------------------------
(* A page begins.                                                          *)

(* storeLinkEntities().                                                    *)
StoreLinkEntities(id) == Visit([Starting("facts", "link") EXCEPT !.ask = [op |-> "getLink", id |-> id]])

(* routes/dashboard: what a user submitted, status by status, asked for at *)
(* the same time.                                                          *)
Dashboard == Visit(Starting("dashboard", "pending"))

(* The fills: page by page over all links, from one id to another.         *)
Fill(kind, after, stop) ==
    Visit([Starting(kind, "page") EXCEPT !.after = after, !.own = IF kind = "entities" THEN stop ELSE 0])

(* routes/admin/categories.tsx.                                            *)
CategoryDesk(parent, tokens) ==
    Visit(IF tokens # NoText /\ ~TooShort(tokens)
          THEN [Starting("desk", "found") EXCEPT
                  !.ask = [op |-> "search", query |-> tokens, limit |-> 50, scope |-> "categories",
                           mode |-> None, vector |-> None, capPerSite |-> FALSE]]
          ELSE [Starting("desk", "children") EXCEPT !.own = parent])

-----------------------------------------------------------------------------
(* Its calls.                                                              *)

(* page() of the fluent client, for the links of a submitter.              *)
FluentPage(status) ==
    [op : {"listMySubmissions"}, key : {7}, offset : {0}, limit : {100}, status : {status}, after : {None}]

NoFacts == [religions |-> {}, countries |-> <<>>, people |-> <<>>, orgs |-> <<>>]

SiteCalls(p) ==
    CASE p.kind = "facts" -> {p.ask}
      [] p.kind = "dashboard" -> FluentPage(p.at)
      [] p.at = "page" ->
           [op : {"listAllLinks"}, offset : {0}, limit : {IdsMax}, status : {None}, after : {p.after}]
      [] p.at = "paths" -> [op : {"breadcrumbsByIds"}, ids : {Distinct(p.rows)}]
      [] p.at = "write" /\ p.kind = "vectors" ->
           [op : {"putLinkVectors"}, model : {9}, ids : {p.tried}, print : {11}, vector : Vector]
      [] p.at = "write" /\ p.kind = "entities" ->
           [op : {"putLinkEntities"}, ids : {p.tried}, print : {11}, facts : {NoFacts}]
      [] p.at = "children" ->
           [op : {"listChildren"}, key : {IF p.own = 0 THEN Root ELSE p.own}, offset : {0}, limit : {100}]
      [] p.at = "parent" -> [op : {"getCategory"}, id : {p.own}]
      [] p.at = "trail" -> [op : {"breadcrumbsByIds"}, ids : {<<p.own>>}]
      [] OTHER -> MoreCalls(p)

Asks ==
    /\ page.at \notin {"idle", "shown"}
    /\ \E c \in SiteCalls(page) : Ask(c)
    /\ UNCHANGED page

-----------------------------------------------------------------------------
(* What becomes of a page.                                                 *)

(* A dashboard that misses one of its lists shows none; a fill ends; the   *)
(* table of categories goes on with what it has.                           *)
SiteAfterFailure(p) ==
    CASE p.kind = "dashboard" -> Shown([p EXCEPT !.tried = <<>>], "links")
      [] p.kind = "desk" -> IF p.at = "context" THEN AfterContext(p) ELSE [p EXCEPT !.at = "context"]
      [] p.kind \in {"facts", "vectors", "entities"} -> Shown(p, "unavailable")
      [] OTHER -> MoreAfterFailure(p)

AfterDashboard(p, links) ==
    LET q == [p EXCEPT !.tried = @ \o [k \in DOMAIN links |-> links[k].id]] IN
    CASE p.at = "pending" -> [q EXCEPT !.at = "approved"]
      [] p.at = "approved" -> [q EXCEPT !.at = "rejected"]
      [] OTHER -> Shown(q, "links")

(* A page of links to fill in, and the page behind it.                     *)
AfterFill(p, found) ==
    CASE p.at = "page" ->
           [p EXCEPT !.at = IF p.kind = "vectors" THEN "paths" ELSE "write", !.after = found.next,
                     !.tried = [k \in DOMAIN found.links |-> found.links[k].id],
                     !.rows = [k \in DOMAIN found.links |-> found.links[k].cat],
                     !.labels = <<>>, !.missing = {}]
      [] p.at = "paths" -> [p EXCEPT !.at = "write", !.labels = PathById(p, found), !.missing = Untold(p)]
      [] OTHER -> IF p.after = 0 \/ (p.own # 0 /\ p.after >= p.own) THEN Shown(p, "links")
                  ELSE [p EXCEPT !.at = "page"]

AfterDesk(p) ==
    CASE p.at = "children" -> [p EXCEPT !.at = IF p.own = 0 THEN "context" ELSE "parent"]
      [] p.at = "parent" -> [p EXCEPT !.at = "trail"]
      [] p.at \in {"found", "trail"} -> [p EXCEPT !.at = "context"]
      [] OTHER -> AfterContext(p)

SiteAfterAnswer(p, found) ==
    CASE p.kind = "dashboard" -> AfterDashboard(p, found.links)
      [] p.kind \in {"vectors", "entities"} -> AfterFill(p, found)
      [] p.kind = "desk" -> AfterDesk(p)
      [] p.kind = "facts" -> Shown(p, "links")
      [] OTHER -> MoreAfterAnswer(p, found)

FactsWanted == page.kind = "facts" /\ page.at = "link" /\ ~Threw

TakesUp ==
    /\ page.at \notin {"idle", "shown"} /\ stage = "done" /\ ~FactsWanted
    /\ page' = IF Threw THEN SiteAfterFailure(page) ELSE SiteAfterAnswer(page, result)
    /\ Return

(* A link has come: its facts are read out of its texts and stored.        *)
ReadsFacts ==
    /\ stage = "done" /\ FactsWanted
    /\ \E texts \in LinkText :
         LET text == texts.title \o Between \o texts.description IN
         \E labels \in [DOMAIN text -> NerLabel] :
           page' = [page EXCEPT !.at = "write",
                      !.ask = [op |-> "putLinkEntities", ids |-> <<page.ask.id>>, print |-> 11,
                               facts |-> ExtractEntities(text, labels)]]
    /\ Return

-----------------------------------------------------------------------------

VisitDesks ==
    \/ \E id \in Id : StoreLinkEntities(id)
    \/ Dashboard
    \/ \E kind \in {"vectors", "entities"}, after \in {0, 1}, stop \in {0, 2} : Fill(kind, after, stop)
    \/ \E parent \in Id \cup {0}, tokens \in Lookup \cup {NoText} : CategoryDesk(parent, tokens)

(* The forms share nothing with the pages the site builds.                 *)
WebsiteNext ==
    \/ /\ FormsIdle /\ UNCHANGED formVars
       /\ \/ VisitPages \/ VisitMore \/ VisitDesks
          \/ Asks \/ TakesUp \/ ReadsFacts \/ Leave \/ OtherCall
          \/ (Read \/ Answer \/ Accept \/ AcceptChunk) /\ UNCHANGED page
    \/ page = NoPage /\ stage = "idle" /\ FormsNext /\ UNCHANGED pvars

WebsiteSpec == WebsiteInit /\ [][WebsiteNext]_siteVars

-----------------------------------------------------------------------------
(* Properties.                                                             *)

(* Whatever the model labels in a text, the server takes the facts read    *)
(* out of it: each bound of a record of facts is written down twice, in    *)
(* tokens and letters where they are read and in bytes where they are      *)
(* stored, and a fact over a bound would lose all facts of its link.       *)
FactsAreAccepted ==
    stage = "read" /\ page.kind = "facts" /\ page.at = "write" =>
      request # None /\ \A k \in DOMAIN request.writes : AcceptsFacts(request.writes[k][3])

=============================================================================
