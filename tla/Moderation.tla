----------------------------- MODULE Moderation -----------------------------
(***************************************************************************)
(* The pages on which the directory is moderated: editing, creating,       *)
(* moving and deleting links one by one and in bulk, the categories they   *)
(* lie in, and the vectors and facts that are computed from a link's text  *)
(* after every change (web/routes/admin, web/routes/submit/index.tsx,      *)
(* web/lib/link-enrichment.ts, embedder.ts, entities.ts).                  *)
(*                                                                         *)
(* A route is a chain of calls to the server.  Each call is atomic there   *)
(* and nothing is locked between two of them, so that requests interleave  *)
(* call by call.  A call may fail: then its handler stops, and the request *)
(* may still be carried out, then or later (RequestPromises).              *)
(***************************************************************************)
EXTENDS Integers, Sequences, FiniteSets, SequencesExt, FiniteSetsExt

CONSTANTS
    None,
    LinkId,       \* ids of links, issued in ascending order
    Category,     \* ids of categories
    Parent,       \* the category each is created in, 0 above a root
    Text,         \* what is embedded of a link: title and description
    Name,         \* names of categories
    Form,         \* what users may send: [kind, ids, text, status, cat, name]
    Slot,         \* requests in progress at the same time
    PageSize,     \* PAGE_SIZE
    Live,         \* the links there are to begin with: [LinkId -> record or None]
    MaxRequests, MaxFaults    \* bounds: requests begun, calls that fail

Status == {"pending", "approved", "rejected"}

LinkRecord == [cat : Category, text : Text, status : Status]

ASSUME ModerationAssumption ==
    /\ LinkId \subseteq Nat \ {0} /\ IsFiniteSet(LinkId)
    /\ Category \subseteq Nat \ {0}
    /\ Parent \in [Category -> Category \cup {0}]
    /\ PageSize \in Nat \ {0}
    /\ Live \in [LinkId -> LinkRecord \cup {None}]
    /\ \A f \in Form : f.kind \in {"edit", "inline"} => \E l \in LinkId : f.ids = <<l>>

VARIABLES
    link,             \* links_by_id: [cat, text, status]
    name,             \* categories by id, None where there is none
    vector, facts,    \* the text a link's vector and its facts were made of
    categoryVector,   \* the name a category's vector was made of
    issued,           \* the highest id of a link issued so far
    req,              \* the requests in progress
    made, faults,     \* requests begun, calls failed
    late,             \* writes given up by the caller that the server may still do
    touched,          \* links changed since the walk in progress began
    reported          \* links about which some request met an error

server == <<link, issued, name, vector, facts, categoryVector, touched>>
vars == <<server, req, made, faults, late, reported>>

(* A slot without a request.                                               *)
Free == [kind |-> "none", at |-> "free"]

Init ==
    /\ link = Live
    /\ name = [c \in Category |-> CHOOSE n \in Name : TRUE]
    /\ vector = [l \in LinkId |-> IF Live[l] = None THEN None ELSE Live[l].text]
    /\ facts = vector
    /\ categoryVector = name
    /\ issued = Max({0} \cup {l \in LinkId : Live[l] # None})
    /\ req = [r \in Slot |-> Free]
    /\ made = 0 /\ faults = 0 /\ late = {} /\ touched = {} /\ reported = {}

-----------------------------------------------------------------------------
(* The server's operations: when each is carried out, and its effect.      *)

IsLive(l) == link[l] # None
InCategory(c) == {l \in LinkId : IsLive(l) /\ link[l].cat = c}
NewId == issued + 1

AcceptsStale(w) ==    \* mutant: the fingerprint is not compared
    CASE w.op \in {"update", "status", "delete", "vector", "facts"} -> IsLive(w.id)
      [] w.op = "bulk_status" -> IsLive(w.id) /\ link[w.id].status # w.status
      [] w.op = "move" -> IsLive(w.id) /\ name[w.cat] # None
      [] w.op = "create" -> name[w.cat] # None /\ NewId \in LinkId
      [] w.op = "category_create" -> name[w.cat] = None
      [] OTHER -> name[w.cat] # None

Accepts(w) ==
    CASE w.op \in {"update", "status", "delete"} -> IsLive(w.id)
      [] w.op = "bulk_status" -> IsLive(w.id) /\ link[w.id].status # w.status
      [] w.op = "move" -> IsLive(w.id) /\ name[w.cat] # None
      [] w.op = "create" -> name[w.cat] # None /\ NewId \in LinkId
      [] w.op \in {"vector", "facts"} -> IsLive(w.id) /\ link[w.id].text = w.text
      [] w.op = "category_create" ->
           name[w.cat] = None /\ (Parent[w.cat] = 0 \/ name[Parent[w.cat]] # None)
      [] w.op \in {"category_update", "category_vector"} -> name[w.cat] # None
      [] w.op = "category_delete" ->
           name[w.cat] # None /\ \A c \in Category : Parent[c] = w.cat => name[c] = None

Walking == \E r \in Slot : req[r].kind = "walk"

(* A link whose text changes loses what was made of the old text.          *)
Put(l, record) ==
    /\ link' = [link EXCEPT ![l] = record]
    /\ LET kept(made_of) == IF /\ record # None /\ link[l] # None
                               /\ record.text = link[l].text THEN made_of ELSE None
       IN  /\ vector' = [vector EXCEPT ![l] = kept(@)]
           /\ facts' = [facts EXCEPT ![l] = kept(@)]
    /\ touched' = IF Walking THEN touched \cup {l} ELSE touched
    /\ UNCHANGED <<name, categoryVector>>

(* delete_category() deletes the links of the category with it.            *)
DeleteCategory(c) ==
    LET gone == InCategory(c)
        without(f) == [l \in LinkId |-> IF l \in gone THEN None ELSE f[l]]
    IN  /\ link' = without(link) /\ vector' = without(vector) /\ facts' = without(facts)
        /\ name' = [name EXCEPT ![c] = None]
        /\ categoryVector' = [categoryVector EXCEPT ![c] = None]
        /\ touched' = IF Walking THEN touched \cup gone ELSE touched

Perform(w) ==
    /\ Accepts(w)
    /\ issued' = IF w.op = "create" THEN NewId ELSE issued
    /\ CASE w.op = "update" -> Put(w.id, [link[w.id] EXCEPT !.text = w.text])
         [] w.op \in {"status", "bulk_status"} -> Put(w.id, [link[w.id] EXCEPT !.status = w.status])
         [] w.op = "move" -> Put(w.id, [link[w.id] EXCEPT !.cat = w.cat])
         [] w.op = "delete" -> Put(w.id, None)
         [] w.op = "create" -> Put(NewId, [cat |-> w.cat, text |-> w.text, status |-> w.status])
         [] w.op = "vector" ->
              vector' = [vector EXCEPT ![w.id] = w.text]
                /\ UNCHANGED <<link, name, facts, categoryVector, touched>>
         [] w.op = "facts" ->
              facts' = [facts EXCEPT ![w.id] = w.text]
                /\ UNCHANGED <<link, name, vector, categoryVector, touched>>
         [] w.op = "category_delete" -> DeleteCategory(w.cat)
         [] w.op = "category_vector" ->
              categoryVector' = [categoryVector EXCEPT ![w.cat] = w.name]
                /\ UNCHANGED <<link, name, vector, facts, touched>>
         [] OTHER ->
              name' = [name EXCEPT ![w.cat] = w.name]
                /\ UNCHANGED <<link, vector, facts, categoryVector, touched>>

-----------------------------------------------------------------------------
(* A call of a handler.  It goes on with `ok` when the server did what it  *)
(* asked, with `no` when it refused or the call failed.                    *)

Goes(r, q) == req' = [req EXCEPT ![r] = q]

Quietly == UNCHANGED <<server, made, faults, late, reported>>

Fails == faults < MaxFaults /\ faults' = faults + 1

(* An error met by a request is about the links it works on.               *)
Reports(q) == reported' = reported \cup ToSet(q.ids)

Writes(r, w, ok, no) ==
    \/ /\ Perform(w) /\ Goes(r, ok)
       /\ UNCHANGED <<made, faults, late, reported>>
    \/ /\ ~Accepts(w) /\ Goes(r, no) /\ Reports(no)
       /\ UNCHANGED <<server, made, faults, late>>
    \/ /\ Fails /\ late' \in {late, late \cup {w}}
       /\ Goes(r, no) /\ Reports(no)
       /\ UNCHANGED <<server, made>>

(* A read that fails changes nothing.                                      *)
ReadFails(r, no) ==
    /\ Fails /\ Goes(r, no) /\ Reports(no)
    /\ UNCHANGED <<server, made, late>>

(* The server gets to a write its caller no longer waits for.              *)
RunLate ==
    \E w \in late :
      /\ late' = late \ {w}
      /\ Perform(w) \/ (~Accepts(w) /\ UNCHANGED server)
      /\ reported' = IF w.op = "create" /\ Accepts(w) THEN reported \cup {NewId} ELSE reported
      /\ UNCHANGED <<req, made, faults>>

-----------------------------------------------------------------------------
(* Requests.  `at` says where the handler is.                              *)

At(r, kinds, at) == req[r].kind \in kinds /\ req[r].at = at

Done(q) == [q EXCEPT !.at = "done"]

OneLink == {"edit", "inline", "new", "submit"}
Bulk == {"bulk_status", "bulk_delete", "bulk_move", "bulk_delete_categories"}

FirstStep(f) ==
    CASE f.kind = "edit" -> "read"
      [] f.kind = "new" -> "lookup"
      [] f.kind \in Bulk -> "item"
      [] f.kind = "walk" -> "page"
      [] OTHER -> "write"

(* The two halves of enrichLink(), and the text each has read.             *)
Part == {"vector", "facts"}
Idle == [at |-> "done", text |-> None]

Begin(r, f) ==
    /\ req[r] = Free /\ made < MaxRequests
    /\ f.kind = "walk" => ~Walking
    /\ Goes(r, [kind |-> f.kind, ids |-> f.ids, text |-> f.text, status |-> f.status,
                cat |-> f.cat, name |-> f.name, at |-> FirstStep(f), old |-> None,
                part |-> [p \in Part |-> Idle], ok |-> {}, errors |-> {},
                after |-> 0, seen |-> <<>>, next |-> 0, direct |-> TRUE, failed |-> FALSE])
    /\ made' = made + 1
    /\ touched' = IF f.kind = "walk" THEN {} ELSE touched
    /\ UNCHANGED <<link, issued, name, vector, facts, categoryVector, faults, late, reported>>

(* The answer goes out.                                                    *)
Finish(r) ==
    /\ req[r].at = "done"
    /\ Goes(r, Free)
    /\ Quietly

-----------------------------------------------------------------------------
(* links/[id]/edit.tsx, POST "update".                                     *)

IsRoot(c) == Parent[c] = 0

(* What of the form is still to be written, in order; then the link is     *)
(* enriched.                                                               *)
AfterText(q) == IF q.status # q.old.status THEN "status"
                ELSE IF q.cat # q.old.cat THEN "move" ELSE "enrich"
AfterStatus(q) == IF q.cat # q.old.cat THEN "move" ELSE "enrich"

Enriching(q) ==
    [q EXCEPT !.at = "enrich", !.part = [p \in Part |-> [at |-> "get", text |-> None]]]
OnTo(q, at) == IF at = "enrich" THEN Enriching(q) ELSE [q EXCEPT !.at = at]

EditRead(r) ==
    LET q == req[r]
        l == q.ids[1]
    IN  /\ At(r, {"edit"}, "read")
        /\ \/ /\ ~IsLive(l) \/ q.status = None \/ q.cat = None
              /\ Goes(r, Done(q)) /\ Quietly
           \/ /\ IsLive(l) /\ q.status # None /\ q.cat # None
              /\ Goes(r, [q EXCEPT !.old = link[l],
                                   !.at = IF q.cat # link[l].cat THEN "lookup" ELSE "write"])
              /\ Quietly
           \/ ReadFails(r, Done(q))

(* The target of a move is looked up: an edit stops when that fails, a new *)
(* link is created all the same.                                           *)
Lookup(r) ==
    LET q == req[r]
        stop == name[q.cat] # None /\ IsRoot(q.cat)
    IN  /\ At(r, {"edit", "new"}, "lookup")
        /\ \/ /\ Goes(r, IF stop \/ (q.kind = "edit" /\ name[q.cat] = None) THEN Done(q)
                         ELSE [q EXCEPT !.at = "write"])
              /\ Quietly
           \/ ReadFails(r, IF q.kind = "edit" THEN Done(q) ELSE [q EXCEPT !.at = "write"])

WriteText(r) ==
    LET q == req[r] IN
    /\ At(r, {"edit", "inline"}, "write")
    /\ Writes(r, [op |-> "update", id |-> q.ids[1], text |-> q.text],
              OnTo(q, IF q.kind = "edit" THEN AfterText(q) ELSE "enrich"), Done(q))

WriteStatus(r) ==
    LET q == req[r] IN
    /\ At(r, {"edit"}, "status")
    /\ Writes(r, [op |-> "status", id |-> q.ids[1], status |-> q.status],
              OnTo(q, AfterStatus(q)), Done(q))

WriteMove(r) ==
    LET q == req[r] IN
    /\ At(r, {"edit"}, "move")
    /\ Writes(r, [op |-> "move", id |-> q.ids[1], cat |-> q.cat], Enriching(q), Done(q))

(* createLink() of new.tsx, createSubmission() of submit/index.tsx.  The   *)
(* server refuses a URL it has.                                            *)
Create(r) ==
    LET q == req[r] IN
    /\ At(r, {"new", "submit"}, "write")
    /\ \/ Writes(r, [op |-> "create", cat |-> q.cat, text |-> q.text,
                     status |-> IF q.kind = "new" THEN "approved" ELSE "pending"],
                 Enriching([q EXCEPT !.ids = <<NewId>>]), Done(q))
       \/ Goes(r, Done(q)) /\ Quietly

-----------------------------------------------------------------------------
(* enrichLink(): the vector and the facts at the same time, each from a    *)
(* link read for the purpose; a failure is logged and nothing more.        *)

PartDone(q, p) ==
    LET settled == [q EXCEPT !.part[p] = Idle] IN
    IF \A o \in Part : settled.part[o].at = "done" THEN Done(settled) ELSE settled

EnrichReadOld(r, p) ==    \* mutant: an edit uses the link it read to begin with
    LET q == req[r] IN
    /\ At(r, OneLink, "enrich") /\ q.part[p].at = "get"
    /\ Goes(r, IF IsLive(q.ids[1])
               THEN [q EXCEPT !.part[p] = [at |-> "put", text |-> IF q.old = None THEN link[q.ids[1]].text
                                                                ELSE q.old.text]]
               ELSE PartDone(q, p))
    /\ Quietly

EnrichRead(r, p) ==
    LET q == req[r]
        l == q.ids[1]
    IN  /\ At(r, OneLink, "enrich") /\ q.part[p].at = "get"
        /\ \/ /\ Goes(r, IF IsLive(l)
                         THEN [q EXCEPT !.part[p] = [at |-> "put", text |-> link[l].text]]
                         ELSE PartDone(q, p))
              /\ Quietly
           \/ ReadFails(r, PartDone(q, p))

(* A text that is out of date is refused, which the enrichment of the      *)
(* newer text makes up for.                                                *)
EnrichWrite(r, p) ==
    LET q == req[r]
        w == [op |-> p, id |-> q.ids[1], text |-> q.part[p].text]
    IN  /\ At(r, OneLink, "enrich") /\ q.part[p].at = "put"
        /\ \/ Perform(w) /\ Goes(r, PartDone(q, p)) /\ UNCHANGED <<made, faults, late, reported>>
           \/ ~Accepts(w) /\ Goes(r, PartDone(q, p)) /\ Quietly
           \/ /\ Fails /\ late' \in {late, late \cup {w}}
              /\ Goes(r, PartDone(q, p)) /\ Reports(q)
              /\ UNCHANGED <<server, made>>

-----------------------------------------------------------------------------
(* One call: approve, reject, delete of links.tsx and of the edit pages.   *)
One(r) ==
    LET q == req[r] IN
    /\ At(r, {"decide", "delete", "category_delete"}, "write")
    /\ Writes(r, CASE q.kind = "decide" -> [op |-> "status", id |-> q.ids[1], status |-> q.status]
                   [] q.kind = "delete" -> [op |-> "delete", id |-> q.ids[1]]
                   [] OTHER -> [op |-> "category_delete", cat |-> q.cat],
              Done(q), Done(q))

(* categories/new.tsx, categories/[id]/edit.tsx and categories.tsx; then   *)
(* storeCategoryVector() reads the names and writes the vector.            *)
CategoryWrite(r) ==
    LET q == req[r] IN
    /\ At(r, {"category_new", "category_edit"}, "write")
    /\ Writes(r, [op |-> IF q.kind = "category_new" THEN "category_create" ELSE "category_update",
                  cat |-> q.cat, name |-> q.name],
              [q EXCEPT !.at = "names"], Done(q))

CategoryRead(r) ==
    LET q == req[r] IN
    /\ At(r, {"category_new", "category_edit"}, "names")
    /\ \/ Goes(r, [q EXCEPT !.name = name[q.cat], !.at = "vector"]) /\ Quietly
       \/ ReadFails(r, Done(q))

CategoryVector(r) ==
    LET q == req[r] IN
    /\ At(r, {"category_new", "category_edit"}, "vector")
    /\ Writes(r, [op |-> "category_vector", cat |-> q.cat, name |-> q.name], Done(q), Done(q))

-----------------------------------------------------------------------------
(* The bulk routes.  bulk-status and bulk-delete are one call, whose items *)
(* the server locks for one by one; bulk-move and bulk-delete-categories   *)
(* call once per id and go on after an error.                              *)

Item(q) ==
    CASE q.kind = "bulk_status" -> [op |-> "bulk_status", id |-> Head(q.ids), status |-> q.status]
      [] q.kind = "bulk_delete" -> [op |-> "delete", id |-> Head(q.ids)]
      [] q.kind = "bulk_move" -> [op |-> "move", id |-> Head(q.ids), cat |-> q.cat]
      [] OTHER -> [op |-> "category_delete", cat |-> Head(q.ids)]

NextItem(q) == [q EXCEPT !.ids = Tail(@), !.at = IF Len(q.ids) = 1 THEN "reply" ELSE "item"]

Counted(q) == [NextItem(q) EXCEPT !.ok = @ \cup {Head(q.ids)}]
Errored(q) == [NextItem(q) EXCEPT !.errors = @ \cup {Head(q.ids)}]

BulkItem(r) ==
    LET q == req[r]
        w == Item(q)
    IN  /\ At(r, Bulk, "item")
        /\ \/ Perform(w) /\ Goes(r, Counted(q)) /\ UNCHANGED <<made, faults, late, reported>>
           \/ ~Accepts(w) /\ Goes(r, Errored(q)) /\ Quietly
           \/ /\ q.kind \in {"bulk_move", "bulk_delete_categories"}
              /\ Fails /\ late' \in {late, late \cup {w}}
              /\ Goes(r, Errored(q))
              /\ UNCHANGED <<server, made, reported>>

(* The answer: how many went well, and the ids that did not; of a call that*)
(* failed, nothing but that.                                               *)
BulkReply(r) ==
    LET q == req[r] IN
    /\ At(r, Bulk, "reply")
    /\ \/ Goes(r, Done(q)) /\ Quietly
       \/ /\ q.kind \in {"bulk_status", "bulk_delete"} /\ Fails
          /\ Goes(r, [Done(q) EXCEPT !.ok = None])
          /\ UNCHANGED <<server, made, late, reported>>

-----------------------------------------------------------------------------
(* links.tsx: a moderator reads the list page by page (loadLinks() and     *)
(* AdminPaginator).  A listing goes by id from the cursor on.              *)

Matches(q, l) == IsLive(l) /\ (q.status = None \/ link[l].status = q.status)

(* The i-th of a listing has i - 1 of the links before it.                 *)
Listed(ids, Before(_, _)) ==
    [i \in 1 .. Cardinality(ids) |->
        CHOOSE l \in ids : Cardinality({k \in ids : Before(k, l)}) = i - 1]

InOrder(ids) == Listed(ids, <)

PageOfNextRow(ids) ==    \* mutant: the cursor is the first row of the next page
    [rows |-> SubSeq(ids, 1, IF Len(ids) < PageSize THEN Len(ids) ELSE PageSize),
     next |-> IF Len(ids) > PageSize THEN ids[PageSize + 1] ELSE 0]

PageOf(ids) ==
    LET rows == SubSeq(ids, 1, IF Len(ids) < PageSize THEN Len(ids) ELSE PageSize)
    IN  [rows |-> rows, next |-> IF Len(ids) > PageSize THEN Last(rows) ELSE 0]

Direct(q) == {l \in LinkId : Matches(q, l) /\ (q.cat = 0 \/ link[l].cat = q.cat)}

ListFrom(q) == PageOf(InOrder({l \in Direct(q) : l > q.after}))

(* listSubtreeLinks(): by category, then by id; the cursor is the place of *)
(* a link that still matches, and is not found when it no longer does.     *)
Beneath(c) ==
    LET depth1 == {d \in Category : d = c \/ Parent[d] = c}
    IN  {d \in Category : d \in depth1 \/ Parent[d] \in depth1}

Subtree(q) ==
    LET order(k, l) == link[k].cat < link[l].cat \/ (link[k].cat = link[l].cat /\ k < l)
        all == Listed({l \in LinkId : Matches(q, l) /\ link[l].cat \in Beneath(q.cat)}, order)
    IN  IF q.after = 0 THEN PageOf(all)
        ELSE IF q.after \in ToSet(all)
        THEN PageOf(SubSeq(all, CHOOSE i \in 2..Len(all) + 1 : all[i - 1] = q.after, Len(all)))
        ELSE PageOf(<<>>)

Shown(q, shown) ==
    [q EXCEPT !.seen = @ \o shown.rows, !.next = shown.next,
              !.at = IF shown.next = 0 THEN "done" ELSE "shown"]

(* A load that fails is caught, here or by the page's handler, and the page*)
(* is an empty one without a next: to the moderator, the end of the list.  *)
Walk(r) ==
    LET q == req[r] IN
    \/ /\ At(r, {"walk"}, "page")
       /\ Goes(r, IF q.cat = 0 \/ ListFrom(q).rows # <<>> THEN Shown(q, ListFrom(q))
                  ELSE [q EXCEPT !.at = "subtree", !.direct = FALSE])
       /\ Quietly
    \/ /\ At(r, {"walk"}, "subtree")
       /\ Goes(r, Shown(q, Subtree(q)))
       /\ Quietly
    \/ /\ At(r, {"walk"}, "page") \/ At(r, {"walk"}, "subtree")
       /\ Fails /\ Goes(r, [q EXCEPT !.at = "done", !.failed = TRUE])
       /\ UNCHANGED <<server, made, late, reported>>
    \/ /\ At(r, {"walk"}, "shown")
       /\ Goes(r, [q EXCEPT !.after = q.next, !.at = "page"])
       /\ Quietly

-----------------------------------------------------------------------------

Step(r) ==
    \/ \E f \in Form : Begin(r, f)
    \/ EditRead(r) \/ Lookup(r) \/ WriteText(r) \/ WriteStatus(r) \/ WriteMove(r)
    \/ Create(r)
    \/ \E p \in Part : EnrichRead(r, p) \/ EnrichWrite(r, p)
    \/ One(r) \/ CategoryWrite(r) \/ CategoryRead(r) \/ CategoryVector(r)
    \/ BulkItem(r) \/ BulkReply(r)
    \/ Walk(r)
    \/ Finish(r)

Next == RunLate \/ \E r \in Slot : Step(r)

Spec == Init /\ [][Next]_vars

-----------------------------------------------------------------------------
(* Properties.                                                             *)

(* What was made of a link's text was made of the text it has: a vector or *)
(* facts that were on their way when the text changed do not take effect,  *)
(* however edits and enrichments of one link overlap.                      *)
FactsMatchText ==
    \A l \in LinkId :
      /\ vector[l] # None => IsLive(l) /\ vector[l] = link[l].text
      /\ facts[l] # None => IsLive(l) /\ facts[l] = link[l].text

(* A handler that has written the text of l and will still read it, or has *)
(* read it and will still write what it made of it.                        *)
WillEnrich(r, l, p) ==
    /\ req[r].kind \in OneLink /\ req[r].ids = <<l>>
    /\ \/ req[r].at \in {"status", "move"}
       \/ req[r].at = "enrich" /\ req[r].part[p].at = "get"
       \/ req[r].at = "enrich" /\ req[r].part[p] = [at |-> "put", text |-> link[l].text]

(* A link is never left without what is made of its text in silence: it    *)
(* has it, a handler is about to store it, or some request about the link  *)
(* met an error.  Two edits of a link overlap in every way; the one whose  *)
(* enrichment is refused as out of date relies on the other's.             *)
EveryTextIsEnriched ==
    \A l \in LinkId : IsLive(l) /\ l \notin reported =>
      /\ vector[l] = link[l].text \/ \E r \in Slot : WillEnrich(r, l, "vector")
      /\ facts[l] = link[l].text \/ \E r \in Slot : WillEnrich(r, l, "facts")

(* A moderator who reads a list to its end has seen every link that        *)
(* belonged to it all the while, however many were decided, moved, created *)
(* and deleted between two pages, and saw none twice unless the list went  *)
(* over to the subtree.  Where the load of a page failed, the list seemed  *)
(* to end there, and what was missed is all behind the last page shown.    *)
WalksMissNothing ==
    \A r \in Slot : At(r, {"walk"}, "done") =>
      LET q == req[r] IN
      /\ \A l \in Direct(q) \ touched :
           (q.failed => l <= q.after) => l \in ToSet(q.seen)
      /\ q.direct => IsInjective(q.seen)

=============================================================================
