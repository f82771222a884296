-------------------------- MODULE ModerationProofs --------------------------
(***************************************************************************)
(* Moderation for any number of links, requests and failures: what was     *)
(* made of a link's text is of the text it has, no text is left without it *)
(* in silence, and whoever reads a list page by page misses nothing.       *)
(*                                                                         *)
(* For the first two, each write of the server is looked at for what it    *)
(* does to one link: it gives it a text, takes it away, or leaves its text *)
(* and what was made of it (Stays).  For the third, for the links it       *)
(* touches: the pages of a walk go up, and every link up to where it has   *)
(* got that was on the list and that nobody touched has been seen          *)
(* (WalkOf).                                                               *)
(***************************************************************************)
EXTENDS Moderation, FiniteSetTheorems, SequenceTheorems, TLAPS

(* Functions, whatever their values.                                       *)
MapOn(S, f) == f = [x \in S |-> f[x]]

MapsKept ==
    /\ MapOn(LinkId, link) /\ MapOn(LinkId, vector) /\ MapOn(LinkId, facts)
    /\ \A l \in LinkId : link[l] # None => "text" \in DOMAIN link[l]

IsRequest(q) ==
    /\ {"kind", "ids", "at", "part"} \subseteq DOMAIN q
    /\ MapOn(Part, q.part)
    /\ q.kind \in {"edit", "inline"} => \E l \in LinkId : q.ids = <<l>>

RequestsKept ==
    /\ MapOn(Slot, req)
    /\ \A r \in Slot : req[r].kind # "none" => IsRequest(req[r])

(* A text that may still be written by a request nobody waits for has been *)
(* reported.                                                               *)
LateIsReported == \A w \in late : w.op = "update" => w.id \in reported

IInv == MapsKept /\ RequestsKept /\ LateIsReported /\ FactsMatchText /\ EveryTextIsEnriched

-----------------------------------------------------------------------------
(* The writes of the server.                                               *)

(* What is made of a link's text is there.                                 *)
MadeOf(p, l) == (IF p = "vector" THEN vector[l] ELSE facts[l]) = link[l].text

(* A step leaves the text of l, and what was made of it.                   *)
Stays(l) ==
    /\ IsLive(l)
    /\ link'[l].text = link[l].text
    /\ \A p \in Part : MadeOf(p, l) => MadeOf(p, l)'

(* A write that leaves l as it is.                                         *)
LEMMA Untouched ==
    ASSUME NEW l \in LinkId, IsLive(l)', link'[l] = link[l],
           vector'[l] = vector[l], facts'[l] = facts[l]
    PROVE  Stays(l)
BY DEF Stays, IsLive, MadeOf

(* Another status, another category: the text is the same.                 *)
LEMMA TextKept ==
    ASSUME NEW f, "text" \in DOMAIN f, NEW v
    PROVE  /\ [f EXCEPT !.status = v].text = f.text /\ "text" \in DOMAIN [f EXCEPT !.status = v]
           /\ [f EXCEPT !.cat = v].text = f.text /\ "text" \in DOMAIN [f EXCEPT !.cat = v]
           /\ [f EXCEPT !.text = v].text = v /\ "text" \in DOMAIN [f EXCEPT !.text = v]
OBVIOUS

(* Put() of a link: the others stay, and this one does if its text does.   *)
LEMMA PutKeeps ==
    ASSUME MapsKept, FactsMatchText, NEW i, NEW record, Put(i, record),
           i \in LinkId /\ record # None => "text" \in DOMAIN record
    PROVE  /\ MapsKept' /\ FactsMatchText'
           /\ \A l \in LinkId : IsLive(l)' /\ l # i => Stays(l)
           /\ i \in LinkId /\ record # None /\ link[i] # None /\ record.text = link[i].text => Stays(i)
           /\ i \in LinkId => link'[i] = record
<1> DEFINE kept(made_of) == IF /\ record # None /\ link[i] # None
                               /\ record.text = link[i].text THEN made_of ELSE None
<1>1. /\ link' = [link EXCEPT ![i] = record]
      /\ vector' = [vector EXCEPT ![i] = kept(@)]
      /\ facts' = [facts EXCEPT ![i] = kept(@)]
  BY DEF Put
<1>2. /\ link' = [l \in LinkId |-> IF l = i THEN record ELSE link[l]]
      /\ vector' = [l \in LinkId |-> IF l = i THEN kept(vector[l]) ELSE vector[l]]
      /\ facts' = [l \in LinkId |-> IF l = i THEN kept(facts[l]) ELSE facts[l]]
  BY <1>1 DEF MapsKept, MapOn
<1>3. MapsKept'
  BY <1>2 DEF MapsKept, MapOn
<1>4. FactsMatchText'
  BY <1>2 DEF FactsMatchText, IsLive
<1>5. \A l \in LinkId : IsLive(l)' /\ l # i => Stays(l)
  BY <1>2, Untouched
<1>6. i \in LinkId /\ record # None /\ link[i] # None /\ record.text = link[i].text => Stays(i)
  BY <1>2 DEF Stays, IsLive, MadeOf
<1> QED
  BY <1>2, <1>3, <1>4, <1>5, <1>6

(* delete_category(): what does not go stays.                              *)
LEMMA DeletesKeep ==
    ASSUME MapsKept, FactsMatchText, NEW c, DeleteCategory(c)
    PROVE  MapsKept' /\ FactsMatchText' /\ \A l \in LinkId : IsLive(l)' => Stays(l)
<1> DEFINE gone == InCategory(c)
<1>1. /\ link' = [l \in LinkId |-> IF l \in gone THEN None ELSE link[l]]
      /\ vector' = [l \in LinkId |-> IF l \in gone THEN None ELSE vector[l]]
      /\ facts' = [l \in LinkId |-> IF l \in gone THEN None ELSE facts[l]]
  BY DEF DeleteCategory
<1> HIDE DEF gone
<1>2. MapsKept'
  BY <1>1 DEF MapsKept, MapOn
<1>3. FactsMatchText'
  BY <1>1 DEF FactsMatchText, IsLive
<1>4. \A l \in LinkId : IsLive(l)' => Stays(l)
  BY <1>1, Untouched DEF IsLive
<1> QED
  BY <1>2, <1>3, <1>4

(* What is made of a link's text is stored for the text it was made of.    *)
LEMMA StoresKeep ==
    ASSUME MapsKept, FactsMatchText, NEW w, w.op \in Part, Perform(w)
    PROVE  /\ MapsKept' /\ FactsMatchText' /\ \A l \in LinkId : IsLive(l)' => Stays(l)
           /\ w.id \in LinkId => MadeOf(w.op, w.id)'
<1>1. IsLive(w.id) /\ link[w.id].text = w.text /\ link' = link
  BY DEF Perform, Accepts, Part
<1>2. \/ vector' = [vector EXCEPT ![w.id] = w.text] /\ facts' = facts /\ w.op = "vector"
      \/ facts' = [facts EXCEPT ![w.id] = w.text] /\ vector' = vector /\ w.op = "facts"
  BY DEF Perform, Part
<1>3. \/ /\ vector' = [l \in LinkId |-> IF l = w.id THEN w.text ELSE vector[l]]
         /\ facts' = facts /\ w.op = "vector"
      \/ /\ facts' = [l \in LinkId |-> IF l = w.id THEN w.text ELSE facts[l]]
         /\ vector' = vector /\ w.op = "facts"
  BY <1>2 DEF MapsKept, MapOn
<1>4. MapsKept' /\ FactsMatchText'
  BY <1>1, <1>3 DEF MapsKept, MapOn, FactsMatchText, IsLive
<1>5. \A l \in LinkId : IsLive(l)' => Stays(l)
  BY <1>1, <1>3 DEF Stays, IsLive, MadeOf, Part
<1>6. w.id \in LinkId => MadeOf(w.op, w.id)'
  BY <1>1, <1>3 DEF MadeOf
<1> QED
  BY <1>4, <1>5, <1>6

(* Any write: only a new text and a new link do not leave things as they   *)
(* are.                                                                    *)
LEMMA PerformKeeps ==
    ASSUME MapsKept, FactsMatchText, NEW w, Perform(w)
    PROVE  /\ MapsKept' /\ FactsMatchText'
           /\ \A l \in LinkId : IsLive(l)' =>
                \/ w.op = "update" /\ l = w.id
                \/ w.op = "create" /\ l = NewId
                \/ Stays(l)
<1>1. CASE w.op = "update"
  <2>1. Put(w.id, [link[w.id] EXCEPT !.text = w.text]) /\ IsLive(w.id)
    BY <1>1 DEF Perform, Accepts
  <2>2. w.id \in LinkId => "text" \in DOMAIN [link[w.id] EXCEPT !.text = w.text]
    BY <2>1, TextKept DEF MapsKept, IsLive
  <2> QED
    BY <1>1, <2>1, <2>2, PutKeeps
<1>2. CASE w.op \in {"status", "bulk_status", "move"}
  <2>1. PICK record : /\ Put(w.id, record)
                      /\ \/ record = [link[w.id] EXCEPT !.status = w.status]
                         \/ record = [link[w.id] EXCEPT !.cat = w.cat]
    BY <1>2 DEF Perform
  <2>2. IsLive(w.id)
    BY <1>2 DEF Perform, Accepts
  <2>3. w.id \in LinkId => record.text = link[w.id].text /\ "text" \in DOMAIN record
    BY <2>1, <2>2, TextKept DEF MapsKept, IsLive
  <2>4. MapsKept' /\ FactsMatchText' /\ \A l \in LinkId \ {w.id} : IsLive(l)' => Stays(l)
    BY <2>1, <2>3, PutKeeps
  <2>5. w.id \in LinkId /\ IsLive(w.id)' => Stays(w.id)
    BY <2>1, <2>2, <2>3, PutKeeps DEF IsLive
  <2> QED
    BY <2>4, <2>5
<1>3. CASE w.op = "delete"
  <2>1. Put(w.id, None)
    BY <1>3 DEF Perform
  <2>2. MapsKept' /\ FactsMatchText' /\ \A l \in LinkId \ {w.id} : IsLive(l)' => Stays(l)
    BY <2>1, PutKeeps
  <2>3. w.id \in LinkId => ~IsLive(w.id)'
    BY <2>1, PutKeeps DEF IsLive
  <2> QED
    BY <2>2, <2>3
<1>4. CASE w.op = "create"
  <2> DEFINE record == [cat |-> w.cat, text |-> w.text, status |-> w.status]
  <2>1. Put(NewId, record) /\ "text" \in DOMAIN record
    BY <1>4 DEF Perform
  <2> HIDE DEF record
  <2> QED
    BY <1>4, <2>1, PutKeeps
<1>5. CASE w.op \in Part
  BY <1>5, StoresKeep
<1>6. CASE w.op = "category_delete"
  BY <1>6, DeletesKeep DEF Perform
<1>7. CASE w.op \notin Part \cup {"update", "status", "bulk_status", "move", "delete", "create", "category_delete"}
  <2>1. UNCHANGED <<link, vector, facts>>
    BY <1>7 DEF Perform, Part
  <2> QED
    BY <2>1, Untouched DEF MapsKept, MapOn, FactsMatchText, IsLive
<1> QED
  BY <1>1, <1>2, <1>3, <1>4, <1>5, <1>6, <1>7

-----------------------------------------------------------------------------
(* The requests.                                                           *)

(* A step of request r that leaves nothing behind in silence: whatever is  *)
(* live and not reported will be enriched by r, or it stays, and r has     *)
(* made what it was about to make or still will.                           *)
LEMMA Covering ==
    ASSUME RequestsKept, EveryTextIsEnriched, NEW r \in Slot, reported \subseteq reported',
           \A s \in Slot \ {r} : req'[s] = req[s],
           \A l \in LinkId : IsLive(l)' /\ l \notin reported' =>
             \/ \A p \in Part : WillEnrich(r, l, p)'
             \/ Stays(l) /\ \A p \in Part : WillEnrich(r, l, p) => WillEnrich(r, l, p)' \/ MadeOf(p, l)'
    PROVE  EveryTextIsEnriched'
<1> SUFFICES ASSUME NEW l \in LinkId, IsLive(l)', l \notin reported'
             PROVE  \A p \in Part : MadeOf(p, l)' \/ \E s \in Slot : WillEnrich(s, l, p)'
  BY DEF EveryTextIsEnriched, MadeOf, Part, WillEnrich, IsLive
<1>1. CASE \A p \in Part : WillEnrich(r, l, p)'
  BY <1>1
<1>2. ASSUME Stays(l), NEW p \in Part,
             WillEnrich(r, l, p) => WillEnrich(r, l, p)' \/ MadeOf(p, l)'
      PROVE  MadeOf(p, l)' \/ \E s \in Slot : WillEnrich(s, l, p)'
  <2>1. MadeOf(p, l) \/ \E s \in Slot : WillEnrich(s, l, p)
    BY <1>2 DEF EveryTextIsEnriched, Stays, MadeOf, Part
  <2>2. \A s \in Slot \ {r} : WillEnrich(s, l, p) => WillEnrich(s, l, p)'
    BY <1>2 DEF WillEnrich, Stays
  <2> QED
    BY <1>2, <2>1, <2>2 DEF Stays
<1> QED
  BY <1>1, <1>2

(* A step of no request at all.                                            *)
LEMMA Keeping ==
    ASSUME EveryTextIsEnriched, reported \subseteq reported', UNCHANGED req,
           \A l \in LinkId : IsLive(l)' /\ l \notin reported' => Stays(l)
    PROVE  EveryTextIsEnriched'
<1> SUFFICES ASSUME NEW l \in LinkId, IsLive(l)', l \notin reported', NEW p \in Part
             PROVE  MadeOf(p, l)' \/ \E s \in Slot : WillEnrich(s, l, p)'
  BY DEF EveryTextIsEnriched, MadeOf, Part, WillEnrich, IsLive
<1>1. Stays(l)
  OBVIOUS
<1>2. MadeOf(p, l) \/ \E s \in Slot : WillEnrich(s, l, p)
  BY <1>1 DEF EveryTextIsEnriched, Stays, MadeOf, Part
<1>3. \A s \in Slot : WillEnrich(s, l, p) => WillEnrich(s, l, p)'
  BY <1>1 DEF WillEnrich, Stays
<1> QED
  BY <1>1, <1>2, <1>3 DEF Stays

(* The next state of a handler.                                            *)
LEMMA GoesOn ==
    ASSUME RequestsKept, NEW r \in Slot, NEW q, Goes(r, q), q.kind # "none" => IsRequest(q)
    PROVE  RequestsKept' /\ req'[r] = q /\ \A s \in Slot \ {r} : req'[s] = req[s]
<1>1. req' = [s \in Slot |-> IF s = r THEN q ELSE req[s]]
  BY DEF Goes, RequestsKept, MapOn
<1> QED
  BY <1>1 DEF RequestsKept, MapOn

(* Moving on within a handler.                                             *)
LEMMA MovesOn ==
    ASSUME NEW q, IsRequest(q), NEW at
    PROVE  /\ IsRequest([q EXCEPT !.at = at])
           /\ [q EXCEPT !.at = at].at = at /\ [q EXCEPT !.at = at].kind = q.kind
           /\ [q EXCEPT !.at = at].ids = q.ids /\ [q EXCEPT !.at = at].part = q.part
BY DEF IsRequest

(* The beginning of enrichLink().                                          *)
LEMMA StartsEnriching ==
    ASSUME NEW q, IsRequest(q)
    PROVE  /\ IsRequest(Enriching(q))
           /\ Enriching(q).at = "enrich" /\ Enriching(q).kind = q.kind /\ Enriching(q).ids = q.ids
           /\ \A p \in Part : Enriching(q).part[p].at = "get"
<1> DEFINE part == [p \in Part |-> [at |-> "get", text |-> None]]
<1>1. Enriching(q) = [q EXCEPT !.at = "enrich", !.part = part]
  BY DEF Enriching
<1>2. MapOn(Part, part) /\ \A p \in Part : part[p].at = "get"
  BY DEF MapOn
<1> HIDE DEF part
<1> QED
  BY <1>1, <1>2 DEF IsRequest

(* A handler that is done.                                                 *)
LEMMA IsDone ==
    ASSUME NEW q, IsRequest(q)
    PROVE  IsRequest(Done(q)) /\ Done(q).at = "done" /\ Done(q).ids = q.ids /\ Done(q).kind = q.kind
BY MovesOn DEF Done

(* A step of a handler that writes nothing.                                *)
LEMMA ReadStep ==
    ASSUME IInv, NEW r \in Slot, NEW q, Goes(r, q), q.kind # "none" => IsRequest(q),
           UNCHANGED <<link, vector, facts>>, reported \subseteq reported',
           \A w \in late' \ late : w.op # "update",
           \A l \in LinkId, p \in Part :
             WillEnrich(r, l, p) /\ IsLive(l)' /\ l \notin reported' =>
               WillEnrich(r, l, p)' \/ MadeOf(p, l)'
    PROVE  IInv'
<1> USE DEF IInv
<1>1. RequestsKept' /\ \A s \in Slot \ {r} : req'[s] = req[s]
  BY GoesOn
<1>2. MapsKept' /\ FactsMatchText' /\ LateIsReported'
  BY DEF MapsKept, MapOn, FactsMatchText, IsLive, LateIsReported
<1>3. \A l \in LinkId : IsLive(l)' => Stays(l)
  BY Untouched
<1>4. EveryTextIsEnriched'
  BY <1>1, <1>3, Covering
<1> QED
  BY <1>1, <1>2, <1>4

(* A write of a handler: of the links the handler is about, only those     *)
(* whose call went well are left to what it does next.                     *)
LEMMA WriteStep ==
    ASSUME IInv, NEW r \in Slot, NEW w, NEW ok, NEW no, Writes(r, w, ok, no),
           IsRequest(ok), IsRequest(no),
           w.op = "update" => w.id \in ToSet(no.ids),
           \A l \in LinkId, p \in Part : WillEnrich(r, l, p) => l \in ToSet(no.ids),
           \A l \in LinkId : req'[r] = ok /\ Perform(w) =>
             \/ /\ (w.op = "update" /\ l = w.id) \/ (w.op = "create" /\ l = NewId)
                /\ \A p \in Part : WillEnrich(r, l, p)'
             \/ /\ ~(w.op = "update" /\ l = w.id) /\ ~(w.op = "create" /\ l = NewId)
                /\ \A p \in Part :
                     WillEnrich(r, l, p) /\ Stays(l) => WillEnrich(r, l, p)' \/ MadeOf(p, l)'
    PROVE  IInv'
<1> USE DEF IInv
<1>1. CASE Perform(w) /\ Goes(r, ok) /\ UNCHANGED <<late, reported>>
  <2>1. RequestsKept' /\ req'[r] = ok /\ \A s \in Slot \ {r} : req'[s] = req[s]
    BY <1>1, GoesOn
  <2>2. /\ MapsKept' /\ FactsMatchText'
        /\ \A l \in LinkId : IsLive(l)' =>
             \/ w.op = "update" /\ l = w.id
             \/ w.op = "create" /\ l = NewId
             \/ Stays(l)
    BY <1>1, PerformKeeps
  <2>3. EveryTextIsEnriched'
    BY <1>1, <2>1, <2>2, Covering
  <2> QED
    BY <1>1, <2>1, <2>2, <2>3 DEF LateIsReported
<1>2. CASE /\ Goes(r, no) /\ Reports(no) /\ UNCHANGED server
           /\ late' \in {late, late \cup {w}}
  <2>1. RequestsKept' /\ req'[r] = no /\ \A s \in Slot \ {r} : req'[s] = req[s]
    BY <1>2, GoesOn
  <2>2. MapsKept' /\ FactsMatchText' /\ \A l \in LinkId : IsLive(l)' => Stays(l)
    BY <1>2, Untouched DEF server, MapsKept, MapOn, FactsMatchText, IsLive
  <2>3. reported' = reported \cup ToSet(no.ids)
    BY <1>2 DEF Reports
  <2>4. EveryTextIsEnriched'
    BY <2>1, <2>2, <2>3, Covering
  <2>5. LateIsReported'
    BY <1>2, <2>3 DEF LateIsReported
  <2> QED
    BY <2>1, <2>2, <2>4, <2>5
<1> QED
  BY <1>1, <1>2 DEF Writes

-----------------------------------------------------------------------------
(* The handlers, one by one.                                               *)

(* A handler that is at a place before its first write has promised        *)
(* nothing of any link.                                                    *)
LEMMA NothingPromised ==
    ASSUME NEW r, req[r].kind \notin OneLink \/ req[r].at \notin {"status", "move", "enrich"}
    PROVE  \A l \in LinkId, p \in Part : ~WillEnrich(r, l, p)
BY DEF WillEnrich

(* A request begins.                                                       *)
LEMMA BeginKeeps ==
    ASSUME IInv, NEW r \in Slot, NEW f \in Form, Begin(r, f)
    PROVE  IInv'
<1>1. PICK q : /\ Goes(r, q)
               /\ q = [kind |-> f.kind, ids |-> f.ids, text |-> f.text, status |-> f.status,
                       cat |-> f.cat, name |-> f.name, at |-> FirstStep(f), old |-> None,
                       part |-> [p \in Part |-> Idle], ok |-> {}, errors |-> {},
                       after |-> 0, seen |-> <<>>, next |-> 0, direct |-> TRUE, failed |-> FALSE]
  BY DEF Begin
<1>2. MapOn(Part, q.part)
  BY <1>1 DEF MapOn
<1>3. {"kind", "ids", "at", "part"} \subseteq DOMAIN q
  BY <1>1
<1>4. q.kind = f.kind /\ q.ids = f.ids
  BY <1>1
<1>5. IsRequest(q)
  BY <1>2, <1>3, <1>4, ModerationAssumption DEF IsRequest
<1>6. \A l \in LinkId, p \in Part : ~WillEnrich(r, l, p)
  BY NothingPromised DEF Begin, Free, OneLink
<1> QED
  BY <1>1, <1>5, <1>6, ReadStep DEF Begin

(* A request is over.                                                      *)
LEMMA FinishKeeps ==
    ASSUME IInv, NEW r \in Slot, Finish(r)
    PROVE  IInv'
<1>1. \A l \in LinkId, p \in Part : ~WillEnrich(r, l, p)
  BY NothingPromised DEF Finish
<1>2. Free.kind = "none"
  BY DEF Free
<1> QED
  BY <1>1, <1>2, ReadStep DEF Finish, Quietly, server

(* The link of an edit is read.                                            *)
LEMMA EditReadKeeps ==
    ASSUME IInv, NEW r \in Slot, EditRead(r)
    PROVE  IInv'
<1>1. PICK q : q = req[r]
  OBVIOUS
<1>2. IsRequest(q) /\ \A l \in LinkId, p \in Part : ~WillEnrich(r, l, p)
  BY <1>1, NothingPromised DEF EditRead, At, IInv, RequestsKept
<1>3. \A old, at : IsRequest([q EXCEPT !.old = old, !.at = at])
  BY <1>2 DEF IsRequest
<1>4. IsRequest(Done(q))
  BY <1>2, IsDone
<1>5. PICK n : Goes(r, n) /\ IsRequest(n)
  BY <1>1, <1>3, <1>4 DEF EditRead, ReadFails
<1> QED
  BY <1>2, <1>5, ReadStep DEF EditRead, ReadFails, Quietly, Reports, server

(* The target of a link is looked up.                                      *)
LEMMA LookupKeeps ==
    ASSUME IInv, NEW r \in Slot, Lookup(r)
    PROVE  IInv'
<1>1. PICK q : q = req[r]
  OBVIOUS
<1>2. IsRequest(q) /\ \A l \in LinkId, p \in Part : ~WillEnrich(r, l, p)
  BY <1>1, NothingPromised DEF Lookup, At, IInv, RequestsKept
<1>3. IsRequest(Done(q)) /\ IsRequest([q EXCEPT !.at = "write"])
  BY <1>2, IsDone, MovesOn
<1>4. PICK n : Goes(r, n) /\ IsRequest(n)
  BY <1>1, <1>3 DEF Lookup, ReadFails
<1> QED
  BY <1>2, <1>4, ReadStep DEF Lookup, ReadFails, Quietly, Reports, server

(* A new text is enriched by the handler that wrote it.                    *)
LEMMA WriteTextKeeps ==
    ASSUME IInv, NEW r \in Slot, WriteText(r)
    PROVE  IInv'
<1>1. PICK q : q = req[r]
  OBVIOUS
<1>2. /\ IsRequest(q) /\ q.kind \in {"edit", "inline"}
      /\ \A l \in LinkId, p \in Part : ~WillEnrich(r, l, p)
  BY <1>1, NothingPromised DEF WriteText, At, IInv, RequestsKept
<1>3. PICK i \in LinkId : q.ids = <<i>>
  BY <1>2 DEF IsRequest
<1> DEFINE w == [op |-> "update", id |-> q.ids[1], text |-> q.text]
           ok == OnTo(q, IF q.kind = "edit" THEN AfterText(q) ELSE "enrich")
<1>4. Writes(r, w, ok, Done(q))
  BY <1>1 DEF WriteText
<1>5. w.op = "update" /\ w.id = i
  BY <1>3
<1>6. /\ IsRequest(ok) /\ ok.kind = q.kind /\ ok.ids = <<i>>
      /\ \/ ok.at \in {"status", "move"}
         \/ ok.at = "enrich" /\ \A p \in Part : ok.part[p].at = "get"
  BY <1>2, <1>3, MovesOn, StartsEnriching DEF OnTo, AfterText
<1>7. IsRequest(Done(q)) /\ Done(q).ids = <<i>>
  BY <1>2, <1>3, IsDone
<1>8. i \in ToSet(Done(q).ids)
  BY <1>7 DEF ToSet
<1> HIDE DEF w, ok
<1>9. req'[r] = ok => \A p \in Part : WillEnrich(r, i, p)'
  BY <1>2, <1>6 DEF WillEnrich, OneLink
<1> QED
  BY <1>2, <1>4, <1>5, <1>6, <1>7, <1>8, <1>9, WriteStep

(* The other writes of an edit leave the text, and enrich it afterwards.   *)
LEMMA EditWriteKeeps ==
    ASSUME IInv, NEW r \in Slot, WriteStatus(r) \/ WriteMove(r)
    PROVE  IInv'
<1>1. PICK q : q = req[r]
  OBVIOUS
<1>2. IsRequest(q) /\ q.kind = "edit" /\ q.at \in {"status", "move"}
  BY <1>1 DEF WriteStatus, WriteMove, At, IInv, RequestsKept
<1>3. PICK i \in LinkId : q.ids = <<i>>
  BY <1>2 DEF IsRequest
<1>4. PICK w, ok : /\ Writes(r, w, ok, Done(q)) /\ w.op \in {"status", "move"}
                   /\ ok \in {OnTo(q, AfterStatus(q)), Enriching(q)}
  <2>1. CASE WriteStatus(r)
    <3> DEFINE w == [op |-> "status", id |-> q.ids[1], status |-> q.status]
    <3>1. Writes(r, w, OnTo(q, AfterStatus(q)), Done(q)) /\ w.op = "status"
      BY <1>1, <2>1 DEF WriteStatus
    <3> QED
      BY <3>1
  <2>2. CASE WriteMove(r)
    <3> DEFINE w == [op |-> "move", id |-> q.ids[1], cat |-> q.cat]
    <3>1. Writes(r, w, Enriching(q), Done(q)) /\ w.op = "move"
      BY <1>1, <2>2 DEF WriteMove
    <3> QED
      BY <3>1
  <2> QED
    BY <2>1, <2>2
<1>5. /\ IsRequest(ok) /\ ok.kind = "edit" /\ ok.ids = <<i>>
      /\ \/ ok.at = "move"
         \/ ok.at = "enrich" /\ \A p \in Part : ok.part[p].at = "get"
  <2>1. ok = Enriching(q) \/ ok = [q EXCEPT !.at = "move"]
    BY <1>4 DEF OnTo, AfterStatus
  <2>2. CASE ok = Enriching(q)
    BY <1>2, <1>3, <2>2, StartsEnriching
  <2>3. CASE ok = [q EXCEPT !.at = "move"]
    BY <1>2, <1>3, <2>3, MovesOn
  <2> QED
    BY <2>1, <2>2, <2>3
<1>6. IsRequest(Done(q)) /\ Done(q).ids = <<i>>
  BY <1>2, <1>3, IsDone
<1>7. i \in ToSet(Done(q).ids)
  BY <1>6 DEF ToSet
<1>8. \A l \in LinkId, p \in Part : WillEnrich(r, l, p) => l = i
  BY <1>1, <1>3 DEF WillEnrich
<1>9. req'[r] = ok => \A p \in Part : WillEnrich(r, i, p)'
  BY <1>5 DEF WillEnrich, OneLink
<1> QED
  BY <1>4, <1>5, <1>6, <1>7, <1>8, <1>9, WriteStep

(* A new link is enriched by the handler that created it.                  *)
LEMMA CreateKeeps ==
    ASSUME IInv, NEW r \in Slot, Create(r)
    PROVE  IInv'
<1>1. PICK q, i : q = req[r] /\ i = NewId
  OBVIOUS
<1>2. /\ IsRequest(q) /\ q.kind \in {"new", "submit"}
      /\ \A l \in LinkId, p \in Part : ~WillEnrich(r, l, p)
  BY <1>1, NothingPromised DEF Create, At, IInv, RequestsKept
<1> DEFINE w == [op |-> "create", cat |-> q.cat, text |-> q.text,
                 status |-> IF q.kind = "new" THEN "approved" ELSE "pending"]
           born == [q EXCEPT !.ids = <<i>>]
           ok == Enriching(born)
<1>3. IsRequest(born) /\ born.ids = <<i>> /\ born.kind = q.kind
  BY <1>2 DEF IsRequest
<1>4. w.op = "create"
  OBVIOUS
<1>5. IsRequest(Done(q))
  BY <1>2, IsDone
<1>6. CASE Goes(r, Done(q)) /\ Quietly
  BY <1>2, <1>5, <1>6, ReadStep DEF Quietly, server
<1>7. CASE Writes(r, w, ok, Done(q))
  <2> HIDE DEF w, born
  <2>1. /\ IsRequest(ok) /\ ok.kind = q.kind /\ ok.ids = <<i>> /\ ok.at = "enrich"
        /\ \A p \in Part : ok.part[p].at = "get"
    BY <1>3, StartsEnriching
  <2> HIDE DEF ok
  <2>2. req'[r] = ok => \A p \in Part : WillEnrich(r, i, p)'
    BY <1>2, <2>1 DEF WillEnrich, OneLink
  <2> QED
    BY <1>1, <1>2, <1>4, <1>5, <1>7, <2>1, <2>2, WriteStep
<1> QED
  BY <1>1, <1>6, <1>7 DEF Create

-----------------------------------------------------------------------------
(* Enrichment.                                                             *)

(* One half of it is over: the other goes on.                              *)
LEMMA HalfIsDone ==
    ASSUME NEW q, IsRequest(q), NEW p \in Part
    PROVE  /\ IsRequest(PartDone(q, p)) /\ PartDone(q, p).ids = q.ids /\ PartDone(q, p).kind = q.kind
           /\ \A o \in Part \ {p} : q.part[o].at # "done" =>
                PartDone(q, p).at = q.at /\ PartDone(q, p).part[o] = q.part[o]
<1> DEFINE settled == [q EXCEPT !.part[p] = Idle]
<1>1. PartDone(q, p) = IF \A o \in Part : settled.part[o].at = "done" THEN Done(settled) ELSE settled
  BY DEF PartDone
<1>2. /\ IsRequest(settled) /\ settled.ids = q.ids /\ settled.kind = q.kind /\ settled.at = q.at
      /\ \A o \in Part \ {p} : settled.part[o] = q.part[o]
  BY DEF IsRequest, MapOn
<1> HIDE DEF settled
<1> QED
  BY <1>1, <1>2, IsDone

(* A link that is about to be enriched is read.                            *)
LEMMA EnrichReadKeeps ==
    ASSUME IInv, NEW r \in Slot, NEW p \in Part, EnrichRead(r, p)
    PROVE  IInv'
<1>1. PICK q : q = req[r]
  OBVIOUS
<1>2. IsRequest(q) /\ q.kind \in OneLink /\ q.at = "enrich" /\ q.part[p].at = "get"
  BY <1>1 DEF EnrichRead, At, IInv, RequestsKept, OneLink
<1>3. /\ IsRequest(PartDone(q, p)) /\ PartDone(q, p).ids = q.ids /\ PartDone(q, p).kind = q.kind
      /\ \A o \in Part \ {p} : q.part[o].at # "done" =>
           PartDone(q, p).at = q.at /\ PartDone(q, p).part[o] = q.part[o]
  BY <1>2, HalfIsDone
<1>4. UNCHANGED <<link, vector, facts, late>> /\ reported \subseteq reported'
  BY DEF EnrichRead, Quietly, ReadFails, Reports, server
<1>5. \A l \in LinkId, o \in Part : WillEnrich(r, l, o) => q.ids = <<l>> /\ q.part[o].at # "done"
  BY <1>1, <1>2 DEF WillEnrich
<1>6. CASE IsLive(q.ids[1]) /\ Goes(r, [q EXCEPT !.part[p] = [at |-> "put", text |-> link[q.ids[1]].text]])
  <2>1. PICK read : read = [at |-> "put", text |-> link[q.ids[1]].text]
    OBVIOUS
  <2>2. PICK n : n = [q EXCEPT !.part[p] = read]
    OBVIOUS
  <2>3. /\ IsRequest(n) /\ n.ids = q.ids /\ n.kind = q.kind /\ n.at = q.at
        /\ n.part[p] = read /\ \A o \in Part \ {p} : n.part[o] = q.part[o]
    BY <1>2, <2>2 DEF IsRequest, MapOn
  <2>4. Goes(r, n) /\ req'[r] = n
    BY <1>6, <2>1, <2>2, <2>3, GoesOn DEF IInv
  <2>5. \A l \in LinkId, o \in Part : WillEnrich(r, l, o) => WillEnrich(r, l, o)'
    BY <1>1, <1>2, <1>4, <1>5, <2>1, <2>3, <2>4 DEF WillEnrich
  <2> QED
    BY <1>4, <2>3, <2>4, <2>5, ReadStep
<1>7. CASE ~IsLive(q.ids[1]) /\ Goes(r, PartDone(q, p)) /\ Quietly
  <2>1. \A l \in LinkId, o \in Part : WillEnrich(r, l, o) => ~IsLive(l)'
    BY <1>5, <1>7 DEF IsLive, Quietly, server
  <2> QED
    BY <1>3, <1>4, <1>7, <2>1, ReadStep
<1>8. CASE ReadFails(r, PartDone(q, p))
  <2>1. reported' = reported \cup ToSet(q.ids) /\ Goes(r, PartDone(q, p))
    BY <1>3, <1>8 DEF ReadFails, Reports
  <2>2. \A l \in LinkId, o \in Part : WillEnrich(r, l, o) => l \in reported'
    BY <1>5, <2>1 DEF ToSet
  <2> QED
    BY <1>3, <1>4, <2>1, <2>2, ReadStep
<1> QED
  BY <1>1, <1>6, <1>7, <1>8 DEF EnrichRead

(* What was made of the text is stored, refused or lost on the way: it is  *)
(* refused only if the text is another one by now.                         *)
LEMMA EnrichWriteKeeps ==
    ASSUME IInv, NEW r \in Slot, NEW p \in Part, EnrichWrite(r, p)
    PROVE  IInv'
<1>1. PICK q : q = req[r]
  OBVIOUS
<1>2. IsRequest(q) /\ q.kind \in OneLink /\ q.at = "enrich" /\ q.part[p].at = "put"
  BY <1>1 DEF EnrichWrite, At, IInv, RequestsKept, OneLink
<1> DEFINE w == [op |-> p, id |-> q.ids[1], text |-> q.part[p].text]
           ok == PartDone(q, p)
<1>3. /\ IsRequest(ok) /\ ok.ids = q.ids /\ ok.kind = q.kind
      /\ \A o \in Part \ {p} : q.part[o].at # "done" => ok.at = q.at /\ ok.part[o] = q.part[o]
  BY <1>2, HalfIsDone
<1>4. w.op = p /\ w.id = q.ids[1] /\ w.text = q.part[p].text
  OBVIOUS
<1> HIDE DEF w, ok
<1>5. \A l \in LinkId, o \in Part : WillEnrich(r, l, o) => q.ids = <<l>> /\ l = w.id /\ q.part[o].at # "done"
  BY <1>1, <1>2, <1>4 DEF WillEnrich
<1>6. Goes(r, ok) /\ req'[r] = ok
  BY <1>1, <1>3, GoesOn DEF EnrichWrite, IInv, w, ok
<1>7. \A l \in LinkId, o \in Part \ {p} :
        WillEnrich(r, l, o) /\ link'[l].text = link[l].text => WillEnrich(r, l, o)'
  BY <1>1, <1>2, <1>3, <1>5, <1>6 DEF WillEnrich
<1>8. CASE Writes(r, w, ok, ok)
  <2>1. \A l \in LinkId, o \in Part : WillEnrich(r, l, o) => l \in ToSet(ok.ids)
    BY <1>3, <1>5 DEF ToSet
  <2>2. Perform(w) => \A l \in LinkId : l = w.id => MadeOf(p, l)'
    BY <1>4, StoresKeep DEF IInv
  <2>3. \A l \in LinkId, o \in Part : Perform(w) /\ WillEnrich(r, l, o) /\ Stays(l) =>
          WillEnrich(r, l, o)' \/ MadeOf(o, l)'
    BY <1>5, <1>7, <2>2 DEF Stays
  <2>4. w.op # "update" /\ w.op # "create"
    BY <1>4 DEF Part
  <2> QED
    BY <1>3, <1>8, <2>1, <2>3, <2>4, WriteStep
<1>9. CASE ~Accepts(w) /\ Quietly
  <2>1. UNCHANGED <<link, vector, facts, late, reported>>
    BY <1>9 DEF Quietly, server
  <2>2. \A l \in LinkId : WillEnrich(r, l, p) => ~IsLive(l)
    <3>1. \A l \in LinkId : WillEnrich(r, l, p) => w.id = l /\ w.text = link[l].text
      BY <1>1, <1>2, <1>4, <1>5 DEF WillEnrich
    <3>2. ~(IsLive(w.id) /\ link[w.id].text = w.text)
      BY <1>4, <1>9 DEF Accepts, Part
    <3> QED
      BY <3>1, <3>2
  <2>3. \A l \in LinkId, o \in Part : WillEnrich(r, l, o) /\ IsLive(l)' => WillEnrich(r, l, o)'
    BY <1>7, <2>1, <2>2 DEF IsLive
  <2> QED
    BY <1>3, <1>6, <2>1, <2>3, ReadStep
<1> QED
  BY <1>1, <1>3, <1>8, <1>9 DEF EnrichWrite, Writes, Reports, w, ok

-----------------------------------------------------------------------------
(* The handlers that enrich nothing.                                       *)

(* One decision, and what is written of a category.                        *)
LEMMA OneKeeps ==
    ASSUME IInv, NEW r \in Slot, One(r) \/ CategoryWrite(r) \/ CategoryVector(r)
    PROVE  IInv'
<1>1. PICK q : q = req[r]
  OBVIOUS
<1>2. IsRequest(q) /\ \A l \in LinkId, p \in Part : ~WillEnrich(r, l, p)
  BY <1>1, NothingPromised DEF One, CategoryWrite, CategoryVector, At, IInv, RequestsKept, OneLink
<1>3. IsRequest(Done(q)) /\ IsRequest([q EXCEPT !.at = "names"])
  BY <1>2, IsDone, MovesOn
<1>4. PICK w, ok : Writes(r, w, ok, Done(q)) /\ w.op \notin {"update", "create"} /\ IsRequest(ok)
  <2>1. CASE One(r)
    <3> DEFINE w == CASE q.kind = "decide" -> [op |-> "status", id |-> q.ids[1], status |-> q.status]
                      [] q.kind = "delete" -> [op |-> "delete", id |-> q.ids[1]]
                      [] OTHER -> [op |-> "category_delete", cat |-> q.cat]
    <3>1. Writes(r, w, Done(q), Done(q))
      BY <1>1, <2>1 DEF One
    <3>2. w.op \in {"status", "delete", "category_delete"}
      OBVIOUS
    <3> HIDE DEF w
    <3> QED
      BY <1>3, <3>1, <3>2
  <2>2. CASE CategoryWrite(r)
    <3> DEFINE w == [op |-> IF q.kind = "category_new" THEN "category_create" ELSE "category_update",
                     cat |-> q.cat, name |-> q.name]
    <3>1. Writes(r, w, [q EXCEPT !.at = "names"], Done(q))
      BY <1>1, <2>2 DEF CategoryWrite
    <3>2. w.op \in {"category_create", "category_update"}
      OBVIOUS
    <3> HIDE DEF w
    <3> QED
      BY <1>3, <3>1, <3>2
  <2>3. CASE CategoryVector(r)
    <3> DEFINE w == [op |-> "category_vector", cat |-> q.cat, name |-> q.name]
    <3>1. Writes(r, w, Done(q), Done(q)) /\ w.op = "category_vector"
      BY <1>1, <2>3 DEF CategoryVector
    <3> HIDE DEF w
    <3> QED
      BY <1>3, <3>1
  <2> QED
    BY <2>1, <2>2, <2>3
<1> QED
  BY <1>2, <1>3, <1>4, WriteStep

(* The names of a category are read.                                       *)
LEMMA CategoryReadKeeps ==
    ASSUME IInv, NEW r \in Slot, CategoryRead(r)
    PROVE  IInv'
<1>1. PICK q : q = req[r]
  OBVIOUS
<1>2. IsRequest(q) /\ \A l \in LinkId, p \in Part : ~WillEnrich(r, l, p)
  BY <1>1, NothingPromised DEF CategoryRead, At, IInv, RequestsKept, OneLink
<1>3. IsRequest(Done(q)) /\ \A n : IsRequest([q EXCEPT !.name = n, !.at = "vector"])
  BY <1>2, IsDone DEF IsRequest
<1>4. PICK n : Goes(r, n) /\ IsRequest(n)
  BY <1>1, <1>3 DEF CategoryRead, ReadFails
<1> QED
  BY <1>2, <1>4, ReadStep DEF CategoryRead, ReadFails, Quietly, Reports, server

(* An item of a bulk request: no text changes, and none is created.        *)
LEMMA BulkItemKeeps ==
    ASSUME IInv, NEW r \in Slot, BulkItem(r)
    PROVE  IInv'
<1>1. PICK q, w : q = req[r] /\ w = Item(q)
  OBVIOUS
<1>2. /\ IsRequest(q) /\ q.kind \notin {"edit", "inline"}
      /\ \A l \in LinkId, p \in Part : ~WillEnrich(r, l, p)
  BY <1>1, NothingPromised DEF BulkItem, At, IInv, RequestsKept, OneLink, Bulk
<1>3. w.op \notin {"update", "create"}
  BY <1>1 DEF Item
<1>4. IsRequest(Counted(q)) /\ IsRequest(Errored(q))
  <2>1. /\ {"kind", "ids", "at", "part"} \subseteq DOMAIN NextItem(q)
        /\ NextItem(q).kind = q.kind /\ NextItem(q).part = q.part
    BY <1>2 DEF NextItem, IsRequest
  <2>2. IsRequest(NextItem(q)) /\ NextItem(q).kind \notin {"edit", "inline"}
    BY <1>2, <2>1 DEF IsRequest
  <2> HIDE DEF NextItem
  <2>3. PICK n : n = NextItem(q)
    OBVIOUS
  <2>4. \A v : IsRequest([n EXCEPT !.ok = v]) /\ IsRequest([n EXCEPT !.errors = v])
    BY <2>2, <2>3 DEF IsRequest
  <2>5. /\ Counted(q) = [n EXCEPT !.ok = n.ok \cup {Head(q.ids)}]
        /\ Errored(q) = [n EXCEPT !.errors = n.errors \cup {Head(q.ids)}]
    BY <2>3 DEF Counted, Errored
  <2> QED
    BY <2>4, <2>5
<1>5. CASE Perform(w) /\ Goes(r, Counted(q)) /\ UNCHANGED <<made, faults, late, reported>>
  <2>1. Writes(r, w, Counted(q), Counted(q))
    BY <1>5 DEF Writes
  <2> QED
    BY <1>2, <1>3, <1>4, <2>1, WriteStep
<1>6. CASE /\ Goes(r, Errored(q)) /\ UNCHANGED <<server, reported>>
           /\ late' \in {late, late \cup {w}}
  BY <1>2, <1>3, <1>4, <1>6, ReadStep DEF server
<1> QED
  BY <1>1, <1>5, <1>6 DEF BulkItem, Quietly

(* The answer of a bulk request, and the pages of a list.                  *)
LEMMA ListKeeps ==
    ASSUME IInv, NEW r \in Slot, BulkReply(r) \/ Walk(r)
    PROVE  IInv'
<1>1. PICK q : q = req[r]
  OBVIOUS
<1>2. IsRequest(q) /\ \A l \in LinkId, p \in Part : ~WillEnrich(r, l, p)
  BY <1>1, NothingPromised DEF BulkReply, Walk, At, IInv, RequestsKept, OneLink, Bulk
<1>3. IsRequest(Done(q)) /\ IsRequest([Done(q) EXCEPT !.ok = None])
  BY <1>2, IsDone DEF IsRequest
<1>4. /\ \A v, n, at : IsRequest([q EXCEPT !.seen = v, !.next = n, !.at = at])
      /\ \A v, at : IsRequest([q EXCEPT !.after = v, !.at = at]) /\ IsRequest([q EXCEPT !.at = at, !.direct = v])
      /\ \A v, at : IsRequest([q EXCEPT !.at = at, !.failed = v])
  BY <1>2 DEF IsRequest
<1>5. \A page : IsRequest(Shown(q, page))
  BY <1>4 DEF Shown
<1>6. PICK n : Goes(r, n) /\ IsRequest(n)
  BY <1>1, <1>3, <1>4, <1>5 DEF BulkReply, Walk
<1> QED
  BY <1>2, <1>6, ReadStep DEF BulkReply, Walk, Quietly, server

(* A write nobody waits for any more: a new text was reported when its     *)
(* caller gave up, a new link is reported now.                             *)
LEMMA LateKeeps ==
    ASSUME IInv, RunLate
    PROVE  IInv'
<1> USE DEF IInv
<1>1. PICK w \in late :
        /\ late' = late \ {w}
        /\ Perform(w) \/ (~Accepts(w) /\ UNCHANGED server)
        /\ reported' = IF w.op = "create" /\ Accepts(w) THEN reported \cup {NewId} ELSE reported
        /\ UNCHANGED <<req, made, faults>>
  BY DEF RunLate
<1>2. reported \subseteq reported' /\ RequestsKept' /\ LateIsReported'
  BY <1>1 DEF RequestsKept, LateIsReported
<1>3. CASE Perform(w)
  <2>1. /\ MapsKept' /\ FactsMatchText'
        /\ \A l \in LinkId : IsLive(l)' =>
             \/ w.op = "update" /\ l = w.id
             \/ w.op = "create" /\ l = NewId
             \/ Stays(l)
    BY <1>3, PerformKeeps
  <2>2. w.op = "update" => w.id \in reported
    BY <1>1 DEF LateIsReported
  <2>3. w.op = "create" => NewId \in reported'
    BY <1>1, <1>3 DEF Perform
  <2>4. EveryTextIsEnriched'
    BY <1>1, <1>2, <2>1, <2>2, <2>3, Keeping
  <2> QED
    BY <1>2, <2>1, <2>4
<1>4. CASE UNCHANGED server
  <2>1. MapsKept' /\ FactsMatchText' /\ \A l \in LinkId : IsLive(l)' => Stays(l)
    BY <1>4, Untouched DEF server, MapsKept, MapOn, FactsMatchText, IsLive
  <2>2. EveryTextIsEnriched'
    BY <1>1, <1>2, <2>1, Keeping
  <2> QED
    BY <1>2, <2>1, <2>2
<1> QED
  BY <1>1, <1>3, <1>4

-----------------------------------------------------------------------------
(* What is made of the texts.                                              *)

(* The links there are to begin with have what is made of their text.      *)
LEMMA InitLinks == Init => IInv
<1> SUFFICES ASSUME Init PROVE IInv
  OBVIOUS
<1> USE ModerationAssumption DEF Init
<1>1. MapsKept
  BY DEF MapsKept, MapOn, LinkRecord
<1>2. RequestsKept
  BY DEF RequestsKept, MapOn, Free
<1>3. LateIsReported
  BY DEF LateIsReported
<1>4. FactsMatchText /\ EveryTextIsEnriched
  BY DEF FactsMatchText, EveryTextIsEnriched, IsLive
<1> QED
  BY <1>1, <1>2, <1>3, <1>4 DEF IInv

(* Every step keeps the invariant.                                         *)
LEMMA StepKeeps == IInv /\ [Next]_vars => IInv'
<1> SUFFICES ASSUME IInv, [Next]_vars PROVE IInv'
  OBVIOUS
<1>1. CASE UNCHANGED vars
  <2>1. UNCHANGED <<link, vector, facts, req, late, reported>>
    BY <1>1 DEF vars, server
  <2>2. \A r \in Slot, l \in LinkId, p \in Part : WillEnrich(r, l, p)' <=> WillEnrich(r, l, p)
    BY <2>1 DEF WillEnrich
  <2>3. EveryTextIsEnriched'
    BY <2>1, <2>2 DEF IInv, EveryTextIsEnriched, IsLive, Part
  <2> QED
    BY <2>1, <2>3 DEF IInv, MapsKept, MapOn, RequestsKept, LateIsReported, FactsMatchText, IsLive
<1>2. ASSUME NEW r \in Slot, Step(r) PROVE IInv'
  BY <1>2, BeginKeeps, FinishKeeps, EditReadKeeps, LookupKeeps, WriteTextKeeps, EditWriteKeeps,
     CreateKeeps, EnrichReadKeeps, EnrichWriteKeeps, OneKeeps, CategoryReadKeeps, BulkItemKeeps,
     ListKeeps DEF Step
<1> QED
  BY <1>1, <1>2, LateKeeps DEF Next

(* The vector and the facts of a link are of the text it has, however      *)
(* edits, enrichments and late writes of it overlap (check_write in        *)
(* operations_vector.zig, enrichLink() in link-enrichment.ts).             *)
THEOREM TextsAndFactsAgree == Spec => []FactsMatchText
<1>1. Init => IInv
  BY InitLinks
<1>2. IInv /\ [Next]_vars => IInv'
  BY StepKeeps
<1>3. IInv => FactsMatchText
  BY DEF IInv
<1> QED
  BY <1>1, <1>2, <1>3, PTL DEF Spec

(* No link is left without its vector or its facts unless a request about  *)
(* it met an error (enrichLink() after each write of a text).              *)
THEOREM NoTextIsForgotten == Spec => []EveryTextIsEnriched
<1>1. Init => IInv
  BY InitLinks
<1>2. IInv /\ [Next]_vars => IInv'
  BY StepKeeps
<1>3. IInv => EveryTextIsEnriched
  BY DEF IInv
<1> QED
  BY <1>1, <1>2, <1>3, PTL DEF Spec


-----------------------------------------------------------------------------
(* A listing: each link of a set of them once, in order.                   *)

LEMMA RankExists ==
    ASSUME NEW S, IsFiniteSet(S), S \subseteq Nat, NEW i \in 1 .. Cardinality(S)
    PROVE  \E x \in S : Cardinality({y \in S : y < x}) = i - 1
<1> DEFINE Lower(x) == {y \in S : y < x}
           rank == [x \in S |-> Cardinality(Lower(x))]
           T == 0 .. Cardinality(S) - 1
<1>1. Cardinality(S) \in Nat /\ \A x : IsFiniteSet(Lower(x)) /\ Cardinality(Lower(x)) \in Nat
  BY FS_Subset, FS_CardinalityType
<1>2. IsFiniteSet(T) /\ Cardinality(T) = Cardinality(S)
  <2>1. PICK n \in Nat : n = Cardinality(S)
    BY <1>1
  <2>2. IsFiniteSet(0 .. n - 1) /\ Cardinality(0 .. n - 1) = IF 0 > n - 1 THEN 0 ELSE n - 1 - 0 + 1
    BY FS_Interval
  <2> QED
    BY <2>1, <2>2
<1>3. ASSUME NEW x \in S PROVE rank[x] \in T
  <2>1. Lower(x) \subseteq S \ {x} /\ IsFiniteSet(S \ {x})
        /\ Cardinality(S \ {x}) = Cardinality(S) - 1
    BY FS_RemoveElement
  <2>2. Cardinality(Lower(x)) <= Cardinality(S) - 1
    BY <2>1, FS_Subset
  <2> QED
    BY <1>1, <2>2
<1>4. ASSUME NEW x \in S, NEW y \in S, x < y PROVE Cardinality(Lower(x)) < Cardinality(Lower(y))
  <2>1. x \notin Lower(x) /\ Lower(x) \cup {x} \subseteq Lower(y)
    <3>1. \A z \in S : z \in Nat
      OBVIOUS
    <3>2. ~(x < x) /\ \A z \in S : z < x => z < y
      BY <1>4, <3>1
    <3> QED
      BY <1>4, <3>2
  <2>2. Cardinality(Lower(x) \cup {x}) = Cardinality(Lower(x)) + 1
    BY <1>1, <2>1, FS_AddElement
  <2>3. Cardinality(Lower(x) \cup {x}) <= Cardinality(Lower(y))
    BY <1>1, <2>1, FS_Subset
  <2> HIDE DEF Lower
  <2> QED
    BY <1>1, <2>2, <2>3
<1>5. rank \in Injection(S, T)
  <2>1. rank \in [S -> T]
    BY <1>3
  <2>2. \A x, y \in S : rank[x] = rank[y] => x = y
    <3> SUFFICES ASSUME NEW x \in S, NEW y \in S, x # y PROVE rank[x] # rank[y]
      OBVIOUS
    <3>1. x < y \/ y < x
      OBVIOUS
    <3> HIDE DEF Lower
    <3> QED
      BY <1>1, <1>4, <3>1
  <2> HIDE DEF rank
  <2> QED
    BY <2>1, <2>2 DEF Injection, IsInjective
<1>6. rank \in Surjection(S, T)
  <2> HIDE DEF rank, T
  <2> QED
    BY <1>2, <1>5, FS_Injection
<1>7. i - 1 \in T
  BY <1>1
<1> QED
  BY <1>6, <1>7 DEF Surjection

(* What is listed, and that it goes up.                                    *)
LEMMA InOrderIs ==
    ASSUME NEW S, IsFiniteSet(S), S \subseteq Nat, NEW ids, ids = InOrder(S)
    PROVE  /\ ids \in Seq(S) /\ Len(ids) = Cardinality(S) /\ Len(ids) \in Nat
           /\ \A i, j \in 1 .. Len(ids) : i < j => ids[i] < ids[j]
           /\ S \subseteq ToSet(ids)
<1> DEFINE n == Cardinality(S)
           Rank(x) == Cardinality({y \in S : y < x})
<1>1. n \in Nat /\ \A x : Rank(x) \in Nat
  BY FS_Subset, FS_CardinalityType
<1>2. ids = [i \in 1..n |-> CHOOSE l \in S : Rank(l) = i - 1]
  BY DEF InOrder, Listed
<1>3. \A i \in 1..n : ids[i] \in S /\ Rank(ids[i]) = i - 1
  <2> TAKE i \in 1..n
  <2>1. \E x \in S : Rank(x) = i - 1
    BY RankExists
  <2> HIDE DEF Rank
  <2> QED
    BY <1>2, <2>1
<1>4. ids \in [1..n -> S]
  <2> HIDE DEF Rank
  <2> QED
    BY <1>2, <1>3
<1>5. ids \in Seq(S) /\ Len(ids) = n
  BY <1>1, <1>4
<1>6. ASSUME NEW x \in S, NEW y \in S, x < y PROVE Rank(x) < Rank(y)
  <2> DEFINE Lower(z) == {v \in S : v < z}
  <2>1. x \notin Lower(x) /\ Lower(x) \cup {x} \subseteq Lower(y)
    <3>1. \A z \in S : z \in Nat
      OBVIOUS
    <3>2. ~(x < x) /\ \A z \in S : z < x => z < y
      BY <1>6, <3>1
    <3> QED
      BY <1>6, <3>2
  <2>2. \A z : IsFiniteSet(Lower(z))
    BY FS_Subset
  <2>3. Cardinality(Lower(x) \cup {x}) = Cardinality(Lower(x)) + 1
    BY <2>1, <2>2, FS_AddElement
  <2>4. Cardinality(Lower(x) \cup {x}) <= Cardinality(Lower(y))
    BY <2>1, <2>2, FS_Subset
  <2>5. Rank(x) = Cardinality(Lower(x)) /\ Rank(y) = Cardinality(Lower(y))
    OBVIOUS
  <2> HIDE DEF Lower, Rank
  <2> QED
    BY <1>1, <2>3, <2>4, <2>5
<1>7. ASSUME NEW i \in 1..n, NEW j \in 1..n, i < j PROVE ids[i] < ids[j]
  <2>1. ids[i] \in Nat /\ ids[j] \in Nat /\ Rank(ids[i]) = i - 1 /\ Rank(ids[j]) = j - 1
    BY <1>3
  <2>2. ids[i] # ids[j]
    <3> HIDE DEF Rank
    <3> QED
      BY <1>7, <2>1
  <2>3. CASE ids[j] < ids[i]
    <3>1. Rank(ids[j]) < Rank(ids[i])
      <4> HIDE DEF Rank
      <4> QED
        BY <1>3, <1>6, <2>3
    <3> HIDE DEF Rank
    <3> QED
      BY <1>7, <2>1, <3>1
  <2> QED
    BY <2>1, <2>2, <2>3
<1>8. ASSUME NEW l \in S PROVE \E i \in 1..n : ids[i] = l
  <2> DEFINE image == {ids[i] : i \in 1..n}
  <2>1. ids \in Injection(1..n, S)
    <3>1. \A i, j \in 1..n : ids[i] = ids[j] => i = j
      <4> SUFFICES ASSUME NEW i \in 1..n, NEW j \in 1..n, i # j PROVE ids[i] # ids[j]
        OBVIOUS
      <4>1. ids[i] \in Nat /\ ids[j] \in Nat
        BY <1>3
      <4>2. i < j \/ j < i
        BY <1>1
      <4> QED
        BY <1>7, <4>1, <4>2
    <3> QED
      BY <1>4, <3>1 DEF Injection, IsInjective
  <2>2. Cardinality(1..n) = Cardinality(S)
    BY <1>1, FS_Interval
  <2>3. ids \in Surjection(1..n, S)
    BY <2>1, <2>2, FS_Injection
  <2> QED
    BY <2>3 DEF Surjection
<1>9. S \subseteq ToSet(ids)
  BY <1>5, <1>8 DEF ToSet
<1> QED
  BY <1>1, <1>5, <1>7, <1>9

(* The rows of a page are the first of the list, and its cursor the last   *)
(* of them, or 0 if there are no more.                                     *)
LEMMA PageIs ==
    ASSUME NEW S, NEW ids \in Seq(S), NEW page, page = PageOf(ids)
    PROVE  \E k \in 0 .. Len(ids) :
             /\ page.rows \in Seq(S) /\ Len(page.rows) = k
             /\ \A i \in 1..k : page.rows[i] = ids[i]
             /\ \/ k = Len(ids) /\ page.next = 0
                \/ k >= 1 /\ page.next = ids[k]
<1> DEFINE k == IF Len(ids) < PageSize THEN Len(ids) ELSE PageSize
<1>1. PageSize \in Nat \ {0} /\ Len(ids) \in Nat
  BY ModerationAssumption
<1>2. k \in 0 .. Len(ids)
  BY <1>1
<1>3. page.rows = SubSeq(ids, 1, k)
      /\ page.next = IF Len(ids) > PageSize THEN Last(page.rows) ELSE 0
  BY DEF PageOf
<1>4. \A i \in 1..k : ids[i] \in S
  BY <1>2
<1>5. /\ page.rows \in Seq(S) /\ Len(page.rows) = k
      /\ \A i \in 1..k : page.rows[i] = ids[i]
  <2> HIDE DEF k
  <2>1. k \in Int
    BY <1>1, <1>2
  <2>2. /\ SubSeq(ids, 1, k) \in Seq(S)
        /\ Len(SubSeq(ids, 1, k)) = IF 1 <= k THEN k - 1 + 1 ELSE 0
        /\ \A i \in 1 .. k - 1 + 1 : SubSeq(ids, 1, k)[i] = ids[1 + i - 1]
    BY <1>4, <2>1, SubSeqProperties
  <2> QED
    BY <1>1, <1>2, <1>3, <2>1, <2>2
<1>6. \/ k = Len(ids) /\ page.next = 0
      \/ k >= 1 /\ page.next = ids[k]
  <2>1. CASE Len(ids) > PageSize
    BY <1>1, <1>3, <1>5, <2>1 DEF Last
  <2>2. CASE ~(Len(ids) > PageSize)
    BY <1>1, <1>3, <2>2
  <2> QED
    BY <2>1, <2>2
<1> QED
  BY <1>2, <1>5, <1>6

(* A page of a listing by id.                                              *)
LEMMA PageInOrder ==
    ASSUME NEW S, IsFiniteSet(S), S \subseteq Nat \ {0},
           NEW page, page = PageOf(InOrder(S))
    PROVE  /\ page.rows \in Seq(S) /\ IsInjective(page.rows) /\ page.next \in Nat
           /\ page.next = 0 => S \subseteq ToSet(page.rows)
           /\ page.next # 0 => /\ page.next \in S
                               /\ \A l \in ToSet(page.rows) : l <= page.next
                               /\ \A l \in S : l <= page.next => l \in ToSet(page.rows)
           /\ page.rows = <<>> => S = {}
<1>0. S \subseteq Nat
  OBVIOUS
<1>1. PICK ids : ids = InOrder(S)
  OBVIOUS
<1>2. /\ ids \in Seq(S) /\ Len(ids) \in Nat
      /\ \A i, j \in 1 .. Len(ids) : i < j => ids[i] < ids[j]
      /\ \A l \in S : \E i \in 1 .. Len(ids) : ids[i] = l
  <2>1. /\ ids \in Seq(S) /\ Len(ids) \in Nat
        /\ \A i, j \in 1 .. Len(ids) : i < j => ids[i] < ids[j]
        /\ S \subseteq ToSet(ids)
    BY <1>0, <1>1, InOrderIs
  <2> QED
    BY <2>1 DEF ToSet
<1>3. PICK k \in 0 .. Len(ids) :
             /\ page.rows \in Seq(S) /\ Len(page.rows) = k
             /\ \A i \in 1..k : page.rows[i] = ids[i]
             /\ \/ k = Len(ids) /\ page.next = 0
                \/ k >= 1 /\ page.next = ids[k]
  BY <1>1, <1>2, PageIs
<1>4. \A i \in 1 .. Len(ids) : ids[i] \in S /\ ids[i] \in Nat /\ ids[i] # 0
  <2>1. \A i \in 1 .. Len(ids) : ids[i] \in S
    BY <1>2
  <2>2. \A l \in S : l \in Nat /\ l # 0
    OBVIOUS
  <2> QED
    BY <2>1, <2>2
<1>5. k \in Nat /\ DOMAIN page.rows = 1..k
  BY <1>2, <1>3
<1>6. ToSet(page.rows) = {ids[i] : i \in 1..k}
  BY <1>3, <1>5 DEF ToSet
<1>7. page.next \in Nat
  BY <1>2, <1>3, <1>4, <1>5
<1>8. IsInjective(page.rows)
  <2> SUFFICES ASSUME NEW i \in 1..k, NEW j \in 1..k, i # j PROVE ids[i] # ids[j]
    BY <1>3, <1>5 DEF IsInjective
  <2>1. i \in 1 .. Len(ids) /\ j \in 1 .. Len(ids) /\ (i < j \/ j < i)
    BY <1>2, <1>3, <1>5
  <2> QED
    BY <1>2, <1>4, <2>1
<1>9. ASSUME page.next = 0 PROVE S \subseteq ToSet(page.rows)
  <2>1. k = Len(ids)
    BY <1>2, <1>3, <1>4, <1>9
  <2> QED
    BY <1>2, <1>6, <2>1
<1>10. ASSUME page.next # 0
       PROVE  /\ page.next \in S
              /\ \A l \in ToSet(page.rows) : l <= page.next
              /\ \A l \in S : l <= page.next => l \in ToSet(page.rows)
  <2>1. k \in 1 .. Len(ids) /\ page.next = ids[k]
    BY <1>2, <1>3, <1>10
  <2>2. \A i \in 1..k : ids[i] <= ids[k]
    <3> TAKE i \in 1..k
    <3>1. i \in 1 .. Len(ids) /\ (i < k \/ i = k)
      BY <1>2, <2>1
    <3>2. ids[i] \in Nat /\ ids[k] \in Nat
      BY <1>4, <2>1, <3>1
    <3> QED
      BY <1>2, <2>1, <3>1, <3>2
  <2>3. ASSUME NEW l \in S, l <= ids[k] PROVE \E i \in 1..k : ids[i] = l
    <3>1. PICK i \in 1 .. Len(ids) : ids[i] = l
      BY <1>2
    <3>2. ids[i] \in Nat /\ ids[k] \in Nat
      BY <1>4, <2>1
    <3>3. ~(k < i)
      BY <1>2, <2>1, <2>3, <3>1, <3>2
    <3>4. i \in 1..k
      BY <1>2, <2>1, <3>3
    <3> QED
      BY <3>1, <3>4
  <2> QED
    BY <1>4, <1>6, <2>1, <2>2, <2>3
<1>11. ASSUME page.rows = <<>> PROVE S = {}
  <2>1. k = 0
    BY <1>3, <1>11
  <2> QED
    BY <1>2, <1>3, <2>1
<1> QED
  BY <1>3, <1>7, <1>8, <1>9, <1>10, <1>11

(* What has been seen, and a page more.                                    *)
LEMMA SeenGrows ==
    ASSUME NEW S, NEW s \in Seq(S), NEW t \in Seq(S)
    PROVE  /\ s \o t \in Seq(S)
           /\ ToSet(s \o t) = ToSet(s) \cup ToSet(t)
           /\ IsInjective(s) /\ IsInjective(t) /\ ToSet(s) \cap ToSet(t) = {} => IsInjective(s \o t)
<1> DEFINE m == Len(s)
           n == Len(t)
           u == s \o t
<1>1. /\ u \in Seq(S) /\ Len(u) = m + n /\ m \in Nat /\ n \in Nat
      /\ \A i \in 1 .. m + n : u[i] = IF i <= m THEN s[i] ELSE t[i - m]
  BY ConcatProperties
<1>2. DOMAIN s = 1..m /\ DOMAIN t = 1..n /\ DOMAIN u = 1 .. m + n
  BY <1>1
<1> HIDE DEF m, n, u
<1>3. /\ \A i \in 1..m : i \in 1 .. m + n /\ u[i] = s[i]
      /\ \A i \in 1..n : m + i \in 1 .. m + n /\ u[m + i] = t[i]
      /\ \A i \in 1 .. m + n : i \in 1..m \/ (i - m \in 1..n /\ ~(i <= m) /\ u[i] = t[i - m])
  <2>1. \A i \in 1..n : m + i \in 1 .. m + n /\ ~(m + i <= m) /\ m + i - m = i
    BY <1>1
  <2>2. \A i \in 1 .. m + n : i <= m \/ (i - m \in 1..n /\ ~(i <= m))
    BY <1>1
  <2>3. \A i \in 1..m : i \in 1 .. m + n /\ i <= m
    BY <1>1
  <2>4. \A i \in 1..n : u[m + i] = t[i]
    <3> TAKE i \in 1..n
    <3>1. u[m + i] = t[m + i - m]
      BY <1>1, <2>1
    <3> QED
      BY <2>1, <3>1
  <2> QED
    BY <1>1, <2>1, <2>2, <2>3, <2>4
<1>4. ToSet(u) = ToSet(s) \cup ToSet(t)
  <2>1. \A i \in 1 .. m + n : u[i] \in ToSet(s) \cup ToSet(t)
    BY <1>2, <1>3 DEF ToSet
  <2>2. \A i \in 1..m : s[i] \in ToSet(u)
    BY <1>2, <1>3 DEF ToSet
  <2>3. \A i \in 1..n : t[i] \in ToSet(u)
    BY <1>2, <1>3 DEF ToSet
  <2> QED
    BY <1>2, <2>1, <2>2, <2>3 DEF ToSet
<1>5. ASSUME IsInjective(s), IsInjective(t), ToSet(s) \cap ToSet(t) = {}
      PROVE  IsInjective(u)
  <2> SUFFICES ASSUME NEW i \in 1 .. m + n, NEW j \in 1 .. m + n, u[i] = u[j] PROVE i = j
    BY <1>2 DEF IsInjective
  <2>1. \A a \in 1..m, b \in 1..n : s[a] # t[b]
    BY <1>2, <1>5 DEF ToSet
  <2>2. CASE i \in 1..m /\ j \in 1..m
    BY <1>2, <1>3, <1>5, <2>2 DEF IsInjective
  <2>3. CASE i \notin 1..m /\ j \notin 1..m
    <3>1. i - m \in 1..n /\ j - m \in 1..n /\ t[i - m] = t[j - m]
      BY <1>3, <2>3
    <3>2. i - m = j - m
      BY <1>2, <1>5, <3>1 DEF IsInjective
    <3> QED
      BY <1>1, <3>2
  <2>4. CASE i \in 1..m /\ j \notin 1..m
    BY <1>3, <2>1, <2>4
  <2>5. CASE i \notin 1..m /\ j \in 1..m
    BY <1>3, <2>1, <2>5
  <2> QED
    BY <2>2, <2>3, <2>4, <2>5
<1> QED
  BY <1>1, <1>4, <1>5 DEF u

(* The list of a subtree gives a page of something.                        *)
LEMMA SubtreeIsPage ==
    ASSUME NEW q
    PROVE  \E S : Subtree(q).rows \in Seq(S)
<1> DEFINE order(k, l) == link[k].cat < link[l].cat \/ (link[k].cat = link[l].cat /\ k < l)
           X == {l \in LinkId : Matches(q, l) /\ link[l].cat \in Beneath(q.cat)}
           place(i) == CHOOSE l \in X : Cardinality({k \in X : order(k, l)}) = i - 1
           all == Listed(X, order)
<1>0. all = [i \in 1 .. Cardinality(X) |-> place(i)]
  <2> HIDE DEF X
  <2> QED
    BY Zenon DEF Listed
<1> HIDE DEF place
<1>1. Cardinality(X) \in Nat
  BY ModerationAssumption, FS_Subset, FS_CardinalityType
<1>2. PICK S : \A i \in 1 .. Cardinality(X) : all[i] \in S
  <2> DEFINE T == {all[i] : i \in 1 .. Cardinality(X)}
  <2>1. \A i \in 1 .. Cardinality(X) : all[i] \in T
    OBVIOUS
  <2> HIDE DEF all, T, X
  <2> QED
    BY <2>1
<1>3. all \in Seq(S) /\ Len(all) = Cardinality(X)
  <2>1. all = [i \in 1 .. Cardinality(X) |-> all[i]]
    <3> HIDE DEF all, X
    <3> QED
      BY <1>0
  <2>2. all \in [1 .. Cardinality(X) -> S]
    <3> HIDE DEF all, X
    <3> QED
      BY <1>2, <2>1
  <2> HIDE DEF all, X
  <2> QED
    BY <1>1, <2>2
<1>4. \A ids \in Seq(S) : PageOf(ids).rows \in Seq(S)
  BY PageIs
<1>5. ASSUME q.after \in ToSet(all)
      PROVE  SubSeq(all, CHOOSE i \in 2..Len(all) + 1 : all[i - 1] = q.after, Len(all)) \in Seq(S)
  <2> HIDE DEF all, X
  <2>1. Len(all) \in Nat /\ DOMAIN all = 1 .. Len(all)
    BY <1>1, <1>3
  <2>2. PICK j \in 1 .. Len(all) : all[j] = q.after
    BY <1>5, <2>1 DEF ToSet
  <2>4. \E i \in 2..Len(all) + 1 : all[i - 1] = q.after
    <3>1. PICK i : i = j + 1
      OBVIOUS
    <3>2. i \in 2 .. Len(all) + 1 /\ i - 1 = j
      BY <2>1, <3>1
    <3>3. all[i - 1] = q.after
      BY <2>2, <3>2
    <3> QED
      BY <3>2, <3>3
  <2>5. PICK m : m = CHOOSE i \in 2..Len(all) + 1 : all[i - 1] = q.after
    OBVIOUS
  <2>6. m \in 2 .. Len(all) + 1
    BY <2>4, <2>5
  <2>7. \A i \in m .. Len(all) : all[i] \in S
    BY <1>2, <1>3, <2>1, <2>6
  <2>8. SubSeq(all, m, Len(all)) \in Seq(S)
    BY <2>1, <2>6, <2>7, SubSeqProperties
  <2> QED
    BY <2>5, <2>8
<1>6. <<>> \in Seq(S)
  OBVIOUS
<1>7. Subtree(q) = IF q.after = 0 THEN PageOf(all)
        ELSE IF q.after \in ToSet(all)
        THEN PageOf(SubSeq(all, CHOOSE i \in 2..Len(all) + 1 : all[i - 1] = q.after, Len(all)))
        ELSE PageOf(<<>>)
  BY DEF Subtree
<1>8. Subtree(q).rows \in Seq(S)
  <2> HIDE DEF all, X
  <2> QED
    BY <1>3, <1>4, <1>5, <1>6, <1>7
<1> QED
  BY <1>8

-----------------------------------------------------------------------------
(* A walk through a list: what it has seen goes up to where it has got, and*)
(* every link of the list up to there that nobody touched is among it.     *)
(* A failed load leaves it where it was when it asked for the page.        *)

Reach(q) == IF q.at = "page" \/ q.failed THEN q.after ELSE q.next

WalkFields == {"kind", "at", "seen", "next", "after", "direct", "cat", "status", "failed"}

WalkOf(q) ==
    /\ WalkFields \subseteq DOMAIN q
    /\ q.at \in {"page", "subtree", "shown", "done"}
    /\ q.failed \in BOOLEAN /\ (q.failed => q.at = "done")
    /\ \E S : q.seen \in Seq(S)
    /\ q.direct =>
         /\ q.at # "subtree"
         /\ ToSet(q.seen) \subseteq LinkId /\ IsInjective(q.seen)
         /\ q.after \in Nat /\ q.next \in Nat
         /\ q.at # "done" \/ q.failed =>
              /\ \A l \in ToSet(q.seen) : l <= Reach(q)
              /\ \A l \in Direct(q) \ touched : l <= Reach(q) => l \in ToSet(q.seen)
    /\ (q.direct => q.at = "done" /\ ~q.failed) => Direct(q) \ touched \subseteq ToSet(q.seen)

WalkInv == \A r \in Slot : req[r].kind = "walk" => WalkOf(req[r])

(* A step that changes no link of the list behind a walk's back.           *)
TouchKept ==
    /\ touched \subseteq touched'
    /\ Walking => \A l \in LinkId : l \in touched' \/ link'[l] = link[l]

(* The next state of each walk.                                            *)
LEMMA WalkClosed ==
    ASSUME \A s \in Slot : \A q : q = req'[s] /\ q.kind = "walk" => WalkOf(q)'
    PROVE  WalkInv'
<1> SUFFICES ASSUME NEW s \in Slot, req'[s].kind = "walk" PROVE WalkOf(req[s])'
  BY DEF WalkInv
<1>1. PICK q : q = req'[s]
  OBVIOUS
<1>2. WalkOf(q)'
  BY <1>1
<1> QED
  BY <1>1, <1>2 DEF WalkOf, Reach, Direct, Matches, IsLive

(* The list of a walk, but for what was touched, is what it was.           *)
LEMMA DirectKept ==
    ASSUME NEW q, TouchKept, Walking
    PROVE  Direct(q)' \ touched' \subseteq Direct(q) \ touched
BY DEF TouchKept, Direct, Matches, IsLive

(* A walk that stays where it is.                                          *)
LEMMA WalkStays ==
    ASSUME NEW q, WalkOf(q), TouchKept, Walking
    PROVE  WalkOf(q)'
<1>1. Direct(q)' \ touched' \subseteq Direct(q) \ touched
  BY DirectKept
<1> QED
  BY <1>1 DEF WalkOf, Reach

(* Every write of the server touches the links it changes.                 *)
LEMMA PerformTouches ==
    ASSUME MapsKept, NEW w, Perform(w)
    PROVE  TouchKept
<1>1. ASSUME NEW i, NEW record, Put(i, record) PROVE TouchKept
  <2>1. link' = [l \in LinkId |-> IF l = i THEN record ELSE link[l]]
    BY <1>1 DEF Put, MapsKept, MapOn
  <2>2. touched' = IF Walking THEN touched \cup {i} ELSE touched
    BY <1>1 DEF Put
  <2> QED
    BY <2>1, <2>2 DEF TouchKept
<1>2. ASSUME NEW c, DeleteCategory(c) PROVE TouchKept
  <2>1. link' = [l \in LinkId |-> IF l \in InCategory(c) THEN None ELSE link[l]]
    BY <1>2 DEF DeleteCategory
  <2>2. touched' = IF Walking THEN touched \cup InCategory(c) ELSE touched
    BY <1>2 DEF DeleteCategory
  <2> QED
    BY <2>1, <2>2 DEF TouchKept
<1>3. (\E i, record : Put(i, record)) \/ (\E c : DeleteCategory(c)) \/ UNCHANGED <<link, touched>>
  BY DEF Perform
<1> QED
  BY <1>1, <1>2, <1>3 DEF TouchKept

(* A step of a handler that walks no list.                                 *)
LEMMA OtherStep ==
    ASSUME RequestsKept, WalkInv, TouchKept, NEW r \in Slot, NEW q, Goes(r, q), q.kind # "walk"
    PROVE  WalkInv'
<1>1. req' = [s \in Slot |-> IF s = r THEN q ELSE req[s]]
  BY DEF Goes, RequestsKept, MapOn
<1> SUFFICES ASSUME NEW s \in Slot, NEW n, n = req'[s], n.kind = "walk" PROVE WalkOf(n)'
  BY WalkClosed
<1>2. s # r /\ n = req[s]
  BY <1>1
<1>3. WalkOf(n) /\ Walking
  BY <1>2 DEF WalkInv, Walking
<1> QED
  BY <1>3, WalkStays

(* A write of such a handler.                                              *)
LEMMA OtherWrites ==
    ASSUME IInv, WalkInv, NEW r \in Slot, NEW w, NEW ok, NEW no, Writes(r, w, ok, no),
           ok.kind # "walk", no.kind # "walk"
    PROVE  WalkInv'
<1>1. Perform(w) \/ UNCHANGED server
  BY DEF Writes
<1>2. TouchKept
  BY <1>1, PerformTouches DEF IInv, server, TouchKept
<1> QED
  BY <1>2, OtherStep DEF Writes, IInv

(* A step of such a handler that writes nothing.                           *)
LEMMA OtherReads ==
    ASSUME IInv, WalkInv, NEW r \in Slot, NEW q, Goes(r, q), q.kind # "walk",
           UNCHANGED <<link, touched>>
    PROVE  WalkInv'
<1>1. TouchKept
  BY DEF TouchKept
<1> QED
  BY <1>1, OtherStep DEF IInv

-----------------------------------------------------------------------------
(* The handlers, and the walks of the others.                              *)

(* What a handler is, while it is about anything else.                     *)
LEMMA OtherHandler ==
    ASSUME IInv, NEW r \in Slot, NEW q, q = req[r], q.kind \notin {"none", "walk"}
    PROVE  IsRequest(q)
BY DEF IInv, RequestsKept

(* A request begins.                                                       *)
LEMMA BeginWalks ==
    ASSUME IInv, WalkInv, NEW r \in Slot, NEW f \in Form, Begin(r, f)
    PROVE  WalkInv'
<1>1. PICK q : /\ Goes(r, q)
               /\ q = [kind |-> f.kind, ids |-> f.ids, text |-> f.text, status |-> f.status,
                       cat |-> f.cat, name |-> f.name, at |-> FirstStep(f), old |-> None,
                       part |-> [p \in Part |-> Idle], ok |-> {}, errors |-> {},
                       after |-> 0, seen |-> <<>>, next |-> 0, direct |-> TRUE, failed |-> FALSE]
  BY DEF Begin
<1>2. /\ q.kind = f.kind /\ q.at = FirstStep(f) /\ q.after = 0 /\ q.next = 0
      /\ q.seen = <<>> /\ q.direct = TRUE /\ q.failed = FALSE
      /\ WalkFields \subseteq DOMAIN q
  BY <1>1 DEF WalkFields
<1>3. link' = link
  BY DEF Begin
<1>4. CASE f.kind # "walk"
  BY <1>1, <1>2, <1>3, <1>4, OtherReads DEF Begin
<1>5. CASE f.kind = "walk"
  <2>1. q.at = "page"
    BY <1>2, <1>5 DEF FirstStep, Bulk
  <2>2. <<>> \in Seq({}) /\ ToSet(<<>>) = {} /\ IsInjective(<<>>)
    BY DEF ToSet, IsInjective
  <2>3. \A l \in LinkId : ~(l <= 0)
    BY ModerationAssumption
  <2>4. WalkOf(q)'
    <3>1. Reach(q) = 0
      BY <1>2, <2>1 DEF Reach
    <3>2. q.failed \in BOOLEAN /\ ~q.failed
      BY <1>2
    <3>3. q.direct /\ q.at = "page" /\ q.after = 0 /\ q.next = 0 /\ q.seen = <<>>
      BY <1>2, <2>1
    <3> QED
      BY <1>2, <2>2, <2>3, <3>1, <3>2, <3>3 DEF WalkOf, Direct, Reach
  <2>5. \A s \in Slot : s # r => req'[s] = req[s] /\ req[s].kind # "walk"
    BY <1>1, <1>5 DEF Begin, Walking, Goes, IInv, RequestsKept, MapOn
  <2>6. req'[r] = q
    BY <1>1 DEF Goes, IInv, RequestsKept, MapOn
  <2> QED
    BY <2>4, <2>5, <2>6, WalkClosed
<1> QED
  BY <1>4, <1>5

(* The handlers of one link.                                               *)
LEMMA OneLinkWalks ==
    ASSUME IInv, WalkInv, NEW r \in Slot,
           EditRead(r) \/ Lookup(r) \/ WriteText(r) \/ WriteStatus(r) \/ WriteMove(r) \/ Create(r)
    PROVE  WalkInv'
<1>1. PICK q : q = req[r]
  OBVIOUS
<1>2. IsRequest(q) /\ q.kind \in OneLink
  BY <1>1, OtherHandler DEF EditRead, Lookup, WriteText, WriteStatus, WriteMove, Create, At, OneLink
<1>3. q.kind # "walk" /\ "kind" \in DOMAIN q /\ "ids" \in DOMAIN q
  BY <1>2 DEF OneLink, IsRequest
<1>4. /\ Done(q).kind = q.kind /\ Enriching(q).kind = q.kind
      /\ \A at : [q EXCEPT !.at = at].kind = q.kind
      /\ \A old, at : [q EXCEPT !.old = old, !.at = at].kind = q.kind
  BY <1>2, IsDone, StartsEnriching, MovesOn
<1>5. \A at : OnTo(q, at).kind = q.kind
  BY <1>4 DEF OnTo
<1>6. CASE EditRead(r) \/ Lookup(r)
  <2>1. PICK n : Goes(r, n) /\ n.kind = q.kind
    <3>1. CASE EditRead(r)
      <4>1. Goes(r, Done(q)) \/ \E old, at : Goes(r, [q EXCEPT !.old = old, !.at = at])
        BY <1>1, <3>1 DEF EditRead, ReadFails
      <4>2. ASSUME NEW old, NEW at, Goes(r, [q EXCEPT !.old = old, !.at = at])
            PROVE  \E n : Goes(r, n) /\ n.kind = q.kind
        <5>1. PICK n : n = [q EXCEPT !.old = old, !.at = at]
          OBVIOUS
        <5>2. n.kind = q.kind
          BY <1>3, <5>1
        <5> QED
          BY <4>2, <5>1, <5>2
      <4> QED
        BY <1>4, <4>1, <4>2
    <3>2. CASE Lookup(r)
      BY <1>1, <1>4, <3>2 DEF Lookup, ReadFails
    <3> QED
      BY <1>6, <3>1, <3>2
  <2>2. UNCHANGED <<link, touched>>
    BY <1>6 DEF EditRead, Lookup, Quietly, ReadFails, server
  <2> QED
    BY <1>3, <2>1, <2>2, OtherReads
<1>7. CASE WriteText(r) \/ WriteStatus(r) \/ WriteMove(r)
  <2>1. PICK w, ok : Writes(r, w, ok, Done(q)) /\ ok.kind = q.kind
    BY <1>1, <1>4, <1>5, <1>7 DEF WriteText, WriteStatus, WriteMove
  <2> QED
    BY <1>3, <1>4, <2>1, OtherWrites
<1>8. CASE Create(r)
  <2>1. PICK i : i = NewId
    OBVIOUS
  <2>2. PICK born : born = [q EXCEPT !.ids = <<i>>]
    OBVIOUS
  <2>3. "kind" \in DOMAIN born /\ born.kind = q.kind
    BY <1>3, <2>2
  <2>4. Enriching(born).kind = q.kind
    BY <2>3 DEF Enriching
  <2>5. \/ \E w : Writes(r, w, Enriching(born), Done(q))
        \/ Goes(r, Done(q)) /\ Quietly
    BY <1>1, <1>8, <2>1, <2>2 DEF Create
  <2>6. ASSUME NEW w, Writes(r, w, Enriching(born), Done(q)) PROVE WalkInv'
    BY <1>3, <1>4, <2>4, <2>6, OtherWrites
  <2>7. CASE Goes(r, Done(q)) /\ Quietly
    BY <1>3, <1>4, <2>7, OtherReads DEF Quietly, server
  <2> QED
    BY <2>5, <2>6, <2>7
<1> QED
  BY <1>6, <1>7, <1>8

(* The two halves of an enrichment.                                        *)
LEMMA EnrichWalks ==
    ASSUME IInv, WalkInv, NEW r \in Slot, NEW p \in Part, EnrichRead(r, p) \/ EnrichWrite(r, p)
    PROVE  WalkInv'
<1>1. PICK q : q = req[r]
  OBVIOUS
<1>2. IsRequest(q) /\ q.kind \in OneLink
  BY <1>1, OtherHandler DEF EnrichRead, EnrichWrite, At, OneLink
<1>3. q.kind # "walk" /\ "kind" \in DOMAIN q /\ PartDone(q, p).kind = q.kind
  BY <1>2, HalfIsDone DEF OneLink, IsRequest
<1>4. CASE EnrichRead(r, p)
  <2>1. PICK n : Goes(r, n) /\ n.kind = q.kind
    <3>1. \A v : [q EXCEPT !.part[p] = v].kind = q.kind
      BY <1>3
    <3> QED
      BY <1>1, <1>3, <1>4, <3>1 DEF EnrichRead, ReadFails
  <2>2. UNCHANGED <<link, touched>>
    BY <1>4 DEF EnrichRead, Quietly, ReadFails, server
  <2> QED
    BY <1>3, <2>1, <2>2, OtherReads
<1>5. CASE EnrichWrite(r, p)
  <2>1. PICK w : /\ Goes(r, PartDone(q, p))
                 /\ Perform(w) \/ UNCHANGED <<link, touched>>
    BY <1>1, <1>5 DEF EnrichWrite, Quietly, server
  <2>2. TouchKept
    BY <2>1, PerformTouches DEF IInv, TouchKept
  <2> QED
    BY <1>3, <2>1, <2>2, OtherStep DEF IInv
<1> QED
  BY <1>4, <1>5

(* Decisions and categories.                                               *)
LEMMA CategoryWalks ==
    ASSUME IInv, WalkInv, NEW r \in Slot,
           One(r) \/ CategoryWrite(r) \/ CategoryRead(r) \/ CategoryVector(r)
    PROVE  WalkInv'
<1>1. PICK q : q = req[r]
  OBVIOUS
<1>2. IsRequest(q) /\ q.kind # "walk"
  BY <1>1, OtherHandler DEF One, CategoryWrite, CategoryRead, CategoryVector, At
<1>3. /\ Done(q).kind = q.kind
      /\ \A at : [q EXCEPT !.at = at].kind = q.kind
      /\ \A n, at : [q EXCEPT !.name = n, !.at = at].kind = q.kind
  BY <1>2, IsDone, MovesOn DEF IsRequest
<1>4. CASE One(r) \/ CategoryWrite(r) \/ CategoryVector(r)
  <2>1. PICK w, ok : Writes(r, w, ok, Done(q)) /\ ok.kind = q.kind
    BY <1>1, <1>3, <1>4 DEF One, CategoryWrite, CategoryVector
  <2> QED
    BY <1>2, <1>3, <2>1, OtherWrites
<1>5. CASE CategoryRead(r)
  <2>1. PICK n : Goes(r, n) /\ n.kind = q.kind
    <3>1. Goes(r, Done(q)) \/ \E v : Goes(r, [q EXCEPT !.name = v, !.at = "vector"])
      BY <1>1, <1>5 DEF CategoryRead, ReadFails
    <3>2. ASSUME NEW v, Goes(r, [q EXCEPT !.name = v, !.at = "vector"])
          PROVE  \E n : Goes(r, n) /\ n.kind = q.kind
      <4>1. PICK n : n = [q EXCEPT !.name = v, !.at = "vector"]
        OBVIOUS
      <4>2. n.kind = q.kind
        BY <1>2, <4>1 DEF IsRequest
      <4> QED
        BY <3>2, <4>1, <4>2
    <3> QED
      BY <1>3, <3>1, <3>2
  <2>2. UNCHANGED <<link, touched>>
    BY <1>5 DEF CategoryRead, Quietly, ReadFails, server
  <2> QED
    BY <1>2, <2>1, <2>2, OtherReads
<1> QED
  BY <1>4, <1>5

(* The bulk requests.                                                      *)
LEMMA BulkWalks ==
    ASSUME IInv, WalkInv, NEW r \in Slot, BulkItem(r) \/ BulkReply(r)
    PROVE  WalkInv'
<1>1. PICK q, w : q = req[r] /\ w = Item(q)
  OBVIOUS
<1>2. IsRequest(q) /\ q.kind # "walk" /\ "kind" \in DOMAIN q
  BY <1>1, OtherHandler DEF BulkItem, BulkReply, At, Bulk, IsRequest
<1>3. Done(q).kind = q.kind /\ [Done(q) EXCEPT !.ok = None].kind = q.kind
  BY <1>2 DEF Done
<1>4. PICK n : n = NextItem(q)
  OBVIOUS
<1>5. "kind" \in DOMAIN n /\ n.kind = q.kind
  BY <1>2, <1>4 DEF NextItem
<1>6. /\ Counted(q) = [n EXCEPT !.ok = n.ok \cup {Head(q.ids)}]
      /\ Errored(q) = [n EXCEPT !.errors = n.errors \cup {Head(q.ids)}]
  BY <1>4 DEF Counted, Errored
<1>7. Counted(q).kind = q.kind /\ Errored(q).kind = q.kind
  BY <1>5, <1>6
<1>8. CASE BulkItem(r)
  <2>1. /\ Goes(r, Counted(q)) \/ Goes(r, Errored(q))
        /\ Perform(w) \/ UNCHANGED <<link, touched>>
    BY <1>1, <1>8 DEF BulkItem, Quietly, server
  <2>2. TouchKept
    BY <2>1, PerformTouches DEF IInv, TouchKept
  <2> QED
    BY <1>2, <1>7, <2>1, <2>2, OtherStep DEF IInv
<1>9. CASE BulkReply(r)
  <2>1. Goes(r, Done(q)) \/ Goes(r, [Done(q) EXCEPT !.ok = None])
    BY <1>1, <1>9 DEF BulkReply
  <2>2. UNCHANGED <<link, touched>>
    BY <1>9 DEF BulkReply, Quietly, server
  <2> QED
    BY <1>2, <1>3, <2>1, <2>2, OtherReads
<1> QED
  BY <1>8, <1>9

(* A request is over.                                                      *)
LEMMA FinishWalks ==
    ASSUME IInv, WalkInv, NEW r \in Slot, Finish(r)
    PROVE  WalkInv'
<1>1. Free.kind # "walk"
  BY DEF Free
<1> QED
  BY <1>1, OtherReads DEF Finish, Quietly, server

(* A write nobody waits for any more.                                      *)
LEMMA LateWalks ==
    ASSUME IInv, WalkInv, RunLate
    PROVE  WalkInv'
<1>1. PICK w : Perform(w) \/ UNCHANGED <<link, touched>>
  BY DEF RunLate, server
<1>2. TouchKept /\ req' = req
  BY <1>1, PerformTouches DEF RunLate, IInv, TouchKept
<1> SUFFICES ASSUME NEW s \in Slot, NEW n, n = req'[s], n.kind = "walk" PROVE WalkOf(n)'
  BY WalkClosed
<1>3. WalkOf(n) /\ Walking
  BY <1>2 DEF WalkInv, Walking
<1> QED
  BY <1>2, <1>3, WalkStays

-----------------------------------------------------------------------------
(* The walk itself.                                                        *)

(* A sequence over a set is one over a larger set.                         *)
LEMMA SeqOver == ASSUME NEW S, NEW T, S \subseteq T, NEW s \in Seq(S) PROVE s \in Seq(T)
OBVIOUS

(* A page more: where the walk has got, and what it has seen.              *)
ShowsMore(q, page, n, S) ==
    /\ WalkFields \subseteq DOMAIN n
    /\ n.kind = q.kind /\ n.cat = q.cat /\ n.status = q.status
    /\ n.direct = q.direct /\ n.failed = q.failed /\ n.after = q.after /\ n.next = page.next
    /\ n.at = IF page.next = 0 THEN "done" ELSE "shown"
    /\ n.seen \in Seq(S) /\ ToSet(n.seen) = ToSet(q.seen) \cup ToSet(page.rows)
    /\ IsInjective(q.seen) /\ IsInjective(page.rows) /\ ToSet(q.seen) \cap ToSet(page.rows) = {}
         => IsInjective(n.seen)

LEMMA ShownIs ==
    ASSUME NEW q, WalkFields \subseteq DOMAIN q, NEW S, q.seen \in Seq(S),
           NEW page, page.rows \in Seq(S), NEW n, n = Shown(q, page)
    PROVE  ShowsMore(q, page, n, S)
<1>1. PICK u : u = q.seen \o page.rows
  OBVIOUS
<1>2. n = [q EXCEPT !.seen = u, !.next = page.next, !.at = IF page.next = 0 THEN "done" ELSE "shown"]
  BY <1>1 DEF Shown
<1>4. /\ u \in Seq(S) /\ ToSet(u) = ToSet(q.seen) \cup ToSet(page.rows)
      /\ IsInjective(q.seen) /\ IsInjective(page.rows) /\ ToSet(q.seen) \cap ToSet(page.rows) = {}
           => IsInjective(u)
  BY <1>1, SeenGrows
<1> QED
  BY <1>2, <1>4 DEF WalkFields, ShowsMore

(* A page of the list itself.                                              *)
LEMMA DirectPage ==
    ASSUME NEW q, WalkOf(q), q.at = "page", q.cat = 0 \/ ListFrom(q).rows # <<>>
    PROVE  WalkOf(Shown(q, ListFrom(q)))
<1> DEFINE S == {l \in Direct(q) : l > q.after}
<1>1. PICK page : page = ListFrom(q)
  OBVIOUS
<1>2. page = PageOf(InOrder(S))
  BY <1>1 DEF ListFrom
<1>3. IsFiniteSet(S) /\ S \subseteq LinkId /\ S \subseteq Nat \ {0} /\ LinkId \subseteq Nat
  BY ModerationAssumption, FS_Subset DEF Direct
<1>4. /\ \A l \in Direct(q) : l \in Nat
      /\ \A l \in S : l > q.after
      /\ \A l \in Direct(q) : l > q.after => l \in S
  BY <1>3, ModerationAssumption DEF Direct
<1> HIDE DEF S
<1>5. /\ page.rows \in Seq(S) /\ IsInjective(page.rows) /\ page.next \in Nat
      /\ page.next = 0 => S \subseteq ToSet(page.rows)
      /\ page.next # 0 => /\ page.next \in S
                          /\ \A l \in ToSet(page.rows) : l <= page.next
                          /\ \A l \in S : l <= page.next => l \in ToSet(page.rows)
  BY <1>2, <1>3, PageInOrder
<1>6. ToSet(page.rows) \subseteq S
  BY <1>5 DEF ToSet
<1>7. PICK U : q.seen \in Seq(U) /\ page.rows \in Seq(U)
  <2>1. PICK A : q.seen \in Seq(A)
    BY DEF WalkOf
  <2>2. PICK U : U = A \cup S
    OBVIOUS
  <2>3. q.seen \in Seq(U)
    BY <2>1, <2>2, SeqOver
  <2>4. page.rows \in Seq(U)
    BY <1>5, <2>2, SeqOver
  <2> QED
    BY <2>3, <2>4
<1>8. PICK n : n = Shown(q, page)
  OBVIOUS
<1>9. /\ WalkFields \subseteq DOMAIN n
      /\ n.cat = q.cat /\ n.status = q.status
      /\ n.direct = q.direct /\ n.failed = FALSE /\ n.after = q.after /\ n.next = page.next
      /\ n.at = IF page.next = 0 THEN "done" ELSE "shown"
      /\ n.seen \in Seq(U) /\ ToSet(n.seen) = ToSet(q.seen) \cup ToSet(page.rows)
      /\ IsInjective(q.seen) /\ IsInjective(page.rows) /\ ToSet(q.seen) \cap ToSet(page.rows) = {}
           => IsInjective(n.seen)
  <2>1. WalkFields \subseteq DOMAIN q
    BY DEF WalkOf
  <2>2. ShowsMore(q, page, n, U)
    BY <1>7, <1>8, <2>1, ShownIs
  <2>3. q.failed = FALSE
    BY DEF WalkOf
  <2> QED
    BY <2>2, <2>3 DEF ShowsMore
<1>10. Direct(n) = Direct(q)
  BY <1>9 DEF Direct, Matches
<1>11. CASE ~q.direct
  <2>1. Direct(q) \ touched \subseteq ToSet(q.seen)
    BY <1>11 DEF WalkOf
  <2> QED
    BY <1>1, <1>8, <1>9, <1>10, <1>11, <2>1 DEF WalkOf
<1>12. CASE q.direct
  <2>1. /\ ToSet(q.seen) \subseteq LinkId /\ IsInjective(q.seen) /\ q.after \in Nat
        /\ \A l \in ToSet(q.seen) : l <= q.after
        /\ \A l \in Direct(q) \ touched : l <= q.after => l \in ToSet(q.seen)
    BY <1>12 DEF WalkOf, Reach
  <2>2. \A l \in ToSet(q.seen) : l \in Nat
    BY <1>3, <2>1
  <2>3. \A l \in S : l \in Nat
    BY <1>3
  <2>4. ToSet(q.seen) \cap ToSet(page.rows) = {}
    <3> SUFFICES ASSUME NEW l \in ToSet(q.seen), l \in S PROVE FALSE
      BY <1>6
    <3> QED
      BY <1>4, <2>1, <2>2
  <2>5. IsInjective(n.seen) /\ ToSet(n.seen) \subseteq LinkId
    BY <1>3, <1>5, <1>6, <1>9, <2>1, <2>4
  <2>6. \A l \in Direct(q) : l <= q.after \/ l \in S
    BY <1>4, <2>1
  <2>7. CASE page.next = 0
    <3>1. Direct(q) \ touched \subseteq ToSet(n.seen)
      BY <1>5, <1>9, <2>1, <2>6, <2>7
    <3>2. n.at = "done" /\ n.next \in Nat
      BY <1>9, <2>7
    <3> QED
      BY <1>1, <1>8, <1>9, <1>10, <2>1, <2>5, <3>1, <3>2 DEF WalkOf
  <2>8. CASE page.next # 0
    <3>1. page.next \in Nat /\ q.after < page.next
      BY <1>4, <1>5, <2>1, <2>8
    <3>2. n.at = "shown" /\ Reach(n) = page.next
      BY <1>9, <2>8 DEF Reach
    <3>3. \A l \in ToSet(n.seen) : l <= page.next
      BY <1>5, <1>9, <2>1, <2>2, <2>8, <3>1
    <3>4. \A l \in Direct(q) \ touched : l <= page.next => l \in ToSet(n.seen)
      BY <1>5, <1>9, <2>1, <2>6, <2>8
    <3> QED
      BY <1>1, <1>8, <1>9, <1>10, <2>1, <2>5, <3>1, <3>2, <3>3, <3>4 DEF WalkOf
  <2> QED
    BY <2>7, <2>8
<1> QED
  BY <1>11, <1>12

(* The list has nothing more: it is the subtree's from here on.            *)
LEMMA DirectOver ==
    ASSUME NEW q, WalkOf(q), q.at = "page", ListFrom(q).rows = <<>>
    PROVE  WalkOf([q EXCEPT !.at = "subtree", !.direct = FALSE])
<1> DEFINE S == {l \in Direct(q) : l > q.after}
<1>1. IsFiniteSet(S) /\ S \subseteq Nat \ {0}
  BY ModerationAssumption, FS_Subset DEF Direct
<1>2. S = {}
  <2>1. PICK page : page = PageOf(InOrder(S))
    OBVIOUS
  <2>2. page.rows = <<>>
    BY <2>1 DEF ListFrom
  <2> HIDE DEF S
  <2> QED
    BY <1>1, <2>1, <2>2, PageInOrder
<1>3. Direct(q) \ touched \subseteq ToSet(q.seen)
  <2>1. CASE ~q.direct
    BY <2>1 DEF WalkOf
  <2>2. CASE q.direct
    <3>1. q.after \in Nat /\ \A l \in Direct(q) \ touched : l <= q.after => l \in ToSet(q.seen)
      BY <2>2 DEF WalkOf, Reach
    <3>2. \A l \in Direct(q) : l \in Nat /\ ~(l > q.after)
      BY <1>2, ModerationAssumption DEF Direct
    <3> QED
      BY <3>1, <3>2
  <2> QED
    BY <2>1, <2>2
<1>4. PICK n : n = [q EXCEPT !.at = "subtree", !.direct = FALSE]
  OBVIOUS
<1>5. /\ WalkFields \subseteq DOMAIN n
      /\ n.cat = q.cat /\ n.status = q.status /\ n.seen = q.seen /\ n.at = "subtree" /\ n.direct = FALSE
      /\ n.failed = FALSE
  BY <1>4 DEF WalkOf, WalkFields
<1>6. Direct(n) = Direct(q)
  BY <1>5 DEF Direct, Matches
<1>7. \E A : n.seen \in Seq(A)
  BY <1>5 DEF WalkOf
<1> QED
  BY <1>3, <1>4, <1>5, <1>6, <1>7 DEF WalkOf

(* A page of the subtree.                                                  *)
LEMMA SubtreePage ==
    ASSUME NEW q, WalkOf(q), q.at = "subtree"
    PROVE  WalkOf(Shown(q, Subtree(q)))
<1>1. ~q.direct /\ Direct(q) \ touched \subseteq ToSet(q.seen)
  BY DEF WalkOf
<1>2. PICK page, T : page = Subtree(q) /\ page.rows \in Seq(T)
  BY SubtreeIsPage
<1>3. PICK U : q.seen \in Seq(U) /\ page.rows \in Seq(U)
  <2>1. PICK A : q.seen \in Seq(A)
    BY DEF WalkOf
  <2>2. PICK U : U = A \cup T
    OBVIOUS
  <2>3. q.seen \in Seq(U)
    BY <2>1, <2>2, SeqOver
  <2>4. page.rows \in Seq(U)
    BY <1>2, <2>2, SeqOver
  <2> QED
    BY <2>3, <2>4
<1>4. PICK n : n = Shown(q, page)
  OBVIOUS
<1>5. /\ WalkFields \subseteq DOMAIN n
      /\ n.cat = q.cat /\ n.status = q.status /\ n.direct = q.direct /\ n.failed = FALSE
      /\ n.at = IF page.next = 0 THEN "done" ELSE "shown"
      /\ n.seen \in Seq(U) /\ ToSet(n.seen) = ToSet(q.seen) \cup ToSet(page.rows)
  <2>1. WalkFields \subseteq DOMAIN q
    BY DEF WalkOf
  <2>2. ShowsMore(q, page, n, U)
    BY <1>3, <1>4, <2>1, ShownIs
  <2>3. q.failed = FALSE
    BY DEF WalkOf
  <2> QED
    BY <2>2, <2>3 DEF ShowsMore
<1>6. Direct(n) = Direct(q)
  BY <1>5 DEF Direct, Matches
<1>7. WalkOf(n)
  BY <1>1, <1>5, <1>6 DEF WalkOf
<1> QED
  BY <1>2, <1>4, <1>7

(* The next page is asked for.                                             *)
LEMMA NextPage ==
    ASSUME NEW q, WalkOf(q), q.at = "shown"
    PROVE  WalkOf([q EXCEPT !.after = q.next, !.at = "page"])
<1>1. PICK n : n = [q EXCEPT !.after = q.next, !.at = "page"]
  OBVIOUS
<1>2. /\ WalkFields \subseteq DOMAIN n
      /\ n.cat = q.cat /\ n.status = q.status /\ n.direct = q.direct /\ n.seen = q.seen
      /\ n.after = q.next /\ n.next = q.next /\ n.at = "page" /\ n.failed = FALSE /\ q.failed = FALSE
  BY <1>1 DEF WalkOf, WalkFields
<1>3. Direct(n) = Direct(q) /\ Reach(n) = Reach(q)
  BY <1>2 DEF Direct, Matches, Reach
<1> QED
  BY <1>1, <1>2, <1>3 DEF WalkOf

(* A page that could not be loaded: what was seen is all up to the cursor. *)
LEMMA LostPage ==
    ASSUME NEW q, WalkOf(q), q.at \in {"page", "subtree"}
    PROVE  WalkOf([q EXCEPT !.at = "done", !.failed = TRUE])
<1>1. PICK n : n = [q EXCEPT !.at = "done", !.failed = TRUE]
  OBVIOUS
<1>2. /\ WalkFields \subseteq DOMAIN n
      /\ n.cat = q.cat /\ n.status = q.status /\ n.direct = q.direct /\ n.seen = q.seen
      /\ n.after = q.after /\ n.next = q.next /\ n.at = "done" /\ n.failed = TRUE
  BY <1>1 DEF WalkOf, WalkFields
<1>3. Direct(n) = Direct(q)
  BY <1>2 DEF Direct, Matches
<1>4. q.direct => Reach(n) = Reach(q)
  BY <1>2 DEF Reach, WalkOf
<1> QED
  BY <1>1, <1>2, <1>3, <1>4 DEF WalkOf

(* A step of a walk.                                                       *)
LEMMA WalkWalks ==
    ASSUME IInv, WalkInv, NEW r \in Slot, Walk(r)
    PROVE  WalkInv'
<1>1. PICK q : q = req[r]
  OBVIOUS
<1>2. WalkOf(q) /\ q.kind = "walk"
  BY <1>1 DEF Walk, At, WalkInv
<1>3. PICK n : Goes(r, n) /\ WalkOf(n)
  <2>0. CASE /\ q.at \in {"page", "subtree"}
             /\ Goes(r, [q EXCEPT !.at = "done", !.failed = TRUE])
    BY <1>2, <2>0, LostPage
  <2> SUFFICES ASSUME ~(/\ q.at \in {"page", "subtree"}
                        /\ Goes(r, [q EXCEPT !.at = "done", !.failed = TRUE]))
               PROVE  \E n : Goes(r, n) /\ WalkOf(n)
    BY <2>0
  <2>1. CASE q.at = "page" /\ (q.cat = 0 \/ ListFrom(q).rows # <<>>)
    <3>1. Goes(r, Shown(q, ListFrom(q)))
      BY <1>1, <2>1 DEF Walk, At
    <3> QED
      BY <1>2, <2>1, <3>1, DirectPage
  <2>2. CASE q.at = "page" /\ ~(q.cat = 0 \/ ListFrom(q).rows # <<>>)
    <3>1. Goes(r, [q EXCEPT !.at = "subtree", !.direct = FALSE])
      BY <1>1, <2>2 DEF Walk, At
    <3> QED
      BY <1>2, <2>2, <3>1, DirectOver
  <2>3. CASE q.at = "subtree"
    <3>1. Goes(r, Shown(q, Subtree(q)))
      BY <1>1, <2>3 DEF Walk, At
    <3> QED
      BY <1>2, <2>3, <3>1, SubtreePage
  <2>4. CASE q.at = "shown"
    <3>1. Goes(r, [q EXCEPT !.after = q.next, !.at = "page"])
      BY <1>1, <2>4 DEF Walk, At
    <3> QED
      BY <1>2, <2>4, <3>1, NextPage
  <2> QED
    BY <1>1, <2>1, <2>2, <2>3, <2>4 DEF Walk, At
<1>4. UNCHANGED <<link, touched>>
  BY DEF Walk, Quietly, server
<1>5. TouchKept
  BY <1>4 DEF TouchKept
<1>6. req' = [s \in Slot |-> IF s = r THEN n ELSE req[s]]
  BY <1>3 DEF Goes, IInv, RequestsKept, MapOn
<1>7. Walking
  BY <1>1, <1>2 DEF Walking
<1> SUFFICES ASSUME NEW s \in Slot, NEW m, m = req'[s], m.kind = "walk" PROVE WalkOf(m)'
  BY WalkClosed
<1>8. WalkOf(m)
  BY <1>3, <1>6 DEF WalkInv
<1> QED
  BY <1>5, <1>7, <1>8, WalkStays

(* Every step keeps what every walk has seen.                              *)
LEMMA StepWalks == IInv /\ WalkInv /\ [Next]_vars => WalkInv'
<1> SUFFICES ASSUME IInv, WalkInv, [Next]_vars PROVE WalkInv'
  OBVIOUS
<1>1. CASE UNCHANGED vars
  <2>1. UNCHANGED <<link, touched, req>>
    BY <1>1 DEF vars, server
  <2> QED
    BY <2>1 DEF WalkInv, WalkOf, Reach, Direct, Matches, IsLive
<1>2. ASSUME NEW r \in Slot, Step(r) PROVE WalkInv'
  BY <1>2, BeginWalks, OneLinkWalks, EnrichWalks, CategoryWalks, BulkWalks, WalkWalks, FinishWalks
     DEF Step
<1> QED
  BY <1>1, <1>2, LateWalks DEF Next

(* Whoever reads a list of links page by page to its end has seen every    *)
(* link that was on it all the while, whatever was decided, moved, created *)
(* and deleted between two pages, and none twice; where a load failed, all *)
(* that lay up to the last page shown (paginate_links in                   *)
(* operations_link.zig, loadLinks() and the handler of links.tsx).         *)
THEOREM WalksSeeAll == Spec => []WalksMissNothing
<1>1. Init => IInv /\ WalkInv
  <2>1. Init => WalkInv
    BY DEF Init, WalkInv, Free
  <2> QED
    BY <2>1, InitLinks
<1>2. IInv /\ WalkInv /\ [Next]_vars => (IInv /\ WalkInv)'
  BY StepKeeps, StepWalks
<1>3. IInv /\ WalkInv => WalksMissNothing
  <2> SUFFICES ASSUME WalkInv, NEW r \in Slot, NEW q, q = req[r], q.kind = "walk", q.at = "done"
               PROVE  /\ \A l \in Direct(q) \ touched : (q.failed => l <= q.after) => l \in ToSet(q.seen)
                      /\ q.direct => IsInjective(q.seen)
    BY DEF WalksMissNothing, At
  <2>1. WalkOf(q)
    BY DEF WalkInv
  <2>2. CASE q.direct /\ q.failed
    BY <2>1, <2>2 DEF WalkOf, Reach
  <2>3. CASE ~q.direct \/ ~q.failed
    BY <2>1, <2>3 DEF WalkOf
  <2> QED
    BY <2>2, <2>3
<1> QED
  BY <1>1, <1>2, <1>3, PTL DEF Spec
=============================================================================
