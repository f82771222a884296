-------------------------- MODULE LinkIndexProofs --------------------------
(***************************************************************************)
(* LinkIndex for any number of urls, hash collisions, links and            *)
(* categories: its invariants are inductive together.  The category index  *)
(* must be exact for delete_category to leave no link behind, links must   *)
(* be fresh for a create not to meet a vector, and an entry of the hash    *)
(* index must name a live link for its owner to be told apart.             *)
(***************************************************************************)
EXTENDS LinkIndex, TLAPS

(* The category being deleted is live until its deletion commits.          *)
DeletingIsLive == Unlocked \/ deleting.category \in cats

IInv ==
    /\ TypeOK /\ DeletingIsLive
    /\ IndexesExact /\ HashOwnersAreLive /\ EntryKeptUnlessOvertaken
    /\ VectorsMatchText /\ LinksHaveCategory

(* The state the records and both key sets are in, link by link.           *)
LEMMA KeysOfLinks ==
    ASSUME IndexesExact
    PROVE  /\ \A c, id : <<c, id>> \in byCategory <=> id \in Live /\ links[id].category = c
           /\ \A s, id : <<s, id>> \in bySubmitter <=>
                  id \in Live /\ links[id].submitter = s /\ s # Anonymous
BY DEF IndexesExact

(* Init establishes the invariant.                                         *)
LEMMA InitInvariant == Init => IInv
<1> SUFFICES ASSUME Init PROVE IInv
  OBVIOUS
<1> USE DEF Init
<1>1. Live = {} /\ DOMAIN byHash = {} /\ DOMAIN vectors = {}
  BY DEF Live
<1>2. TypeOK
  BY <1>1, BoundAssumption DEF TypeOK, Idle, NoCategory
<1>3. IndexesExact
  BY <1>1 DEF IndexesExact
<1> QED
  BY <1>1, <1>2, <1>3 DEF IInv, DeletingIsLive, Unlocked, HashOwnersAreLive,
     EntryKeptUnlessOvertaken, VectorsMatchText, LinksHaveCategory

(* create_link keeps it: the new id is fresh, and whoever loses the entry  *)
(* of the hash is recorded.                                                *)
LEMMA CreateLinkInvariant == IInv /\ CreateLink => IInv'
<1> SUFFICES ASSUME IInv, CreateLink PROVE IInv'
  OBVIOUS
<1> USE DEF IInv
<1>1. PICK link \in Link :
        /\ link.category \in cats \cup {NoCategory}
        /\ links' = With(links, nextId, link)
        /\ byCategory' = byCategory \cup {<<link.category, nextId>>}
        /\ byHash' = With(byHash, Hash[link.url], nextId)
        /\ bySubmitter' = IF link.submitter = Anonymous THEN bySubmitter
                          ELSE bySubmitter \cup {<<link.submitter, nextId>>}
        /\ overtaken' = overtaken \cup OwnersOf(byHash, link.url)
  BY DEF CreateLink
<1>2. /\ nextId \in LinkId /\ nextId' = nextId + 1 /\ nextId \notin Live
      /\ Live \subseteq LinkId /\ Live' = Live \cup {nextId}
      /\ links'[nextId] = link /\ \A id \in Live : links'[id] = links[id]
  BY <1>1, BoundAssumption DEF CreateLink, IssueId, TypeOK, LinkId, Live, With
<1>3. /\ UNCHANGED <<cats, nextCat, vectors, deleting>>
  BY DEF CreateLink
<1>4. link.url \in Url /\ Hash[link.url] \in UrlHash
  BY HashAssumption DEF Link
<1>5. /\ DOMAIN byHash' = DOMAIN byHash \cup {Hash[link.url]}
      /\ byHash'[Hash[link.url]] = nextId
      /\ \A h \in DOMAIN byHash \ {Hash[link.url]} : byHash'[h] = byHash[h]
  BY <1>1 DEF With
<1>6. TypeOK'
  <2>1. nextId' \in 1 .. MaxId + 1 /\ Live' \subseteq 1 .. nextId' - 1
    <3>1. /\ nextId \in Nat /\ nextId <= MaxId /\ nextId >= 1 /\ nextId' = nextId + 1
          /\ \A id \in Live : id \in Nat /\ 1 <= id /\ id < nextId
      BY <1>2, BoundAssumption DEF TypeOK, LinkId
    <3>2. \A id \in Live' : id \in 1 .. nextId
      BY <1>2, <3>1
    <3> QED
      BY <3>1, <3>2, BoundAssumption
  <2>2. \A id \in Live' : links'[id] \in Link
    BY <1>1, <1>2 DEF TypeOK
  <2>3. byCategory' \subseteq (Category \cup {NoCategory}) \X LinkId
    BY <1>1, <1>2 DEF TypeOK, Link
  <2>4. bySubmitter' \subseteq Submitter \X LinkId
    BY <1>1, <1>2 DEF TypeOK, Link
  <2>5. DOMAIN byHash' \subseteq UrlHash /\ \A h \in DOMAIN byHash' : byHash'[h] \in LinkId
    BY <1>2, <1>4, <1>5 DEF TypeOK
  <2>6. overtaken' \subseteq LinkId
    BY <1>1 DEF TypeOK, OwnersOf
  <2> QED
    BY <1>3, <2>1, <2>2, <2>3, <2>4, <2>5, <2>6 DEF TypeOK
<1>7. IndexesExact'
  <2>1. byCategory' = {<<links'[id].category, id>> : id \in Live'}
    BY <1>1, <1>2 DEF IndexesExact
  <2>2. bySubmitter' = {<<links'[id].submitter, id>> :
                            id \in {i \in Live' : links'[i].submitter # Anonymous}}
    <3>1. CASE link.submitter = Anonymous
      BY <1>1, <1>2, <3>1 DEF IndexesExact
    <3>2. CASE link.submitter # Anonymous
      BY <1>1, <1>2, <3>2 DEF IndexesExact
    <3> QED
      BY <3>1, <3>2
  <2> QED
    BY <2>1, <2>2 DEF IndexesExact
<1>8. HashOwnersAreLive'
  BY <1>2, <1>5 DEF HashOwnersAreLive
<1>9. EntryKeptUnlessOvertaken'
  BY <1>1, <1>2, <1>5 DEF EntryKeptUnlessOvertaken, OwnersOf
<1>10. VectorsMatchText'
  BY <1>2, <1>3 DEF VectorsMatchText
<1>11. LinksHaveCategory'
  BY <1>1, <1>2, <1>3 DEF LinksHaveCategory
<1> QED
  BY <1>3, <1>6, <1>7, <1>8, <1>9, <1>10, <1>11 DEF DeletingIsLive, Unlocked

(* update_link keeps it: the old entry goes only if it is the link's, and  *)
(* the vector goes with the text.                                          *)
LEMMA UpdateLinkInvariant == IInv /\ UpdateLink => IInv'
<1> SUFFICES ASSUME IInv, UpdateLink PROVE IInv'
  OBVIOUS
<1> USE DEF IInv
<1>1. PICK i \in Live, url \in Url, text \in Text :
        LET new == [url |-> url, category |-> links[i].category,
                    submitter |-> links[i].submitter, text |-> text]
            disowned == Disowned(links[i].url, i)
        IN  /\ links' = With(links, i, new)
            /\ vectors' = VectorsAfterUpdate(i, new)
            /\ IF url = links[i].url
               THEN UNCHANGED <<byHash, overtaken>>
               ELSE /\ byHash' = With(disowned, Hash[url], i)
                    /\ overtaken' = (overtaken \cup OwnersOf(disowned, url)) \ {i}
  BY DEF UpdateLink
<1> DEFINE new == [url |-> url, category |-> links[i].category,
                   submitter |-> links[i].submitter, text |-> text]
           disowned == Disowned(links[i].url, i)
<1>2. UNCHANGED <<cats, nextCat, nextId, byCategory, bySubmitter, deleting>>
  BY DEF UpdateLink
<1>3. /\ links[i] \in Link /\ new \in Link
      /\ new.url = url /\ new.text = text
      /\ new.category = links[i].category /\ new.submitter = links[i].submitter
  BY <1>1 DEF TypeOK, Link
<1>4. /\ Live' = Live /\ links'[i] = new
      /\ \A id \in Live \ {i} : links'[id] = links[id]
      /\ i \in LinkId /\ Live \subseteq LinkId
  BY <1>1, BoundAssumption DEF Live, With, TypeOK, LinkId
<1>5. /\ DOMAIN vectors' \subseteq DOMAIN vectors
      /\ \A id \in DOMAIN vectors' : vectors'[id] = vectors[id]
      /\ links[i].text # text => i \notin DOMAIN vectors'
  BY <1>1, <1>3 DEF VectorsAfterUpdate, Without
<1>6. /\ \A h \in DOMAIN disowned : h \in DOMAIN byHash /\ disowned[h] = byHash[h]
      /\ \A h \in DOMAIN byHash \ DOMAIN disowned : byHash[h] = i
      /\ Hash[links[i].url] \in DOMAIN disowned => disowned[Hash[links[i].url]] # i
  BY DEF Disowned, Without
<1>7. Hash[url] \in UrlHash
  BY HashAssumption
<1>8. IndexesExact'
  BY <1>2, <1>3, <1>4 DEF IndexesExact
<1>9. VectorsMatchText'
  BY <1>3, <1>4, <1>5 DEF VectorsMatchText
<1>10. LinksHaveCategory'
  BY <1>2, <1>3, <1>4 DEF LinksHaveCategory
<1>11. CASE url = links[i].url
  <2>1. UNCHANGED <<byHash, overtaken>>
    BY <1>1, <1>11
  <2>2. \A id \in Live : links'[id].url = links[id].url
    BY <1>3, <1>4, <1>11
  <2>3. TypeOK'
    BY <1>2, <1>3, <1>4, <1>5, <2>1 DEF TypeOK
  <2>4. HashOwnersAreLive'
    BY <1>4, <2>1, <2>2 DEF HashOwnersAreLive
  <2>5. EntryKeptUnlessOvertaken'
    BY <1>4, <2>1, <2>2 DEF EntryKeptUnlessOvertaken
  <2> QED
    BY <1>2, <1>8, <1>9, <1>10, <2>3, <2>4, <2>5 DEF DeletingIsLive, Unlocked
<1>12. CASE url # links[i].url
  <2>1. /\ byHash' = With(disowned, Hash[url], i)
        /\ overtaken' = (overtaken \cup OwnersOf(disowned, url)) \ {i}
    BY <1>1, <1>12
  <2>2. /\ DOMAIN byHash' = DOMAIN disowned \cup {Hash[url]}
        /\ byHash'[Hash[url]] = i
        /\ \A h \in DOMAIN disowned \ {Hash[url]} : byHash'[h] = byHash[h]
    BY <1>6, <2>1 DEF With
  <2>3. TypeOK'
    <3>1. DOMAIN byHash' \subseteq UrlHash /\ \A h \in DOMAIN byHash' : byHash'[h] \in LinkId
      BY <1>4, <1>6, <1>7, <2>2 DEF TypeOK
    <3>2. overtaken' \subseteq LinkId
      BY <1>6, <2>1 DEF TypeOK, OwnersOf
    <3> QED
      BY <1>2, <1>3, <1>4, <1>5, <3>1, <3>2 DEF TypeOK
  <2>4. HashOwnersAreLive'
    <3> SUFFICES ASSUME NEW h \in DOMAIN byHash'
                 PROVE  byHash'[h] \in Live' /\ Hash[links'[byHash'[h]].url] = h
      BY DEF HashOwnersAreLive
    <3>1. CASE h = Hash[url]
      BY <1>3, <1>4, <2>2, <3>1
    <3>2. CASE h # Hash[url]
      <4>1. h \in DOMAIN disowned /\ byHash'[h] = byHash[h] /\ disowned[h] = byHash[h]
        BY <1>6, <2>2, <3>2
      <4>2. h \in DOMAIN byHash /\ byHash[h] \in Live /\ Hash[links[byHash[h]].url] = h
        BY <1>6, <4>1 DEF HashOwnersAreLive
      <4>3. byHash[h] # i
        BY <1>6, <4>1, <4>2
      <4> QED
        BY <1>4, <4>1, <4>2, <4>3
    <3> QED
      BY <3>1, <3>2
  <2>5. EntryKeptUnlessOvertaken'
    <3> SUFFICES ASSUME NEW id \in Live', id \notin overtaken'
                 PROVE  /\ Hash[links'[id].url] \in DOMAIN byHash'
                        /\ byHash'[Hash[links'[id].url]] = id
      BY DEF EntryKeptUnlessOvertaken
    <3>1. CASE id = i
      BY <1>3, <1>4, <2>2, <3>1
    <3>2. CASE id # i
      <4>1. id \in Live \ overtaken /\ links'[id].url = links[id].url
        BY <1>4, <2>1, <3>2
      <4>2. Hash[links[id].url] \in DOMAIN byHash /\ byHash[Hash[links[id].url]] = id
        BY <4>1 DEF EntryKeptUnlessOvertaken
      <4>3. Hash[links[id].url] \in DOMAIN disowned /\ disowned[Hash[links[id].url]] = id
        BY <1>6, <3>2, <4>2
      <4>4. Hash[links[id].url] # Hash[url]
        BY <2>1, <3>2, <4>3 DEF OwnersOf
      <4> QED
        BY <2>2, <4>1, <4>2, <4>3, <4>4
    <3> QED
      BY <3>1, <3>2
  <2> QED
    BY <1>2, <1>8, <1>9, <1>10, <2>3, <2>4, <2>5 DEF DeletingIsLive, Unlocked
<1> QED
  BY <1>11, <1>12

(* move_link keeps it: one key of the category index for another.          *)
LEMMA MoveLinkInvariant == IInv /\ MoveLink => IInv'
<1> SUFFICES ASSUME IInv, MoveLink PROVE IInv'
  OBVIOUS
<1> USE DEF IInv
<1>1. PICK i \in Live, category \in cats :
        /\ links' = With(links, i, [links[i] EXCEPT !.category = category])
        /\ byCategory' = MovedKey(i, links[i].category, category)
  BY DEF MoveLink
<1> DEFINE new == [links[i] EXCEPT !.category = category]
<1>2. UNCHANGED <<cats, nextCat, nextId, bySubmitter, byHash, vectors, deleting, overtaken>>
  BY DEF MoveLink
<1>3. /\ category \in Category
      /\ links[i] \in Link /\ new \in Link /\ new.category = category
      /\ new.url = links[i].url /\ new.text = links[i].text
      /\ new.submitter = links[i].submitter
  BY <1>1, BoundAssumption DEF TypeOK, Link, Category
<1> HIDE DEF new
<1>4. /\ Live' = Live /\ links'[i] = new
      /\ \A id \in Live \ {i} : links'[id] = links[id]
      /\ i \in LinkId
  <2>1. links' = With(links, i, new)
    BY <1>1 DEF new
  <2>2. /\ Live' = Live /\ links'[i] = new
        /\ \A id \in Live \ {i} : links'[id] = links[id]
    BY <2>1 DEF Live, With
  <2>3. i \in LinkId
    BY BoundAssumption DEF TypeOK, LinkId
  <2> QED
    BY <2>2, <2>3
<1>5. \A id \in Live : /\ links'[id].url = links[id].url
                       /\ links'[id].text = links[id].text
                       /\ links'[id].submitter = links[id].submitter
  BY <1>3, <1>4
<1>6. TypeOK'
  <2>1. byCategory' \subseteq (Category \cup {NoCategory}) \X LinkId
    BY <1>1, <1>3, <1>4 DEF TypeOK, MovedKey
  <2>2. \A id \in Live' : links'[id] \in Link
    BY <1>3, <1>4 DEF TypeOK
  <2> QED
    BY <1>2, <1>4, <2>1, <2>2 DEF TypeOK
<1>7. IndexesExact'
  <2>1. byCategory' = {<<links'[id].category, id>> : id \in Live'}
    <3>1. byCategory' = (byCategory \ {<<links[i].category, i>>}) \cup {<<category, i>>}
      BY <1>1 DEF MovedKey
    <3> QED
      BY <1>3, <1>4, <3>1 DEF IndexesExact
  <2>2. bySubmitter' = {<<links'[id].submitter, id>> :
                            id \in {j \in Live' : links'[j].submitter # Anonymous}}
    BY <1>2, <1>4, <1>5 DEF IndexesExact
  <2> QED
    BY <2>1, <2>2 DEF IndexesExact
<1>8. HashOwnersAreLive'
  BY <1>2, <1>4, <1>5 DEF HashOwnersAreLive
<1>9. EntryKeptUnlessOvertaken'
  BY <1>2, <1>4, <1>5 DEF EntryKeptUnlessOvertaken
<1>10. VectorsMatchText'
  BY <1>2, <1>4, <1>5 DEF VectorsMatchText
<1>11. LinksHaveCategory'
  BY <1>1, <1>2, <1>3, <1>4 DEF LinksHaveCategory
<1> QED
  BY <1>2, <1>6, <1>7, <1>8, <1>9, <1>10, <1>11 DEF DeletingIsLive, Unlocked

(* apply_link_deleted keeps the invariant, whoever deletes: a link in the  *)
(* other links' entries is not disturbed.                                  *)
LEMMA DeletedInvariant ==
    ASSUME IInv, NEW i \in Live, Deleted(i), UNCHANGED <<cats, nextCat, nextId>>,
           deleting' \in [category : Category \cup {NoCategory}, left : 0..PagesMax],
           DeletingIsLive'
    PROVE  IInv'
<1> USE DEF IInv
<1>1. /\ Live' = Live \ {i} /\ \A id \in Live' : links'[id] = links[id]
      /\ byCategory' = byCategory \ {<<links[i].category, i>>}
      /\ bySubmitter' = bySubmitter \ {<<links[i].submitter, i>>}
      /\ byHash' = Disowned(links[i].url, i)
      /\ overtaken' = overtaken \ {i}
  BY DEF Deleted, Live, Without
<1>2. /\ DOMAIN vectors' = DOMAIN vectors \ {i}
      /\ \A id \in DOMAIN vectors' : vectors'[id] = vectors[id]
  BY DEF Deleted, Without
<1>3. /\ \A h \in DOMAIN byHash' : h \in DOMAIN byHash /\ byHash'[h] = byHash[h]
      /\ \A h \in DOMAIN byHash \ DOMAIN byHash' : byHash[h] = i
      /\ Hash[links[i].url] \in DOMAIN byHash' => byHash'[Hash[links[i].url]] # i
  BY <1>1 DEF Disowned, Without
<1>4. TypeOK'
  BY <1>1, <1>2, <1>3 DEF TypeOK
<1>5. IndexesExact'
  BY <1>1 DEF IndexesExact
<1>6. HashOwnersAreLive'
  <2> SUFFICES ASSUME NEW h \in DOMAIN byHash'
               PROVE  byHash'[h] \in Live' /\ Hash[links'[byHash'[h]].url] = h
    BY DEF HashOwnersAreLive
  <2>1. h \in DOMAIN byHash /\ byHash'[h] = byHash[h]
    BY <1>3
  <2>2. byHash[h] \in Live /\ Hash[links[byHash[h]].url] = h
    BY <2>1 DEF HashOwnersAreLive
  <2>3. byHash[h] # i
    BY <1>3, <2>1, <2>2
  <2> QED
    BY <1>1, <2>1, <2>2, <2>3
<1>7. EntryKeptUnlessOvertaken'
  <2> SUFFICES ASSUME NEW id \in Live', id \notin overtaken'
               PROVE  /\ Hash[links'[id].url] \in DOMAIN byHash'
                      /\ byHash'[Hash[links'[id].url]] = id
    BY DEF EntryKeptUnlessOvertaken
  <2>1. id \in Live \ overtaken /\ id # i /\ links'[id] = links[id]
    BY <1>1
  <2>2. Hash[links[id].url] \in DOMAIN byHash /\ byHash[Hash[links[id].url]] = id
    BY <2>1 DEF EntryKeptUnlessOvertaken
  <2> QED
    BY <1>3, <2>1, <2>2
<1>8. VectorsMatchText'
  BY <1>1, <1>2 DEF VectorsMatchText
<1>9. LinksHaveCategory'
  BY <1>1 DEF LinksHaveCategory
<1> QED
  BY <1>4, <1>5, <1>6, <1>7, <1>8, <1>9

(* put_link_vectors keeps it: only the vector of a live link changes, to   *)
(* one of its present text.                                                *)
LEMMA PutLinkVectorInvariant == IInv /\ PutLinkVector => IInv'
<1> SUFFICES ASSUME IInv, PutLinkVector PROVE IInv'
  OBVIOUS
<1> USE DEF IInv
<1>1. PICK i \in Live, text \in Text :
        links[i].text = text /\ vectors' = With(vectors, i, text)
  BY DEF PutLinkVector
<1>2. /\ UNCHANGED <<cats, nextCat, links, nextId, byCategory, bySubmitter, byHash,
                     deleting, overtaken>>
      /\ Live' = Live /\ i \in LinkId
  BY BoundAssumption DEF PutLinkVector, Live, TypeOK, LinkId
<1>3. /\ DOMAIN vectors' = DOMAIN vectors \cup {i} /\ vectors'[i] = text
      /\ \A id \in DOMAIN vectors \ {i} : vectors'[id] = vectors[id]
  BY <1>1 DEF With
<1>4. TypeOK'
  BY <1>2, <1>3 DEF TypeOK
<1>5. VectorsMatchText'
  BY <1>1, <1>2, <1>3 DEF VectorsMatchText
<1> QED
  BY <1>2, <1>4, <1>5 DEF DeletingIsLive, Unlocked, IndexesExact, HashOwnersAreLive,
     EntryKeptUnlessOvertaken, LinksHaveCategory

(* A category goes only once the exact category index lists no link in it. *)
LEMMA CategoryInvariant ==
    IInv /\ (CreateCategory \/ DeleteCategoryStart \/ DeleteCategoryFinish \/ Restart) => IInv'
<1> SUFFICES ASSUME IInv,
                    CreateCategory \/ DeleteCategoryStart \/ DeleteCategoryFinish \/ Restart
             PROVE  IInv'
  OBVIOUS
<1> USE DEF IInv
<1>1. /\ UNCHANGED <<links, nextId, byCategory, bySubmitter, byHash, vectors, overtaken>>
      /\ Live' = Live
  BY DEF CreateCategory, DeleteCategoryStart, DeleteCategoryFinish, Restart, Live
<1>2. IndexesExact' /\ HashOwnersAreLive' /\ EntryKeptUnlessOvertaken' /\ VectorsMatchText'
  BY <1>1 DEF IndexesExact, HashOwnersAreLive, EntryKeptUnlessOvertaken, VectorsMatchText
<1>3. Idle \in [category : Category \cup {NoCategory}, left : 0..PagesMax]
  BY BoundAssumption DEF Idle
<1>4. CASE CreateCategory
  <2>1. TypeOK' /\ DeletingIsLive'
    BY <1>1, <1>4, BoundAssumption DEF CreateCategory, TypeOK, DeletingIsLive, Unlocked
  <2>2. LinksHaveCategory'
    BY <1>1, <1>4 DEF CreateCategory, LinksHaveCategory
  <2> QED
    BY <1>2, <2>1, <2>2
<1>5. CASE DeleteCategoryStart
  <2>1. PICK category \in cats : deleting' = [category |-> category, left |-> PagesMax]
    BY <1>5 DEF DeleteCategoryStart
  <2>2. UNCHANGED <<cats, nextCat>>
    BY <1>5 DEF DeleteCategoryStart
  <2>3. TypeOK' /\ DeletingIsLive'
    BY <1>1, <2>1, <2>2, BoundAssumption DEF TypeOK, DeletingIsLive, Category
  <2>4. LinksHaveCategory'
    BY <1>1, <2>2 DEF LinksHaveCategory
  <2> QED
    BY <1>2, <2>3, <2>4
<1>6. CASE DeleteCategoryFinish
  <2>1. TypeOK' /\ DeletingIsLive'
    BY <1>1, <1>3, <1>6 DEF DeleteCategoryFinish, TypeOK, DeletingIsLive, Unlocked
  <2>2. LinksHaveCategory'
    <3>1. CASE UNCHANGED cats
      BY <1>1, <3>1 DEF LinksHaveCategory
    <3>2. CASE Listed(deleting.category) = {} /\ cats' = cats \ {deleting.category}
      <4>1. \A id \in Live : links[id].category # deleting.category
        BY <3>2, KeysOfLinks DEF Listed
      <4> QED
        BY <1>1, <3>2, <4>1 DEF LinksHaveCategory
    <3> QED
      BY <1>6, <3>1, <3>2 DEF DeleteCategoryFinish
  <2> QED
    BY <1>2, <2>1, <2>2
<1>7. CASE Restart
  <2>1. TypeOK' /\ DeletingIsLive'
    BY <1>1, <1>3, <1>7 DEF Restart, TypeOK, DeletingIsLive, Unlocked
  <2>2. LinksHaveCategory'
    BY <1>1, <1>7 DEF Restart, LinksHaveCategory
  <2> QED
    BY <1>2, <2>1, <2>2
<1> QED
  BY <1>4, <1>5, <1>6, <1>7

(* A commit of delete_category deletes one link and counts its page.       *)
LEMMA DeleteCategoryLinkInvariant == IInv /\ DeleteCategoryLink => IInv'
<1> SUFFICES ASSUME IInv, DeleteCategoryLink PROVE IInv'
  OBVIOUS
<1>1. PICK i \in Listed(deleting.category) : Deleted(i)
  BY DEF DeleteCategoryLink
<1>2. /\ deleting.left > 0 /\ deleting' = [deleting EXCEPT !.left = @ - 1]
      /\ UNCHANGED <<cats, nextCat, nextId>> /\ ~Unlocked
  BY DEF DeleteCategoryLink
<1>3. i \in Live
  BY DEF Listed
<1>4. /\ deleting' \in [category : Category \cup {NoCategory}, left : 0..PagesMax]
      /\ deleting'.category = deleting.category
  BY <1>2, BoundAssumption DEF IInv, TypeOK
<1>5. DeletingIsLive'
  BY <1>2, <1>4 DEF IInv, DeletingIsLive
<1> QED
  BY <1>1, <1>2, <1>3, <1>4, <1>5, DeletedInvariant

(* delete_link is apply_link_deleted and nothing else.                     *)
LEMMA DeleteLinkInvariant == IInv /\ DeleteLink => IInv'
<1> SUFFICES ASSUME IInv, DeleteLink PROVE IInv'
  OBVIOUS
<1>1. PICK i \in Live : Deleted(i)
  BY DEF DeleteLink
<1>2. UNCHANGED <<cats, nextCat, nextId, deleting>>
  BY DEF DeleteLink
<1>3. /\ deleting' \in [category : Category \cup {NoCategory}, left : 0..PagesMax]
      /\ DeletingIsLive'
  BY <1>2 DEF IInv, TypeOK, DeletingIsLive, Unlocked
<1> QED
  BY <1>1, <1>2, <1>3, DeletedInvariant

(* Every step keeps the invariant.                                         *)
LEMMA StepInvariant == IInv /\ [Next]_vars => IInv'
<1> SUFFICES ASSUME IInv, [Next]_vars PROVE IInv'
  OBVIOUS
<1>1. CASE CreateLink
  BY <1>1, CreateLinkInvariant
<1>2. CASE UpdateLink
  BY <1>2, UpdateLinkInvariant
<1>3. CASE MoveLink
  BY <1>3, MoveLinkInvariant
<1>4. CASE DeleteLink
  BY <1>4, DeleteLinkInvariant
<1>5. CASE PutLinkVector
  BY <1>5, PutLinkVectorInvariant
<1>6. CASE CreateCategory \/ DeleteCategoryStart \/ DeleteCategoryFinish \/ Restart
  BY <1>6, CategoryInvariant
<1>7. CASE DeleteCategoryLink
  BY <1>7, DeleteCategoryLinkInvariant
<1>8. CASE UNCHANGED vars
  BY <1>8 DEF vars, IInv, TypeOK, DeletingIsLive, Unlocked, Live, IndexesExact,
     HashOwnersAreLive, EntryKeptUnlessOvertaken, VectorsMatchText, LinksHaveCategory
<1> QED
  BY <1>1, <1>2, <1>3, <1>4, <1>5, <1>6, <1>7, <1>8 DEF Next

(* The parts of the invariant hold of every behaviour.                     *)
THEOREM InductiveInvariant == Spec => []IInv
BY InitInvariant, StepInvariant, PTL DEF Spec

(* Every variable keeps its type, for any number of ids.                   *)
THEOREM TypeCorrect == Spec => []TypeOK
<1>1. IInv => TypeOK
  BY DEF IInv
<1> QED
  BY <1>1, InductiveInvariant, PTL

(* The category and submitter indexes list exactly the live links.         *)
THEOREM IndexesAreExact == Spec => []IndexesExact
<1>1. IInv => IndexesExact
  BY DEF IInv
<1> QED
  BY <1>1, InductiveInvariant, PTL

(* No entry of the url-hash index outlives its link or its url.            *)
THEOREM HashOwnersStayLive == Spec => []HashOwnersAreLive
<1>1. IInv => HashOwnersAreLive
  BY DEF IInv
<1> QED
  BY <1>1, InductiveInvariant, PTL

(* Only an overtaking link takes the entry of another.                     *)
THEOREM EntriesAreKept == Spec => []EntryKeptUnlessOvertaken
<1>1. IInv => EntryKeptUnlessOvertaken
  BY DEF IInv
<1> QED
  BY <1>1, InductiveInvariant, PTL

(* A stored vector is one of its link's present text.                      *)
THEOREM VectorsAreCurrent == Spec => []VectorsMatchText
<1>1. IInv => VectorsMatchText
  BY DEF IInv
<1> QED
  BY <1>1, InductiveInvariant, PTL

(* No category is deleted from under a link.                               *)
THEOREM CategoriesOutliveLinks == Spec => []LinksHaveCategory
<1>1. IInv => LinksHaveCategory
  BY DEF IInv
<1> QED
  BY <1>1, InductiveInvariant, PTL

(* create_link meets every url whose link still owns its hash entry.       *)
THEOREM CreatesNoDuplicate == Spec => NoDuplicateCreated
<1>1. IInv /\ [Next]_vars =>
        [CreateLink => \A id \in Live \ overtaken : links'[nextId].url # links[id].url]_vars
  <2> SUFFICES ASSUME IInv, CreateLink, NEW id \in Live, id \notin overtaken
               PROVE  links'[nextId].url # links[id].url
    BY DEF NoDuplicateCreated
  <2>1. PICK link \in Link : ~UrlTaken(link.url) /\ links' = With(links, nextId, link)
    BY DEF CreateLink
  <2>2. links'[nextId].url = link.url
    BY <2>1 DEF With
  <2>3. Hash[links[id].url] \in DOMAIN byHash /\ byHash[Hash[links[id].url]] = id
    BY DEF IInv, EntryKeptUnlessOvertaken
  <2> QED
    BY <2>1, <2>2, <2>3 DEF UrlTaken
<1> QED
  BY <1>1, InductiveInvariant, PTL DEF Spec, NoDuplicateCreated
=============================================================================
